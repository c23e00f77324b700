-------------------------- MODULE DetectionProofs --------------------------
(***************************************************************************)
(* What one region's detection claims is true, for any account, paging,    *)
(* errors and changes (RegionDetection), and the memo of listings beneath  *)
(* it gives everybody one answer, for any number of threads and keys       *)
(* (ScopedProvider).                                                       *)
(*                                                                         *)
(* RegionDetection.  None of the properties of the cells is inductive: a   *)
(* cell is built from listings that were read pages and errors ago.        *)
(* DetectionInv says of every place a listing passes through what it tells  *)
(* of the account's history: of the pages read so far (CallTrue), of the   *)
(* memo (MemoTrue), of the index of the stacks (IndexTrue), of what the    *)
(* detector has heard (HeardTrue) and of the cells (CellsTrue).  Each of   *)
(* these facts survives a change of the account, since they only bound the  *)
(* history from below; so a step is shown to keep them by following what   *)
(* it hands from one place to the next.                                    *)
(*                                                                         *)
(* ScopedProvider.  OneAnswerPerKey is not inductive: the second answer is *)
(* given by a thread that started to load before the first was remembered. *)
(* ProviderInv adds that the lock of a key is held by the thread inside    *)
(* its block, that a thread loads only what is not remembered, and that    *)
(* what was answered is what is remembered.                                *)
(***************************************************************************)
EXTENDS RegionDetection, ScopedProvider, FiniteSetTheorems, WellFoundedInduction, TLAPS

\* The listings that come in pages.
Paged == {"volumes", "addresses", "instances", "snapshots"}

\* An entry of a listing.
Entry ==
  [id : Thing, holds : SUBSET Thing,
   state : State \cup {"named", "locked", "shared", "private", "unknown", "owned"}]

\* A listing read to page n, in the light of the history h: it shows things as
\* they were, each once, and everything that was there all the while.
ShownTo(l, items, n, h) ==
  /\ items \in Seq(Entry)
  /\ \A k \in DOMAIN items :
       /\ items[k].id \in Things(l) /\ PageOf[items[k].id] <= n
       /\ items[k].state \in h[items[k].id] /\ Exists(items[k].state)
       /\ items[k].id \in Instance =>
            \A x \in Devices[items[k].id] : h[x] \subseteq {"in-use"} => x \in items[k].holds
  /\ \A j, k \in DOMAIN items : items[j].id = items[k].id => j = k
  /\ \A r \in Things(l) : PageOf[r] <= n /\ (\A s \in h[r] : Exists(s)) => r \in Ids(items)

\* What some stack of the scan held.
OwnedBy(h) == {r \in Resource : \E s \in Stack : r \in Members[s] /\ "live" \in h[s]}

\* The resources of the stacks, all but those in rest having been asked for.
Owners(items, rest, h) ==
  /\ items \in Seq(Entry)
  /\ Ids(items) \subseteq OwnedBy(h)
  /\ \A s \in Stack : h[s] \subseteq {"live"} => s \in rest \/ Members[s] \subseteq Ids(items)

\* Who shares the flagged snapshots, all but those in rest having been asked for.
Shares(items, rest, flagged) ==
  /\ items \in Seq(Entry)
  /\ \A k \in DOMAIN items :
       /\ items[k].id \in Snapshot
       /\ items[k].state = "shared" => "sharing" \in Protection[items[k].id]
  /\ \A s \in flagged \ rest : "sharing" \in Protection[s] =>
       \E k \in DOMAIN items : items[k].id = s /\ items[k].state = "shared"

\* A whole listing is what it is taken for.
Truthful(l, items, flagged, h) ==
  /\ items \in Seq(Entry)
  /\ l \in Paged => ShownTo(l, items, LastPage(l), h)
  /\ l = "images" => Ids(items) = {s \in Snapshot : "image" \in Protection[s]}
  /\ l = "locks" => Ids(items) = {s \in flagged : "lock" \in Protection[s]}
  /\ l = "attributes" => Shares(items, {}, flagged)
  /\ l = "stacks" => Owners(items, {}, h)

-------------------------------------------------------------------------------
\* What a cell is made of.
CandidateRecord ==
  [id : Thing, ownership : {"CONFIRMED", "LIKELY", "UNKNOWN"}, evaluated : BOOLEAN,
   details : SUBSET (Thing \cup {"image", "sharing", "lock"}), warnings : SUBSET Listings]

CellRecord ==
  [detector : {Detectors[k] : k \in 1 .. 4},
   status : {"COMPLETE", "MISSING_PERMISSION", "SKIPPED", "FAILED"},
   candidates : UNION {[places -> CandidateRecord] : places \in SUBSET Nat}]

\* The account has a history.
AccountTyped ==
  /\ state \in [Thing -> State] /\ seen \in [Thing -> SUBSET State]
  /\ \A r \in Thing : state[r] \in seen[r]

\* The variables of the thread.
ThreadTyped ==
  /\ turn \in 1 .. 5 /\ at \in Nat \ {0}
  /\ turn <= 4 => at <= Len(Calls(D)) + 1
  /\ heard \in [Listings -> Seq(Entry)] /\ warned \subseteq Listings
  /\ index \in [loaded : BOOLEAN, available : BOOLEAN, ids : SUBSET Resource]
  /\ region \in {"RUNNING", "COMPLETE", "PARTIAL", "FAILED", "SKIPPED"}

\* The cells so far, one per detector.
CellsTyped ==
  /\ cells \in Seq(CellRecord) /\ Len(cells) = turn - 1
  /\ \A k \in DOMAIN cells :
       /\ cells[k].detector = Detectors[k]
       /\ cells[k].status # "COMPLETE" => cells[k].candidates = <<>>

\* The detector is past its call for a listing.
Past(d, n, l) == \E j \in 1 .. n - 1 : j <= Len(Calls(d)) /\ Calls(d)[j] = l

\* The resources that pass the filter.
FlaggedIds == Ids(Flagged(D))

\* The listings it goes without, and those it does not need.
Excused(d, l, warnings, flagged) ==
  \/ /\ l \in warnings
     /\ \/ l \in {"images", "locks", "attributes"}
        \/ d = "STOPPED_EC2_INSTANCE" /\ l \in {"volumes", "addresses"}
  \/ l \in {"images", "locks", "attributes"} /\ flagged = {}

\* The detector has every listing it is past, but for those it goes without.
HeardTrue ==
  turn <= 4 => \A l \in Listings \ {"stacks"} :
    Past(D, at, l) => Excused(D, l, warned, FlaggedIds) \/ Truthful(l, heard[l], FlaggedIds, seen)

\* A listing or an error as the memo and the calls hand it over.
Answered(l, items, error, flagged, warnings, h) ==
  /\ items \in Seq(Entry)
  /\ error \in {"denied", "unavailable", "failed", "unexpected", NoValue}
  /\ IF error = NoValue
     THEN Truthful(l, items, flagged, h) \/ (l = "attributes" /\ l \in warnings)
     ELSE items = <<>>

\* What the memo holds is what the account showed since the scan began.
MemoTrue ==
  /\ memo = [l \in Memoized |-> memo[l]]
  /\ \A l \in Memoized : memo[l] # NoValue =>
       /\ memo[l].error \in Errors \cup {"failed", NoValue}
       /\ Answered(l, memo[l].items, memo[l].error, {}, {}, seen)

\* The index holds what stacks held, and if it is available all that they hold.
IndexTrue ==
  /\ index.ids \subseteq OwnedBy(seen)
  /\ index.available =>
       \A s \in Stack : seen[s] \subseteq {"live"} => Members[s] \subseteq index.ids

\* The requests that are left of a call and what it has so far, by what is asked for.
PagesTrue(l, rest, items, h) ==
  /\ rest \in Seq(Nat) /\ rest # <<>> /\ Len(rest) <= LastPage(l)
  /\ \A k \in DOMAIN rest : rest[k] = LastPage(l) - Len(rest) + k
  /\ ShownTo(l, items, LastPage(l) - Len(rest), h)

\* The requests that are left.
Elements(rest) == {rest[k] : k \in DOMAIN rest}

\* First the stacks are listed, then each is asked about.
StacksTrue(rest, items, h) ==
  \/ rest = << 1 >> /\ items = <<>>
  \/ /\ rest \in Seq(Stack) /\ rest # <<>>
     /\ \A k \in DOMAIN rest : "live" \in h[rest[k]]
     /\ Owners(items, Elements(rest), h)

AttributesTrue(rest, items, flagged, warnings) ==
  /\ rest \in Seq(flagged) /\ rest # <<>>
  /\ items \in Seq(Entry)
  /\ "attributes" \in warnings \/ Shares(items, Elements(rest), flagged)

\* The call under way has what its requests so far have shown.
CallTrue ==
  call # NoValue =>
    /\ Working /\ at <= Len(Calls(D)) /\ ~(Asked = "attributes" /\ FlaggedIds = {})
    /\ call = [rest |-> call.rest, attempt |-> call.attempt, combined |-> call.combined]
    /\ Asked \in Paged => PagesTrue(Asked, call.rest, call.combined, seen)
    /\ Asked \in {"images", "locks"} => call.rest = << 1 >> /\ call.combined = <<>>
    /\ Asked = "stacks" => StacksTrue(call.rest, call.combined, seen)
    /\ Asked = "attributes" => AttributesTrue(call.rest, call.combined, FlaggedIds, warned)

-------------------------------------------------------------------------------
\* Wasted, in the light of the history h.
WastedIn(d, h) ==
  CASE d = "UNATTACHED_EBS_VOLUME"   -> {v \in Volume : h[v] \subseteq {"available"}}
    [] d = "UNASSOCIATED_ELASTIC_IP" -> {a \in Address : h[a] \subseteq {"free"}}
    [] d = "STOPPED_EC2_INSTANCE"    -> {i \in Instance : h[i] \subseteq {"stopped"}}
    [] OTHER -> {s \in Snapshot : h[s] \subseteq {"completed"} /\ h[Source[s]] \subseteq {"gone"}}

\* What CandidatesWereTrue, OwnershipHonest and MissingIsWarned say of one candidate.
InCondition(c, h) ==
  /\ c.id \in Volume => "available" \in h[c.id]
  /\ c.id \in Address => "free" \in h[c.id]
  /\ c.id \in Instance => "stopped" \in h[c.id]
  /\ c.id \in Snapshot => "completed" \in h[c.id] /\ h[Source[c.id]] \cap {"unborn", "gone"} # {}

OwnerTrue(c, h) ==
  /\ c.evaluated =>
       \A s \in Stack : c.id \in Members[s] /\ h[s] \subseteq {"live"} => c.ownership = "CONFIRMED"
  /\ c.ownership = "CONFIRMED" => c.id \in OwnedBy(h)

DetailsTrue(c, h) ==
  c.warnings = {} =>
    /\ c.id \in Snapshot => c.details = Protection[c.id]
    /\ c.id \in Instance => \A r \in Devices[c.id] : h[r] \subseteq {"in-use"} => r \in c.details

\* What is known of a cell, also after the account has changed.
CellTrue(cell, h) ==
  /\ cell.status = "COMPLETE" =>
       /\ IsFiniteSet(DOMAIN cell.candidates)
       /\ WastedIn(cell.detector, h) \subseteq Ids(cell.candidates)
       /\ \A j, k \in DOMAIN cell.candidates : cell.candidates[j].id = cell.candidates[k].id => j = k
  /\ \A j \in DOMAIN cell.candidates :
       LET c == cell.candidates[j] IN InCondition(c, h) /\ OwnerTrue(c, h) /\ DetailsTrue(c, h)

\* Every cell is true.
CellsTrue == \A k \in DOMAIN cells : CellTrue(cells[k], seen)

\* The inductive invariant.
DetectionInv ==
  /\ AccountTyped /\ ThreadTyped /\ CellsTyped
  /\ HeardTrue /\ MemoTrue /\ IndexTrue /\ CallTrue /\ CellsTrue

-------------------------------------------------------------------------------
\* SetToSeq lists a finite set: each element, and each once.
LEMMA SetToSeqLists ==
  ASSUME NEW S, IsFiniteSet(S)
  PROVE  /\ SetToSeq(S) \in Seq(S)
         /\ \A j, k \in DOMAIN SetToSeq(S) : SetToSeq(S)[j] = SetToSeq(S)[k] => j = k
         /\ \A k \in DOMAIN SetToSeq(S) : SetToSeq(S)[k] \in S
         /\ \A x \in S : \E k \in DOMAIN SetToSeq(S) : SetToSeq(S)[k] = x
<1> DEFINE n == Cardinality(S)
           s == SetToSeq(S)
<1>1. n \in Nat /\ ExistsBijection(1 .. n, S)
  BY FS_CardinalityType
<1>2. PICK f \in [1 .. n -> S] : IsInjective(f)
  BY <1>1 DEF IsInjective, ExistsBijection, Bijection, Injection
<1>3. s \in [1 .. n -> S] /\ IsInjective(s)
  BY <1>2 DEF SetToSeq
<1> HIDE DEF s
<1>4. s \in Injection(1 .. n, S)
  BY <1>3 DEF Injection, IsInjective
<1>5. IsFiniteSet(1 .. n) /\ Cardinality(1 .. n) = n
  BY <1>1, FS_Interval
<1>6. s \in Surjection(1 .. n, S)
  BY <1>4, <1>5, FS_Injection
<1>7. s \in Seq(S) /\ DOMAIN s = 1 .. n
  BY <1>1, <1>3
<1>8. /\ s \in Seq(S)
      /\ \A j, k \in DOMAIN s : s[j] = s[k] => j = k
      /\ \A k \in DOMAIN s : s[k] \in S
      /\ \A x \in S : \E k \in DOMAIN s : s[k] = x
  <2>1. \A j, k \in DOMAIN s : s[j] = s[k] => j = k
    BY <1>3 DEF IsInjective
  <2>2. \A x \in S : \E k \in DOMAIN s : s[k] = x
    BY <1>6, <1>7 DEF Surjection
  <2> QED
    BY <1>3, <1>7, <2>1, <2>2
<1> QED
  BY <1>8 DEF s

\* A finite set of natural numbers that is not empty has a maximum.
LEMMA MaxExists ==
  ASSUME NEW S \in SUBSET Nat, IsFiniteSet(S), NEW e \in S
  PROVE  Max(S) \in S /\ \A x \in S : x <= Max(S)
<1> DEFINE n == Cardinality(S)
<1>1. n \in Nat /\ ExistsBijection(1 .. n, S)
  BY FS_CardinalityType
<1>2. PICK f \in [1 .. n -> S] : \A x \in S : \E k \in 1 .. n : f[k] = x
  BY <1>1 DEF ExistsBijection, Bijection, Surjection
<1>3. n > 0
  BY <1>1, <1>2
<1> DEFINE Unbounded == {k \in 1 .. n : \A x \in S : \E j \in 1 .. k : ~(f[j] <= x)}
<1>4. Unbounded = {}
  <2> SUFFICES ASSUME Unbounded # {} PROVE FALSE
    OBVIOUS
  <2>1. Unbounded \subseteq Nat
    BY <1>1
  <2> HIDE DEF Unbounded
  <2>2. PICK k \in Unbounded : \A j \in Unbounded : ~ <<j, k>> \in OpToRel(<, Nat)
    BY <2>1, WFMin, NatLessThanWellFounded, Zenon
  <2>3. \A j \in Unbounded : ~(j < k)
    BY <2>1, <2>2 DEF OpToRel
  <2>4. k \in 1 .. n /\ \A x \in S : \E j \in 1 .. k : ~(f[j] <= x)
    BY DEF Unbounded
  <2>5. k # 1
    <3> SUFFICES ASSUME k = 1 PROVE FALSE
      OBVIOUS
    <3>1. f[1] \in S /\ f[1] \in Nat
      BY <1>2, <2>4
    <3>2. PICK j \in 1 .. 1 : ~(f[j] <= f[1])
      BY <2>4, <3>1
    <3> QED
      BY <3>1, <3>2
  <2>6. k - 1 \in 1 .. n /\ k - 1 \notin Unbounded
    BY <2>3, <2>4, <2>5, <1>1
  <2>7. PICK x \in S : \A j \in 1 .. k - 1 : f[j] <= x
    BY <2>6 DEF Unbounded
  <2>8. x \in Nat /\ f[k] \in S /\ f[k] \in Nat
    BY <2>4, <1>2
  <2>9. PICK y \in S : x <= y /\ f[k] <= y
    <3>1. CASE x <= f[k]
      BY <2>8, <3>1
    <3>2. CASE f[k] <= x
      BY <2>8, <3>2
    <3> QED
      BY <2>8, <3>1, <3>2
  <2>10. \A j \in 1 .. k : f[j] <= y
    <3> TAKE j \in 1 .. k
    <3>1. f[j] \in Nat /\ y \in Nat
      <4>1. j \in 1 .. n
        BY <2>4, <1>1
      <4> QED
        BY <4>1, <1>2
    <3>2. CASE j = k
      BY <2>9, <3>2
    <3>3. CASE j \in 1 .. k - 1
      BY <2>7, <2>8, <2>9, <3>1, <3>3
    <3> QED
      BY <2>4, <3>2, <3>3, <1>1
  <2> QED
    BY <2>4, <2>10
<1>5. PICK x \in S : \A j \in 1 .. n : f[j] <= x
  BY <1>1, <1>3, <1>4
<1>6. \A y \in S : x >= y
  BY <1>2, <1>5
<1> QED
  BY <1>6 DEF Max

\* The values of a function on a finite set are finitely many.
LEMMA FiniteRange ==
  ASSUME NEW S, IsFiniteSet(S), NEW T, NEW f \in [S -> T]
  PROVE  IsFiniteSet({f[x] : x \in S})
<1>1. f \in Surjection(S, {f[x] : x \in S})
  BY DEF Surjection
<1> QED
  BY <1>1, FS_Surjection

\* The things of a listing are on its pages.
LEMMA LastPageIsLast ==
  ASSUME NEW l
  PROVE  /\ LastPage(l) \in Nat \ {0}
         /\ \A r \in Things(l) : PageOf[r] \in Nat \ {0} /\ PageOf[r] <= LastPage(l)
         /\ l \notin Paged => LastPage(l) = 1
<1> DEFINE pages == {PageOf[r] : r \in Things(l)}
<1>1. Things(l) \subseteq Thing
  BY DEF Things, Thing, Resource
<1>2. \A r \in Things(l) : PageOf[r] \in Nat \ {0}
  BY <1>1, DetectionAssumption
<1>3. IsFiniteSet(pages)
  <2> DEFINE page == [r \in Things(l) |-> PageOf[r]]
  <2>1. IsFiniteSet(Things(l))
    BY <1>1, DetectionAssumption, FS_Subset
  <2>2. page \in [Things(l) -> Nat]
    BY <1>2
  <2>3. {page[r] : r \in Things(l)} = pages
    OBVIOUS
  <2> HIDE DEF page
  <2>4. IsFiniteSet({page[r] : r \in Things(l)})
    BY <2>1, <2>2, FiniteRange, Zenon
  <2> QED
    BY <2>3, <2>4
<1>4. IsFiniteSet({1} \cup pages)
  BY <1>3, FS_Singleton, FS_Union
<1>5. LastPage(l) \in {1} \cup pages /\ \A x \in {1} \cup pages : x <= LastPage(l)
  <2> DEFINE all == {1} \cup pages
  <2>1. all \subseteq Nat /\ 1 \in all
    BY <1>2
  <2>2. LastPage(l) = Max(all)
    BY DEF LastPage
  <2> HIDE DEF all
  <2>3. Max(all) \in all /\ \A x \in all : x <= Max(all)
    BY <2>1, <1>4, MaxExists DEF all
  <2> QED
    BY <2>2, <2>3 DEF all
<1>6. l \notin Paged => pages = {}
  BY DEF Paged, Things
<1> QED
  BY <1>2, <1>5, <1>6

\* The entries of a set, as a listing.
LEMMA Listed ==
  ASSUME NEW S \in SUBSET Entry, IsFiniteSet(S)
  PROVE  /\ SetToSeq(S) \in Seq(Entry)
         /\ Ids(SetToSeq(S)) = {e.id : e \in S}
         /\ \A k \in DOMAIN SetToSeq(S) : SetToSeq(S)[k] \in S
<1> DEFINE s == SetToSeq(S)
<1>1. /\ s \in Seq(S)
      /\ \A k \in DOMAIN s : s[k] \in S
      /\ \A x \in S : \E k \in DOMAIN s : s[k] = x
  BY SetToSeqLists
<1> HIDE DEF s
<1>2. s \in Seq(Entry)
  BY <1>1
<1>3. Ids(s) = {e.id : e \in S}
  BY <1>1 DEF Ids
<1> QED
  BY <1>1, <1>2, <1>3 DEF s

\* Things mentioned one by one.
LEMMA Mentioned ==
  ASSUME NEW S \in SUBSET Thing, NEW mark \in {"named", "locked", "shared", "private", "unknown", "owned"}
  PROVE  /\ SetToSeq({Mention(x, mark) : x \in S}) \in Seq(Entry)
         /\ Ids(SetToSeq({Mention(x, mark) : x \in S})) = S
<1> DEFINE M == {Mention(x, mark) : x \in S}
<1>1. IsFiniteSet(M)
  <2> DEFINE f == [x \in S |-> Mention(x, mark)]
  <2>1. IsFiniteSet(S)
    BY DetectionAssumption, FS_Subset
  <2>2. f \in [S -> M]
    OBVIOUS
  <2> HIDE DEF M
  <2>3. IsFiniteSet({f[x] : x \in S})
    BY <2>1, <2>2, FiniteRange
  <2> QED
    BY <2>3 DEF M
<1>2. \A x \in S : Mention(x, mark) \in Entry /\ Mention(x, mark).id = x
  BY DEF Mention, Entry
<1>3. M \subseteq Entry /\ {e.id : e \in M} = S
  BY <1>2
<1> HIDE DEF M
<1>4. SetToSeq(M) \in Seq(Entry) /\ Ids(SetToSeq(M)) = S
  BY <1>1, <1>3, Listed
<1> QED
  BY <1>4 DEF M

\* One listing after another.
LEMMA Joined ==
  ASSUME NEW a \in Seq(Entry), NEW b \in Seq(Entry)
  PROVE  /\ a \o b \in Seq(Entry)
         /\ Ids(a \o b) = Ids(a) \cup Ids(b)
         /\ \A k \in DOMAIN (a \o b) :
              \/ k \in DOMAIN a /\ (a \o b)[k] = a[k]
              \/ k - Len(a) \in DOMAIN b /\ (a \o b)[k] = b[k - Len(a)]
<1> DEFINE s == a \o b
<1>1. s \in Seq(Entry) /\ Len(s) = Len(a) + Len(b)
  OBVIOUS
<1>2. \A k \in DOMAIN s :
        \/ k \in DOMAIN a /\ s[k] = a[k]
        \/ k - Len(a) \in DOMAIN b /\ s[k] = b[k - Len(a)]
  OBVIOUS
<1>3. \A k \in DOMAIN a : k \in DOMAIN s /\ s[k] = a[k]
  OBVIOUS
<1>4. \A k \in DOMAIN b : Len(a) + k \in DOMAIN s /\ s[Len(a) + k] = b[k]
  OBVIOUS
<1> HIDE DEF s
<1>5. Ids(s) = Ids(a) \cup Ids(b)
  BY <1>2, <1>3, <1>4 DEF Ids
<1> QED
  BY <1>1, <1>2, <1>5 DEF s

-------------------------------------------------------------------------------
\* One page of a listing shows what is on it, as it is.
LEMMA PageShown ==
  ASSUME AccountTyped, NEW d, NEW l \in Paged, NEW p \in Nat
  PROVE  LET c == Content(d, l, p)
         IN /\ c \in Seq(Entry)
            /\ \A k \in DOMAIN c : c[k].id \in Things(l) /\ PageOf[c[k].id] = p
                                   /\ Exists(state[c[k].id]) /\ c[k] = Item(c[k].id)
            /\ \A j, k \in DOMAIN c : c[j].id = c[k].id => j = k
            /\ \A r \in Things(l) : PageOf[r] = p /\ Exists(state[r]) => r \in Ids(c)
<1> DEFINE rs == {r \in Things(l) : PageOf[r] = p /\ Exists(state[r])}
           es == {Item(r) : r \in rs}
           f == [r \in rs |-> Item(r)]
           c == Content(d, l, p)
<1>1. Things(l) \subseteq Thing
  BY DEF Things, Thing, Resource
<1>2. IsFiniteSet(rs)
  BY <1>1, DetectionAssumption, FS_Subset
<1>3. f \in [rs -> es]
  OBVIOUS
<1>4. \A r \in rs : Item(r).id = r /\ Item(r) \in Entry
  <2> TAKE r \in rs
  <2>1. r \in Thing /\ state[r] \in State
    BY <1>1 DEF AccountTyped
  <2>2. r \in Instance => Devices[r] \subseteq Thing
    BY DetectionAssumption DEF Thing, Resource
  <2> QED
    BY <2>1, <2>2 DEF Item, Entry
<1>5. IsFiniteSet(es)
  <2>1. {f[r] : r \in rs} = es
    OBVIOUS
  <2> HIDE DEF es, f, rs
  <2>2. IsFiniteSet({f[r] : r \in rs})
    BY <1>2, <1>3, FiniteRange
  <2> QED
    BY <2>1, <2>2
<1>6. c = SetToSeq(es)
  BY DEF Content, Paged
<1>7. es \subseteq Entry /\ {e.id : e \in es} = rs
  BY <1>4
<1>8. \A e \in es : e.id \in rs /\ e = Item(e.id)
  BY <1>4
<1> HIDE DEF es, c
<1>9. /\ c \in Seq(Entry) /\ Ids(c) = rs
      /\ \A k \in DOMAIN c : c[k] \in es
  BY <1>5, <1>6, <1>7, Listed
<1>10. \A j, k \in DOMAIN c : c[j] = c[k] => j = k
  BY <1>5, <1>6, SetToSeqLists
<1>11. \A j, k \in DOMAIN c : c[j].id = c[k].id => j = k
  BY <1>8, <1>9, <1>10
<1>12. \A k \in DOMAIN c : /\ c[k].id \in Things(l) /\ PageOf[c[k].id] = p
                           /\ Exists(state[c[k].id]) /\ c[k] = Item(c[k].id)
  BY <1>8, <1>9
<1>13. \A r \in Things(l) : PageOf[r] = p /\ Exists(state[r]) => r \in Ids(c)
  BY <1>9
<1> QED
  BY <1>9, <1>11, <1>12, <1>13 DEF c

\* A listing that is read to a page and the next page are a listing read to it.
LEMMA PageAdded ==
  ASSUME AccountTyped, NEW d, NEW l \in Paged, NEW n \in Nat, NEW items, ShownTo(l, items, n, seen)
  PROVE  ShownTo(l, items \o Content(d, l, n + 1), n + 1, seen)
<1> DEFINE c == Content(d, l, n + 1)
           s == items \o c
<1>1. Things(l) \subseteq Thing /\ \A r \in Things(l) : PageOf[r] \in Nat
  BY DetectionAssumption DEF Things, Thing, Resource
<1>2. /\ c \in Seq(Entry)
      /\ \A k \in DOMAIN c : c[k].id \in Things(l) /\ PageOf[c[k].id] = n + 1
                             /\ Exists(state[c[k].id]) /\ c[k] = Item(c[k].id)
      /\ \A j, k \in DOMAIN c : c[j].id = c[k].id => j = k
      /\ \A r \in Things(l) : PageOf[r] = n + 1 /\ Exists(state[r]) => r \in Ids(c)
  <2>1. n + 1 \in Nat
    OBVIOUS
  <2> QED
    BY <2>1, PageShown, Zenon
<1> HIDE DEF c
<1>3. items \in Seq(Entry)
  BY DEF ShownTo
<1>4. /\ s \in Seq(Entry) /\ Ids(s) = Ids(items) \cup Ids(c)
      /\ \A k \in DOMAIN s :
           \/ k \in DOMAIN items /\ s[k] = items[k]
           \/ k - Len(items) \in DOMAIN c /\ s[k] = c[k - Len(items)]
      /\ DOMAIN s \subseteq Nat
  BY <1>2, <1>3, Joined
<1>5. Len(items) \in Nat
  BY <1>3
<1> HIDE DEF s
<1> DEFINE Good(e) ==
      /\ e.id \in Things(l) /\ PageOf[e.id] <= n + 1
      /\ e.state \in seen[e.id] /\ Exists(e.state)
      /\ e.id \in Instance => \A x \in Devices[e.id] : seen[x] \subseteq {"in-use"} => x \in e.holds
<1>6. \A k \in DOMAIN items : Good(items[k])
  BY <1>1 DEF ShownTo
<1>7. \A k \in DOMAIN c : Good(c[k])
  <2> TAKE k \in DOMAIN c
  <2> DEFINE r == c[k].id
  <2>1. c[k] = Item(r) /\ r \in Things(l) /\ r \in Thing /\ PageOf[r] = n + 1 /\ Exists(state[r])
    BY <1>1, <1>2
  <2>2. c[k].state = state[r] /\ state[r] \in seen[r]
    BY <2>1 DEF Item, AccountTyped
  <2>3. ASSUME r \in Instance, NEW x \in Devices[r], seen[x] \subseteq {"in-use"} PROVE x \in c[k].holds
    <3>1. x \in Thing
      BY <2>3, DetectionAssumption DEF Thing, Resource
    <3>2. state[x] = "in-use"
      BY <2>3, <3>1 DEF AccountTyped
    <3> QED
      BY <2>1, <2>3, <3>2 DEF Item
  <2> QED
    BY <2>1, <2>2, <2>3
<1> HIDE DEF Good
<1>8. \A k \in DOMAIN s : Good(s[k])
  BY <1>4, <1>6, <1>7
<1>9. ASSUME NEW j \in DOMAIN s, NEW k \in DOMAIN s, s[j].id = s[k].id PROVE j = k
  <2>1. \A i \in DOMAIN items : PageOf[items[i].id] <= n /\ PageOf[items[i].id] \in Nat
    BY <1>1 DEF ShownTo
  <2>2. \A i \in DOMAIN c : ~(PageOf[c[i].id] <= n)
    BY <1>2
  <2>3. CASE j \in DOMAIN items /\ s[j] = items[j] /\ k \in DOMAIN items /\ s[k] = items[k]
    BY <1>9, <2>3 DEF ShownTo
  <2>4. CASE /\ j - Len(items) \in DOMAIN c /\ s[j] = c[j - Len(items)]
             /\ k - Len(items) \in DOMAIN c /\ s[k] = c[k - Len(items)]
    <3>1. j - Len(items) = k - Len(items)
      BY <1>2, <1>9, <2>4
    <3>2. j \in Nat /\ k \in Nat
      BY <1>4
    <3> QED
      BY <1>5, <3>1, <3>2
  <2> QED
    BY <1>4, <1>9, <2>1, <2>2, <2>3, <2>4
<1>10. ASSUME NEW r \in Things(l), PageOf[r] <= n + 1, \A t \in seen[r] : Exists(t) PROVE r \in Ids(s)
  <2>1. CASE PageOf[r] <= n
    BY <1>4, <1>10, <2>1 DEF ShownTo
  <2>2. CASE PageOf[r] = n + 1
    BY <1>1, <1>2, <1>4, <1>10, <2>2 DEF AccountTyped
  <2> QED
    BY <1>1, <1>10, <2>1, <2>2
<1>11. ShownTo(l, s, n + 1, seen)
  BY <1>4, <1>8, <1>9, <1>10 DEF ShownTo, Good
<1> QED
  BY <1>11 DEF s, c

-------------------------------------------------------------------------------
\* The account changes, what has been seen of it does not.
Grows(h, g) == \A r \in Thing : h[r] \subseteq g[r]

\* A listing stays what it was taken for, whatever the account does next.
LEMMA ShownLater ==
  ASSUME NEW h, NEW g, Grows(h, g), NEW l \in Paged, NEW n, NEW items, ShownTo(l, items, n, h)
  PROVE  ShownTo(l, items, n, g)
<1>1. Things(l) \subseteq Thing
  BY DEF Things, Thing, Resource
<1>2. ASSUME NEW k \in DOMAIN items
      PROVE  /\ items[k].id \in Things(l) /\ PageOf[items[k].id] <= n
             /\ items[k].state \in g[items[k].id] /\ Exists(items[k].state)
             /\ items[k].id \in Instance =>
                  \A x \in Devices[items[k].id] : g[x] \subseteq {"in-use"} => x \in items[k].holds
  <2>1. items[k].id \in Things(l) /\ items[k].id \in Thing
    BY <1>1 DEF ShownTo
  <2>2. items[k].state \in g[items[k].id]
    BY <2>1 DEF ShownTo, Grows
  <2>3. ASSUME items[k].id \in Instance, NEW x \in Devices[items[k].id], g[x] \subseteq {"in-use"}
        PROVE  x \in items[k].holds
    <3>1. x \in Thing
      BY <2>3, DetectionAssumption DEF Thing, Resource
    <3>2. h[x] \subseteq {"in-use"}
      BY <2>3, <3>1 DEF Grows
    <3> QED
      BY <2>3, <3>2 DEF ShownTo
  <2> QED
    BY <2>1, <2>2, <2>3 DEF ShownTo
<1>3. ASSUME NEW r \in Things(l), PageOf[r] <= n, \A s \in g[r] : Exists(s) PROVE r \in Ids(items)
  BY <1>1, <1>3 DEF Grows, ShownTo
<1> QED
  BY <1>2, <1>3 DEF ShownTo

\* What some stack held it has held.
LEMMA OwnedLater ==
  ASSUME NEW h, NEW g, Grows(h, g)
  PROVE  OwnedBy(h) \subseteq OwnedBy(g)
BY DEF OwnedBy, Grows, Thing

\* The same of the resources of the stacks.
LEMMA OwnersLater ==
  ASSUME NEW h, NEW g, Grows(h, g), NEW items, NEW rest, Owners(items, rest, h)
  PROVE  Owners(items, rest, g)
<1>1. Ids(items) \subseteq OwnedBy(g)
  BY OwnedLater DEF Owners
<1>2. \A s \in Stack : g[s] \subseteq {"live"} => h[s] \subseteq {"live"}
  BY DEF Grows, Thing
<1> QED
  BY <1>1, <1>2 DEF Owners

\* The same of every kind of listing,
LEMMA TruthfulLater ==
  ASSUME NEW h, NEW g, Grows(h, g), NEW l, NEW items, NEW flagged, Truthful(l, items, flagged, h)
  PROVE  Truthful(l, items, flagged, g)
<1>1. l \in Paged => ShownTo(l, items, LastPage(l), g)
  BY ShownLater DEF Truthful
<1>2. l = "stacks" => Owners(items, {}, g)
  BY OwnersLater DEF Truthful
<1> QED
  BY <1>1, <1>2 DEF Truthful

\* of the pages of a call under way,
LEMMA PagesLater ==
  ASSUME NEW h, NEW g, Grows(h, g), NEW l \in Paged, NEW rest, NEW items, PagesTrue(l, rest, items, h)
  PROVE  PagesTrue(l, rest, items, g)
BY ShownLater DEF PagesTrue

\* of the stacks it has asked about,
LEMMA StacksLater ==
  ASSUME NEW h, NEW g, Grows(h, g), NEW rest, NEW items, StacksTrue(rest, items, h)
  PROVE  StacksTrue(rest, items, g)
<1>1. CASE rest = << 1 >> /\ items = <<>>
  BY <1>1 DEF StacksTrue
<1>2. CASE /\ rest \in Seq(Stack) /\ rest # <<>>
           /\ \A k \in DOMAIN rest : "live" \in h[rest[k]]
           /\ Owners(items, Elements(rest), h)
  <2>1. \A k \in DOMAIN rest : rest[k] \in Thing
    BY <1>2 DEF Thing
  <2>2. \A k \in DOMAIN rest : "live" \in g[rest[k]]
    BY <1>2, <2>1 DEF Grows
  <2>3. Owners(items, Elements(rest), g)
    BY <1>2, OwnersLater
  <2> QED
    BY <1>2, <2>2, <2>3 DEF StacksTrue
<1> QED
  BY <1>1, <1>2 DEF StacksTrue

\* and of a cell.
LEMMA CellLater ==
  ASSUME NEW h, NEW g, Grows(h, g), NEW cell \in CellRecord, CellTrue(cell, h)
  PROVE  CellTrue(cell, g)
<1>1. WastedIn(cell.detector, g) \subseteq WastedIn(cell.detector, h)
  <2>1. \A s \in Snapshot : Source[s] \in Thing
    BY DetectionAssumption DEF Thing, Resource
  <2> QED
    BY <2>1 DEF WastedIn, Grows, Thing, Resource
<1>2. PICK places \in SUBSET Nat : cell.candidates \in [places -> CandidateRecord]
  BY DEF CellRecord
<1>3. ASSUME NEW j \in DOMAIN cell.candidates
      PROVE  LET c == cell.candidates[j] IN InCondition(c, g) /\ OwnerTrue(c, g) /\ DetailsTrue(c, g)
  <2> DEFINE c == cell.candidates[j]
  <2>1. c.id \in Thing
    BY <1>2 DEF CandidateRecord
  <2>2. InCondition(c, h) /\ OwnerTrue(c, h) /\ DetailsTrue(c, h)
    BY DEF CellTrue
  <2> HIDE DEF c
  <2>3. InCondition(c, g)
    <3>1. c.id \in Snapshot => Source[c.id] \in Thing
      BY DetectionAssumption DEF Thing, Resource
    <3> QED
      BY <2>1, <2>2, <3>1 DEF InCondition, Grows
  <2>4. OwnerTrue(c, g)
    BY <2>2, OwnedLater DEF OwnerTrue, Grows, Thing
  <2>5. DetailsTrue(c, g)
    <3>1. c.id \in Instance => \A r \in Devices[c.id] : r \in Thing
      BY DetectionAssumption DEF Thing, Resource
    <3> QED
      BY <2>2, <3>1 DEF DetailsTrue, Grows
  <2> QED
    BY <2>3, <2>4, <2>5 DEF c
<1> QED
  BY <1>1, <1>3 DEF CellTrue

-------------------------------------------------------------------------------
\* A call begins with nothing read.
LEMMA NothingShown ==
  ASSUME NEW l \in Paged, NEW h
  PROVE  PagesTrue(l, [p \in 1 .. LastPage(l) |-> p], <<>>, h)
<1>1. LastPage(l) \in Nat \ {0}
  BY LastPageIsLast
<1> DEFINE rest == [p \in 1 .. LastPage(l) |-> p]
<1>2. rest \in Seq(Nat) /\ rest # <<>> /\ Len(rest) = LastPage(l) /\ DOMAIN rest = 1 .. LastPage(l)
  BY <1>1
<1>3. ShownTo(l, <<>>, 0, h)
  <2>1. Things(l) \subseteq Thing
    BY DEF Things, Thing, Resource
  <2>2. \A r \in Things(l) : ~(PageOf[r] <= 0)
    BY <2>1, DetectionAssumption
  <2> QED
    BY <2>2 DEF ShownTo
<1>4. PagesTrue(l, rest, <<>>, h)
  <2>1. LastPage(l) - Len(rest) = 0
    BY <1>1, <1>2
  <2>2. \A k \in DOMAIN rest : rest[k] = LastPage(l) - Len(rest) + k
    BY <1>1, <1>2, <2>1
  <2> HIDE DEF rest
  <2> QED
    BY <1>1, <1>2, <1>3, <2>1, <2>2 DEF PagesTrue
<1> QED
  BY <1>4

\* The answer for the next page ends the call or leaves the rest of the pages.
LEMMA PageRead ==
  ASSUME AccountTyped, NEW d, NEW l \in Paged, NEW rest, NEW items, NEW flagged,
         PagesTrue(l, rest, items, seen)
  PROVE  LET all == items \o Content(d, l, Head(rest))
         IN IF Tail(rest) = <<>> THEN Truthful(l, all, flagged, seen)
                                 ELSE PagesTrue(l, Tail(rest), all, seen)
<1> DEFINE n == LastPage(l) - Len(rest)
           all == items \o Content(d, l, Head(rest))
<1>1. /\ rest \in Seq(Nat) /\ rest # <<>> /\ Len(rest) <= LastPage(l)
      /\ \A k \in DOMAIN rest : rest[k] = n + k
      /\ ShownTo(l, items, n, seen)
      /\ LastPage(l) \in Nat
  BY LastPageIsLast DEF PagesTrue
<1>2. n \in Nat /\ Head(rest) = n + 1
  BY <1>1
<1>3. ShownTo(l, items \o Content(d, l, n + 1), n + 1, seen)
  BY <1>1, <1>2, PageAdded, Zenon
<1>4. ShownTo(l, all, n + 1, seen)
  BY <1>2, <1>3
<1> HIDE DEF all
<1>5. CASE Tail(rest) = <<>>
  <2>1. n + 1 = LastPage(l)
    <3>1. rest \in Seq(Nat) /\ rest # <<>> /\ LastPage(l) \in Nat
      BY <1>1
    <3>2. Len(rest) = 1
      <4>1. Len(Tail(rest)) = Len(rest) - 1 /\ Len(rest) \in Nat
        BY <3>1
      <4>2. Len(Tail(rest)) = 0
        <5>1. Len(<<>>) = 0
          OBVIOUS
        <5> QED
          BY <1>5, <5>1, Zenon
      <4> QED
        BY <4>1, <4>2
    <3> QED
      BY <3>1, <3>2
  <2>2. all \in Seq(Entry)
    BY <1>4 DEF ShownTo
  <2>3. ShownTo(l, all, LastPage(l), seen)
    BY <1>4, <2>1
  <2> QED
    BY <1>5, <2>2, <2>3 DEF Truthful, Paged, all
<1>6. CASE Tail(rest) # <<>>
  <2> DEFINE t == Tail(rest)
  <2>1. /\ t \in Seq(Nat) /\ Len(t) = Len(rest) - 1
        /\ \A k \in DOMAIN t : t[k] = rest[k + 1] /\ k + 1 \in DOMAIN rest /\ k \in Nat
    BY <1>1
  <2>2. LastPage(l) - Len(t) = n + 1 /\ Len(t) <= LastPage(l)
    BY <1>1, <2>1
  <2> HIDE DEF t
  <2>3. \A k \in DOMAIN t : t[k] = LastPage(l) - Len(t) + k
    BY <1>1, <1>2, <2>1, <2>2
  <2>4. PagesTrue(l, t, all, seen)
    BY <1>4, <1>6, <2>1, <2>2, <2>3 DEF PagesTrue, t
  <2> QED
    BY <1>6, <2>4 DEF all, t
<1> QED
  BY <1>5, <1>6

-------------------------------------------------------------------------------
\* A list is its first element and the others.
LEMMA HeadAndTail ==
  ASSUME NEW S, NEW rest \in Seq(S), rest # <<>>
  PROVE  /\ Head(rest) \in S /\ Tail(rest) \in Seq(S)
         /\ Elements(rest) = {Head(rest)} \cup Elements(Tail(rest))
<1>1. Head(rest) \in S /\ Head(rest) = rest[1] /\ 1 \in DOMAIN rest
  OBVIOUS
<1> DEFINE t == Tail(rest)
<1>2. t \in Seq(S) /\ \A k \in DOMAIN t : t[k] = rest[k + 1] /\ k + 1 \in DOMAIN rest
  OBVIOUS
<1>3. \A k \in DOMAIN rest : k = 1 \/ (k - 1 \in DOMAIN t /\ t[k - 1] = rest[k])
  OBVIOUS
<1> HIDE DEF t
<1>4. Elements(rest) = {Head(rest)} \cup Elements(t)
  BY <1>1, <1>2, <1>3 DEF Elements
<1> QED
  BY <1>1, <1>2, <1>4 DEF t

\* The listing of the stacks leads to a request for each.
LEMMA StacksRead ==
  ASSUME AccountTyped, NEW d, NEW flagged
  PROVE  LET all == <<>> \o Content(d, "stacks", 1)
         IN IF StackRequests = <<>> THEN Truthful("stacks", all, flagged, seen)
                                    ELSE StacksTrue(StackRequests, all, seen)
<1> DEFINE live == {s \in Stack : state[s] = "live"}
           all == <<>> \o Content(d, "stacks", 1)
<1>1. all = <<>> /\ all \in Seq(Entry)
  BY DetectionAssumption DEF Content
<1>2. \A s \in Stack : seen[s] \subseteq {"live"} => s \in live
  BY DEF AccountTyped, Thing
<1>3. \A s \in live : "live" \in seen[s]
  BY DEF AccountTyped, Thing
<1>4. IsFiniteSet(live)
  <2>1. live \subseteq Thing
    BY DEF Thing
  <2> QED
    BY <2>1, DetectionAssumption, FS_Subset
<1>5. StackRequests = SetToSeq(live)
  BY DEF StackRequests
<1> HIDE DEF live, all
<1>6. /\ StackRequests \in Seq(live)
      /\ \A k \in DOMAIN StackRequests : StackRequests[k] \in live
      /\ \A x \in live : \E k \in DOMAIN StackRequests : StackRequests[k] = x
  BY <1>4, <1>5, SetToSeqLists
<1>7. live \subseteq Elements(StackRequests)
  BY <1>6 DEF Elements
<1>8. Ids(all) = {}
  BY <1>1 DEF Ids
<1>9. Owners(all, Elements(StackRequests), seen)
  BY <1>1, <1>2, <1>7, <1>8 DEF Owners
<1>10. CASE StackRequests = <<>>
  <2>1. Elements(StackRequests) = {}
    BY <1>10 DEF Elements
  <2>2. Truthful("stacks", all, flagged, seen)
    BY <1>1, <1>9, <2>1 DEF Truthful, Paged
  <2> QED
    BY <1>10, <2>2 DEF all
<1>11. CASE StackRequests # <<>>
  <2>1. StackRequests \in Seq(Stack)
    BY <1>6 DEF live
  <2>2. StacksTrue(StackRequests, all, seen)
    BY <1>3, <1>6, <1>9, <1>11, <2>1 DEF StacksTrue
  <2> QED
    BY <1>11, <2>2 DEF all
<1> QED
  BY <1>10, <1>11

\* The resources of one stack.
LEMMA StackRead ==
  ASSUME AccountTyped, NEW d, NEW flagged, NEW rest \in Seq(Stack), rest # <<>>, NEW items,
         StacksTrue(rest, items, seen)
  PROVE  LET all == items \o Content(d, "stacks", Head(rest))
         IN IF Tail(rest) = <<>> THEN Truthful("stacks", all, flagged, seen)
                                 ELSE StacksTrue(Tail(rest), all, seen)
<1> DEFINE s == Head(rest)
           c == Content(d, "stacks", s)
           all == items \o c
<1>1. s \in Stack /\ Tail(rest) \in Seq(Stack) /\ Elements(rest) = {s} \cup Elements(Tail(rest))
  BY HeadAndTail
<1>2. /\ \A k \in DOMAIN rest : "live" \in seen[rest[k]]
      /\ Owners(items, Elements(rest), seen)
  <2>1. rest # << 1 >>
    BY DetectionAssumption
  <2> QED
    BY <2>1 DEF StacksTrue
<1>3. "live" \in seen[s]
  <2>1. s = rest[1] /\ 1 \in DOMAIN rest
    OBVIOUS
  <2> QED
    BY <1>2, <2>1
<1>4. Members[s] \subseteq Resource /\ Resource \subseteq Thing
  BY <1>1, DetectionAssumption DEF Thing
<1>5. c \in Seq(Entry) /\ Ids(c) = Members[s]
  <2>1. c = SetToSeq({Mention(r, "owned") : r \in Members[s]})
    BY <1>1 DEF Content
  <2>2. Members[s] \in SUBSET Thing
    BY <1>4
  <2> HIDE DEF c, s
  <2> QED
    BY <2>1, <2>2, Mentioned
<1> HIDE DEF s, c
<1>6. items \in Seq(Entry)
  BY <1>2 DEF Owners
<1>7. all \in Seq(Entry) /\ Ids(all) = Ids(items) \cup Members[s]
  BY <1>5, <1>6, Joined
<1> HIDE DEF all
<1>8. Members[s] \subseteq OwnedBy(seen)
  BY <1>1, <1>3, <1>4 DEF OwnedBy
<1>9. Owners(all, Elements(Tail(rest)), seen)
  BY <1>1, <1>2, <1>7, <1>8 DEF Owners
<1>10. CASE Tail(rest) = <<>>
  <2>1. Elements(Tail(rest)) = {}
    BY <1>10 DEF Elements
  <2>2. Truthful("stacks", all, flagged, seen)
    BY <1>7, <1>9, <2>1 DEF Truthful, Paged
  <2> QED
    BY <1>10, <2>2 DEF all, c, s
<1>11. CASE Tail(rest) # <<>>
  <2>1. \A k \in DOMAIN Tail(rest) : "live" \in seen[Tail(rest)[k]]
    <3>1. \A x \in Elements(rest) : "live" \in seen[x]
      BY <1>2 DEF Elements
    <3> QED
      BY <1>1, <3>1 DEF Elements
  <2>2. StacksTrue(Tail(rest), all, seen)
    BY <1>1, <1>9, <1>11, <2>1 DEF StacksTrue
  <2> QED
    BY <1>11, <2>2 DEF all, c, s
<1> QED
  BY <1>10, <1>11

\* Who has an image of a snapshot, or a lock on one that is flagged.
LEMMA ProtectionRead ==
  ASSUME NEW d, NEW l \in {"images", "locks"}, NEW request, Ids(Flagged(d)) \subseteq Snapshot
  PROVE  Truthful(l, <<>> \o Content(d, l, request), Ids(Flagged(d)), seen)
<1> DEFINE c == Content(d, l, request)
           imaged == {s \in Snapshot : "image" \in Protection[s]}
           locked == {s \in Ids(Flagged(d)) : "lock" \in Protection[s]}
<1>1. imaged \subseteq Thing /\ locked \subseteq Thing
  BY DEF Thing, Resource
<1>2. CASE l = "images"
  <2>1. c = SetToSeq({Mention(s, "named") : s \in imaged})
    BY <1>2 DEF Content
  <2> HIDE DEF c, imaged
  <2>2. c \in Seq(Entry) /\ Ids(c) = imaged
    BY <1>1, <2>1, Mentioned
  <2>3. <<>> \o c = c
    BY <2>2
  <2>4. Truthful(l, c, Ids(Flagged(d)), seen)
    BY <1>2, <2>2 DEF Truthful, imaged, Paged
  <2> QED
    BY <2>3, <2>4 DEF c
<1>3. CASE l = "locks"
  <2>1. c = SetToSeq({Mention(s, "locked") : s \in locked})
    BY <1>3 DEF Content
  <2> HIDE DEF c, locked
  <2>2. c \in Seq(Entry) /\ Ids(c) = locked
    BY <1>1, <2>1, Mentioned
  <2>3. <<>> \o c = c
    BY <2>2
  <2>4. Truthful(l, c, Ids(Flagged(d)), seen)
    BY <1>3, <2>2 DEF Truthful, locked, Paged
  <2> QED
    BY <2>3, <2>4 DEF c
<1> QED
  BY <1>2, <1>3

\* Who shares one flagged snapshot.
LEMMA AttributeRead ==
  ASSUME NEW d, NEW flagged \in SUBSET Snapshot, NEW rest, NEW items, NEW warnings,
         AttributesTrue(rest, items, flagged, warnings)
  PROVE  LET all == items \o Content(d, "attributes", Head(rest))
         IN IF Tail(rest) = <<>>
            THEN /\ all \in Seq(Entry)
                 /\ "attributes" \in warnings \/ Truthful("attributes", all, flagged, seen)
            ELSE AttributesTrue(Tail(rest), all, flagged, warnings)
<1> DEFINE s == Head(rest)
           e == Mention(s, IF "sharing" \in Protection[s] THEN "shared" ELSE "private")
           all == items \o <<e>>
<1>1. rest \in Seq(flagged) /\ rest # <<>> /\ items \in Seq(Entry)
  BY DEF AttributesTrue
<1>2. s \in flagged /\ Tail(rest) \in Seq(flagged) /\ Elements(rest) = {s} \cup Elements(Tail(rest))
  BY <1>1, HeadAndTail
<1>3. s \in Snapshot /\ s \in Thing
  BY <1>2 DEF Thing, Resource
<1>4. /\ e \in Entry /\ e.id = s
      /\ e.state = "shared" <=> "sharing" \in Protection[s]
  BY <1>3 DEF Mention, Entry
<1>5. Content(d, "attributes", s) = <<e>>
  BY DEF Content
<1> HIDE DEF s, e
<1>6. /\ all \in Seq(Entry)
      /\ \A k \in DOMAIN all : (k \in DOMAIN items /\ all[k] = items[k]) \/ all[k] = e
      /\ \A k \in DOMAIN items : k \in DOMAIN all /\ all[k] = items[k]
      /\ \E k \in DOMAIN all : all[k] = e
  <2>1. all \in Seq(Entry) /\ Len(all) = Len(items) + 1
    BY <1>1, <1>4
  <2>2. all[Len(items) + 1] = e /\ Len(items) + 1 \in DOMAIN all
    BY <1>1, <1>4
  <2>3. \A k \in DOMAIN items : k \in DOMAIN all /\ all[k] = items[k]
    BY <1>1, <1>4
  <2>4. \A k \in DOMAIN all : k \in DOMAIN items \/ k = Len(items) + 1
    BY <1>1, <2>1
  <2> QED
    BY <2>1, <2>2, <2>3, <2>4
<1> HIDE DEF all
<1>7. "attributes" \in warnings \/ Shares(all, Elements(Tail(rest)), flagged)
  <2> SUFFICES ASSUME "attributes" \notin warnings PROVE Shares(all, Elements(Tail(rest)), flagged)
    OBVIOUS
  <2>1. Shares(items, Elements(rest), flagged)
    BY DEF AttributesTrue
  <2>2. ASSUME NEW k \in DOMAIN all
        PROVE  all[k].id \in Snapshot /\ (all[k].state = "shared" => "sharing" \in Protection[all[k].id])
    BY <1>3, <1>4, <1>6, <2>1 DEF Shares
  <2>3. ASSUME NEW x \in flagged \ Elements(Tail(rest)), "sharing" \in Protection[x]
        PROVE  \E k \in DOMAIN all : all[k].id = x /\ all[k].state = "shared"
    <3>1. CASE x = s
      BY <1>4, <1>6, <2>3, <3>1
    <3>2. CASE x # s
      BY <1>2, <1>6, <2>1, <2>3, <3>2 DEF Shares
    <3> QED
      BY <3>1, <3>2
  <2> QED
    BY <1>6, <2>2, <2>3 DEF Shares
<1>8. CASE Tail(rest) = <<>>
  <2>1. Elements(Tail(rest)) = {}
    BY <1>8 DEF Elements
  <2>2. "attributes" \in warnings \/ Truthful("attributes", all, flagged, seen)
    BY <1>6, <1>7, <2>1 DEF Truthful, Paged
  <2> QED
    BY <1>5, <1>6, <1>8, <2>2 DEF all, s
<1>9. CASE Tail(rest) # <<>>
  <2>1. AttributesTrue(Tail(rest), all, flagged, warnings)
    BY <1>2, <1>6, <1>7, <1>9 DEF AttributesTrue
  <2> QED
    BY <1>5, <1>9, <2>1 DEF all, s
<1> QED
  BY <1>8, <1>9

-------------------------------------------------------------------------------
\* The detectors.
DetectorNames == {"UNATTACHED_EBS_VOLUME", "UNASSOCIATED_ELASTIC_IP",
          "STOPPED_EC2_INSTANCE", "SNAPSHOT_MISSING_SOURCE_VOLUME"}

\* The detector at work.
LEMMA DetectorAtWork ==
  ASSUME turn \in 1 .. 4
  PROVE  D \in DetectorNames /\ D = Detectors[turn]
BY DEF D, Detectors, DetectorNames

\* What a detector asks for, and what it has when it does.
LEMMA CallsInOrder ==
  ASSUME NEW d \in DetectorNames, NEW n \in Nat \ {0}
  PROVE  /\ Len(Calls(d)) \in Nat /\ Calls(d)[1] \in Paged /\ Len(Calls(d)) > 0
         /\ \A l : Past(d, n + 1, l) /\ n <= Len(Calls(d)) => Past(d, n, l) \/ l = Calls(d)[n]
         /\ n <= Len(Calls(d)) =>
              /\ Calls(d)[n] \in Listings
              /\ ~Past(d, n, Calls(d)[n])
              /\ Calls(d)[n] \in {"images", "locks", "attributes"} =>
                   d = "SNAPSHOT_MISSING_SOURCE_VOLUME"
              /\ \A l \in {"images", "locks", "attributes"} : Past(d, n, l) =>
                   Calls(d)[n] \in {"locks", "attributes", "stacks"}
              /\ Calls(d)[n] \in {"images", "locks", "attributes", "stacks"} => Past(d, n, Calls(d)[1])
              /\ /\ d = "SNAPSHOT_MISSING_SOURCE_VOLUME"
                 /\ Calls(d)[n] \in {"images", "locks", "attributes", "stacks"}
                 => Past(d, n, "snapshots") /\ Past(d, n, "volumes")
<1>1. \A l : Past(d, n + 1, l) /\ n <= Len(Calls(d)) => Past(d, n, l) \/ l = Calls(d)[n]
  BY DEF Past
<1>2. CASE d = "UNATTACHED_EBS_VOLUME"
  <2>1. Calls(d) = <<"volumes", "stacks">>
    BY <1>2 DEF Calls
  <2> QED
    BY <1>1, <1>2, <2>1 DEF Paged, Listings, Past
<1>3. CASE d = "UNASSOCIATED_ELASTIC_IP"
  <2>1. Calls(d) = <<"addresses", "stacks">>
    BY <1>3 DEF Calls
  <2> QED
    BY <1>1, <1>3, <2>1 DEF Paged, Listings, Past
<1>4. CASE d = "STOPPED_EC2_INSTANCE"
  <2>1. Calls(d) = <<"instances", "volumes", "addresses", "stacks">>
    BY <1>4 DEF Calls
  <2> QED
    BY <1>1, <1>4, <2>1 DEF Paged, Listings, Past
<1>5. CASE d = "SNAPSHOT_MISSING_SOURCE_VOLUME"
  <2>1. Calls(d) = <<"snapshots", "volumes", "images", "locks", "attributes", "stacks">>
    BY <1>5 DEF Calls
  <2>2. Len(Calls(d)) = 6 /\ Calls(d)[1] \in Paged
    BY <2>1 DEF Paged
  <2>3. ASSUME n <= 6
        PROVE  /\ Calls(d)[n] \in Listings
               /\ ~Past(d, n, Calls(d)[n])
    BY <2>1, <2>3 DEF Listings, Past
  <2>4. ASSUME n <= 6, NEW l \in {"images", "locks", "attributes"}, Past(d, n, l)
        PROVE  Calls(d)[n] \in {"locks", "attributes", "stacks"}
    BY <2>1, <2>4 DEF Past
  <2>5. ASSUME n <= 6, Calls(d)[n] \in {"images", "locks", "attributes", "stacks"}
        PROVE  Past(d, n, "snapshots") /\ Past(d, n, "volumes")
    <3>1. n >= 3
      BY <2>1, <2>5
    <3> QED
      BY <2>1, <3>1 DEF Past
  <2> QED
    BY <1>1, <1>5, <2>1, <2>2, <2>3, <2>4, <2>5
<1> QED
  BY <1>2, <1>3, <1>4, <1>5 DEF DetectorNames

\* Only the details of the flagged snapshots depend on which are flagged.
LEMMA TruthOfAny ==
  ASSUME NEW l, l \notin {"locks", "attributes"}, NEW items, NEW f, NEW g, NEW h, Truthful(l, items, f, h)
  PROVE  Truthful(l, items, g, h)
BY DEF Truthful

\* A detector that hears what it does not filter by flags the same.
LEMMA FlaggedKept ==
  ASSUME UNCHANGED turn, heard'[Calls(D)[1]] = heard[Calls(D)[1]],
         heard'["volumes"] = heard["volumes"]
  PROVE  FlaggedIds' = FlaggedIds /\ Flagged(D)' = Flagged(D)
<1>1. D' = D
  BY DEF D
<1>2. Flagged(D)' = Flagged(D)
  BY <1>1 DEF Flagged, Matches, D
<1> QED
  BY <1>2 DEF FlaggedIds

-------------------------------------------------------------------------------
\* The resolver loads what it is told, or nothing.
LEMMA IndexHeard ==
  ASSUME ThreadTyped, IndexTrue, seen' = seen,
         NEW items, NEW error, NEW flagged, NEW warnings,
         Answered("stacks", items, error, flagged, warnings, seen),
         IndexLoaded(items, error)
  PROVE  /\ IndexTrue'
         /\ index' \in [loaded : BOOLEAN, available : BOOLEAN, ids : SUBSET Resource]
<1>1. index' = [loaded |-> TRUE, available |-> error = NoValue, ids |-> Ids(items)]
  BY DEF IndexLoaded
<1>2. Ids(items) \subseteq OwnedBy(seen)
  BY DEF Answered, Truthful, Owners, Ids
<1>3. Ids(items) \subseteq Resource
  BY <1>2 DEF OwnedBy
<1>4. error = NoValue => \A s \in Stack : seen[s] \subseteq {"live"} => Members[s] \subseteq Ids(items)
  BY DEF Answered, Truthful, Owners
<1> QED
  BY <1>1, <1>2, <1>3, <1>4 DEF IndexTrue

\* A cell that failed says nothing.
LEMMA FailedCell ==
  ASSUME ThreadTyped, CellsTyped, CellsTrue, Working, seen' = seen,
         NEW error \in {"denied", "unavailable", "failed", "unexpected"}, CellFails(error)
  PROVE  CellsTyped' /\ CellsTrue' /\ turn' \in 1 .. 5 /\ at' = 1 /\ heard' = Nothing /\ warned' = {}
         /\ region' \in {"RUNNING", "SKIPPED"}
<1> DEFINE cell == [detector |-> D, status |-> CellStatus(error), candidates |-> <<>>]
<1>1. turn \in 1 .. 4 /\ region = "RUNNING"
  BY DEF ThreadTyped, Working, Detectors
<1>2. D = Detectors[turn] /\ D \in {Detectors[k] : k \in 1 .. 4}
  BY <1>1 DEF D
<1>3. CellStatus(error) \in {"MISSING_PERMISSION", "SKIPPED", "FAILED"}
  BY DEF CellStatus
<1>4. <<>> \in UNION {[places -> CandidateRecord] : places \in SUBSET Nat}
  <2>1. <<>> \in [{} -> CandidateRecord]
    OBVIOUS
  <2> QED
    BY <2>1
<1>5. cell \in CellRecord /\ cell.detector = Detectors[turn] /\ cell.candidates = <<>>
  BY <1>2, <1>3, <1>4 DEF CellRecord
<1>6. CellTrue(cell, seen)
  BY <1>3 DEF CellTrue
<1>7. cells' = Append(cells, cell) /\ turn' = turn + 1
  BY DEF CellFails, Turn
<1> HIDE DEF cell
<1>8. /\ cells' \in Seq(CellRecord) /\ Len(cells') = turn' - 1
      /\ \A k \in DOMAIN cells' : \/ k \in DOMAIN cells /\ cells'[k] = cells[k]
                                  \/ k = turn /\ cells'[k] = cell
  BY <1>1, <1>5, <1>7 DEF CellsTyped
<1>9. CellsTyped'
  BY <1>5, <1>8 DEF CellsTyped
<1>10. CellsTrue'
  BY <1>6, <1>8 DEF CellsTrue
<1> QED
  BY <1>1, <1>7, <1>9, <1>10 DEF CellFails, Turn

\* A detector that starts has heard nothing.
LEMMA NothingPast ==
  ASSUME NEW d, NEW l
  PROVE  ~Past(d, 1, l)
BY DEF Past

\* What a detector hears, or goes without, is the next it has.
LEMMA NextHeard ==
  ASSUME ThreadTyped, HeardTrue, Working, at <= Len(Calls(D)), seen' = seen,
         NEW items \in Seq(Entry),
         heard' = [heard EXCEPT ![Asked] = items], at' = at + 1, UNCHANGED <<turn, region>>,
         warned \subseteq warned', warned' \subseteq Listings,
         index' \in [loaded : BOOLEAN, available : BOOLEAN, ids : SUBSET Resource],
         \/ Asked = "stacks"
         \/ Excused(D, Asked, warned', FlaggedIds)
         \/ Truthful(Asked, items, FlaggedIds, seen)
  PROVE  ThreadTyped' /\ HeardTrue'
<1> DEFINE l == Asked
<1>1. turn \in 1 .. 4 /\ D \in DetectorNames /\ at \in Nat \ {0} /\ region = "RUNNING"
  BY DetectorAtWork DEF ThreadTyped, Working, Detectors
<1>2. l = Calls(D)[at] /\ l \in Listings
  BY <1>1, CallsInOrder DEF Asked
<1> HIDE DEF l
<1>3. D' = D
  BY DEF D
<1>4. ThreadTyped'
  <2>1. heard' \in [Listings -> Seq(Entry)]
    BY <1>2 DEF ThreadTyped, l
  <2>2. at' \in Nat \ {0} /\ at' <= Len(Calls(D)) + 1
    BY <1>1, CallsInOrder
  <2> QED
    BY <1>1, <1>3, <2>1, <2>2 DEF ThreadTyped
<1>5. \A m \in Listings : heard'[m] = IF m = l THEN items ELSE heard[m]
  BY DEF ThreadTyped, l
<1>6. l \in {"images", "locks", "attributes", "stacks"} => FlaggedIds' = FlaggedIds
  <2>1. Calls(D)[1] \in Paged
    BY <1>1, CallsInOrder
  <2> QED
    BY <1>5, <2>1, FlaggedKept DEF Paged, Listings
<1>7. ASSUME NEW m \in Listings \ {"stacks"}, Past(D, at, m)
      PROVE  Excused(D, m, warned', FlaggedIds') \/ Truthful(m, heard'[m], FlaggedIds', seen)
  <2>1. heard'[m] = heard[m]
    BY <1>1, <1>2, <1>5, <1>7, CallsInOrder
  <2>2. Excused(D, m, warned, FlaggedIds) \/ Truthful(m, heard'[m], FlaggedIds, seen)
    BY <1>1, <1>7, <2>1 DEF HeardTrue
  <2>3. CASE m \in {"images", "locks", "attributes"}
    <3>1. FlaggedIds' = FlaggedIds
      BY <1>1, <1>2, <1>6, <1>7, <2>3, CallsInOrder
    <3> QED
      BY <2>2, <3>1 DEF Excused
  <2>4. CASE m \notin {"images", "locks", "attributes"}
    BY <2>2, <2>4, TruthOfAny DEF Excused
  <2> QED
    BY <2>3, <2>4
<1>8. l # "stacks" => Excused(D, l, warned', FlaggedIds') \/ Truthful(l, heard'[l], FlaggedIds', seen)
  <2>1. heard'[l] = items
    BY <1>2, <1>5
  <2>2. CASE l \in {"images", "locks", "attributes"}
    BY <1>6, <2>1, <2>2 DEF l
  <2>3. CASE l \notin {"images", "locks", "attributes", "stacks"}
    <3>1. Excused(D, l, warned', FlaggedIds) \/ Truthful(l, items, FlaggedIds, seen)
      BY <2>3 DEF l
    <3> QED
      BY <2>1, <2>3, <3>1, TruthOfAny DEF Excused
  <2> QED
    BY <2>2, <2>3
<1>9. HeardTrue'
  <2>1. ASSUME NEW m \in Listings \ {"stacks"}, Past(D, at + 1, m)
        PROVE  Excused(D, m, warned', FlaggedIds') \/ Truthful(m, heard'[m], FlaggedIds', seen)
    <3>1. Past(D, at, m) \/ m = l
      BY <1>1, <1>2, <2>1, CallsInOrder
    <3> QED
      BY <1>7, <1>8, <2>1, <3>1
  <2> QED
    BY <1>3, <2>1 DEF HeardTrue
<1> QED
  BY <1>4, <1>9

\* A listing or an error that reaches the detector leaves all that is known in order.
LEMMA Hears ==
  ASSUME AccountTyped, ThreadTyped, CellsTyped, HeardTrue, IndexTrue, CellsTrue,
         Working, at <= Len(Calls(D)), seen' = seen,
         NEW items, NEW error, Answered(Asked, items, error, FlaggedIds, warned, seen),
         Hear(Asked, items, error)
  PROVE  ThreadTyped' /\ CellsTyped' /\ HeardTrue' /\ IndexTrue' /\ CellsTrue'
<1> DEFINE heardItems == IF error = NoValue THEN items ELSE <<>>
<1>1. turn \in 1 .. 4 /\ D \in DetectorNames /\ at \in Nat \ {0} /\ region = "RUNNING"
  BY DetectorAtWork DEF ThreadTyped, Working, Detectors
<1>2. Asked \in Listings
  BY <1>1, CallsInOrder DEF Asked
<1>3. items \in Seq(Entry) /\ error \in {"denied", "unavailable", "failed", "unexpected", NoValue}
  BY DEF Answered
<1>4. IndexTrue' /\ index' \in [loaded : BOOLEAN, available : BOOLEAN, ids : SUBSET Resource]
  <2>1. CASE Asked = "stacks"
    BY <2>1, IndexHeard DEF Hear
  <2>2. CASE Asked # "stacks"
    BY <2>2 DEF Hear, IndexTrue, ThreadTyped
  <2> QED
    BY <2>1, <2>2
<1>5. CASE error = NoValue \/ Tolerates(D, Asked, error)
  <2>1. /\ heard' = [heard EXCEPT ![Asked] = heardItems]
        /\ warned' = IF error = NoValue THEN warned ELSE Warnings(Asked)
        /\ at' = at + 1 /\ UNCHANGED <<turn, cells, region>>
    BY <1>5 DEF Hear, result
  <2>2. CellsTyped' /\ CellsTrue'
    BY <2>1 DEF CellsTyped, CellsTrue
  <2>3. warned \subseteq warned' /\ warned' \subseteq Listings
    BY <1>2, <2>1 DEF ThreadTyped, Warnings
  <2>4. \/ Asked = "stacks"
        \/ Excused(D, Asked, warned', FlaggedIds)
        \/ Truthful(Asked, heardItems, FlaggedIds, seen)
    <3>1. CASE error = NoValue
      BY <2>1, <3>1 DEF Answered, Excused
    <3>2. CASE error # NoValue
      <4>1. Tolerates(D, Asked, error) /\ Asked \in warned'
        BY <1>5, <2>1, <3>2 DEF Warnings
      <4> QED
        BY <4>1 DEF Tolerates, Excused
    <3> QED
      BY <3>1, <3>2
  <2>5. heardItems \in Seq(Entry)
    BY <1>3
  <2> HIDE DEF heardItems
  <2>6. ThreadTyped' /\ HeardTrue'
    BY <1>4, <2>1, <2>3, <2>4, <2>5, NextHeard
  <2> QED
    BY <1>4, <2>2, <2>6
<1>6. CASE ~(error = NoValue \/ Tolerates(D, Asked, error))
  <2>1. CellFails(error) /\ error \in {"denied", "unavailable", "failed", "unexpected"}
    BY <1>3, <1>6 DEF Hear
  <2>2. CellsTyped' /\ CellsTrue' /\ turn' \in 1 .. 5 /\ at' = 1 /\ heard' = Nothing /\ warned' = {}
        /\ region' \in {"RUNNING", "SKIPPED"}
    BY <2>1, FailedCell
  <2>3. ThreadTyped'
    <3>1. heard' \in [Listings -> Seq(Entry)]
      BY <2>2 DEF Nothing
    <3>2. turn' <= 4 => 1 <= Len(Calls(D')) + 1
      <4>1. turn' <= 4 => D' \in DetectorNames
        BY <2>2 DEF D, Detectors, DetectorNames
      <4> QED
        BY <4>1, CallsInOrder
    <3> QED
      BY <1>4, <2>2, <3>1, <3>2 DEF ThreadTyped
  <2>4. HeardTrue'
    BY <2>2, NothingPast DEF HeardTrue
  <2> QED
    BY <1>4, <2>2, <2>3, <2>4
<1> QED
  BY <1>5, <1>6

-------------------------------------------------------------------------------
\* What is known beside the call under way.
Known == AccountTyped /\ ThreadTyped /\ CellsTyped /\ HeardTrue /\ MemoTrue /\ IndexTrue /\ CellsTrue

\* What is flagged is listed.
LEMMA FlaggedListed ==
  ASSUME NEW d
  PROVE  /\ DOMAIN Flagged(d) = {k \in DOMAIN heard[Calls(d)[1]] : Matches(d, heard[Calls(d)[1]][k])}
         /\ \A k \in DOMAIN Flagged(d) : Flagged(d)[k] = heard[Calls(d)[1]][k]
         /\ Ids(Flagged(d)) \subseteq Ids(heard[Calls(d)[1]])
<1>1. /\ DOMAIN Flagged(d) = {k \in DOMAIN heard[Calls(d)[1]] : Matches(d, heard[Calls(d)[1]][k])}
      /\ \A k \in DOMAIN Flagged(d) : Flagged(d)[k] = heard[Calls(d)[1]][k]
  BY DEF Flagged
<1> QED
  BY <1>1 DEF Ids

\* A detector has its listing when it asks for more.
LEMMA FirstHeard ==
  ASSUME ThreadTyped, HeardTrue, turn \in 1 .. 4, at > 1
  PROVE  /\ Calls(D)[1] \in Paged
         /\ ShownTo(Calls(D)[1], heard[Calls(D)[1]], LastPage(Calls(D)[1]), seen)
<1> DEFINE l == Calls(D)[1]
<1>1. D \in DetectorNames /\ l \in Paged /\ Len(Calls(D)) \in Nat /\ Len(Calls(D)) > 0
  BY DetectorAtWork, CallsInOrder
<1>2. Past(D, at, l)
  BY <1>1 DEF Past, ThreadTyped
<1>3. l \in Listings \ {"stacks"} /\ l \notin {"images", "locks", "attributes"}
  BY <1>1 DEF Paged, Listings
<1>4. ~(D = "STOPPED_EC2_INSTANCE" /\ l \in {"volumes", "addresses"})
  BY DEF Calls
<1> HIDE DEF l
<1>5. Truthful(l, heard[l], FlaggedIds, seen)
  BY <1>2, <1>3, <1>4 DEF HeardTrue, Excused
<1> QED
  BY <1>1, <1>5 DEF Truthful, l

\* Only snapshots are flagged when their details are asked for.
LEMMA SnapshotsFlagged ==
  ASSUME ThreadTyped, HeardTrue, turn \in 1 .. 4, at <= Len(Calls(D)),
         Asked \in {"images", "locks", "attributes"}
  PROVE  FlaggedIds \subseteq Snapshot
<1>1. D \in DetectorNames /\ at \in Nat \ {0}
  BY DetectorAtWork DEF ThreadTyped
<1>2. D = "SNAPSHOT_MISSING_SOURCE_VOLUME" /\ Past(D, at, "snapshots")
  BY <1>1, CallsInOrder DEF Asked
<1>3. at > 1
  BY <1>1, <1>2 DEF Past
<1>4. Calls(D)[1] = "snapshots"
  BY <1>2 DEF Calls
<1>5. \A k \in DOMAIN heard["snapshots"] : heard["snapshots"][k].id \in Snapshot
  <2>1. ShownTo("snapshots", heard["snapshots"], LastPage("snapshots"), seen)
    BY <1>3, <1>4, FirstHeard
  <2> QED
    BY <2>1 DEF ShownTo, Things
<1>6. Ids(heard["snapshots"]) \subseteq Snapshot
  BY <1>5 DEF Ids
<1> QED
  BY <1>4, <1>6, FlaggedListed DEF FlaggedIds

\* The account changes and nothing that is known becomes false.
LEMMA ChangeKeeps ==
  ASSUME DetectionInv, NEW r \in Thing, Change(r)
  PROVE  DetectionInv'
<1>1. /\ UNCHANGED <<turn, at, heard, warned, call, memo, index, cells, region, errors>>
      /\ \E s \in State : state' = [state EXCEPT ![r] = s] /\ seen' = [seen EXCEPT ![r] = @ \cup {s}]
  <2>1. PICK s \in {m[2] : m \in {m \in Moves(r) : m[1] = state[r]}} :
          state' = [state EXCEPT ![r] = s] /\ seen' = [seen EXCEPT ![r] = @ \cup {s}]
    BY DEF Change
  <2>2. \A m \in Moves(r) : m[2] \in State
    BY DEF Moves, State
  <2>3. s \in State
    BY <2>2
  <2> QED
    BY <2>1, <2>3 DEF Change
<1>2. AccountTyped' /\ Grows(seen, seen')
  BY <1>1 DEF DetectionInv, AccountTyped, Grows
<1>3. D' = D /\ Asked' = Asked /\ FlaggedIds' = FlaggedIds /\ Working' = Working
  BY <1>1, FlaggedKept DEF D, Asked, Working
<1>4. ThreadTyped' /\ CellsTyped'
  BY <1>1, <1>3 DEF DetectionInv, ThreadTyped, CellsTyped
<1>5. HeardTrue'
  BY <1>1, <1>2, <1>3, TruthfulLater DEF DetectionInv, HeardTrue
<1>6. MemoTrue'
  BY <1>1, <1>2, TruthfulLater DEF DetectionInv, MemoTrue, Answered
<1>7. IndexTrue'
  <2>1. index.ids \subseteq OwnedBy(seen')
    BY <1>2, OwnedLater DEF DetectionInv, IndexTrue
  <2>2. \A x \in Stack : seen'[x] \subseteq {"live"} => seen[x] \subseteq {"live"}
    BY <1>2 DEF Grows, Thing
  <2> QED
    BY <1>1, <2>1, <2>2 DEF DetectionInv, IndexTrue
<1>8. CallTrue'
  BY <1>1, <1>2, <1>3, PagesLater, StacksLater DEF DetectionInv, CallTrue
<1>9. CellsTrue'
  <2>1. \A k \in DOMAIN cells : cells[k] \in CellRecord
    BY DEF DetectionInv, CellsTyped
  <2> QED
    BY <1>1, <1>2, <2>1, CellLater DEF DetectionInv, CellsTrue
<1> QED
  BY <1>2, <1>4, <1>5, <1>6, <1>7, <1>8, <1>9 DEF DetectionInv

\* A detector without candidates passes over their details.
LEMMA SkipKeeps ==
  ASSUME DetectionInv, Skip
  PROVE  DetectionInv'
<1>1. /\ turn \in 1 .. 4 /\ D \in DetectorNames /\ at \in Nat \ {0} /\ at <= Len(Calls(D)) /\ Skipped
      /\ call = NoValue /\ at' = at + 1
      /\ UNCHANGED <<state, seen, changes, turn, cells, region, heard, warned, call, memo, index, errors>>
  BY DetectorAtWork DEF DetectionInv, ThreadTyped, Skip, Working, Detectors, account, result
<1>2. D' = D /\ FlaggedIds' = FlaggedIds
  BY <1>1, FlaggedKept DEF D
<1>3. ThreadTyped'
  <2>1. at' \in Nat \ {0} /\ at' <= Len(Calls(D)) + 1
    BY <1>1, CallsInOrder
  <2> QED
    BY <1>1, <1>2, <2>1 DEF DetectionInv, ThreadTyped
<1>4. HeardTrue'
  <2>1. ASSUME NEW m \in Listings \ {"stacks"}, Past(D, at + 1, m)
        PROVE  Excused(D, m, warned, FlaggedIds) \/ Truthful(m, heard[m], FlaggedIds, seen)
    <3>1. CASE Past(D, at, m)
      BY <1>1, <3>1 DEF DetectionInv, HeardTrue
    <3>2. CASE m = Asked
      <4>1. m \in {"images", "locks", "attributes"} /\ DOMAIN Flagged(D) = {}
        BY <1>1, <3>2 DEF Skipped
      <4>2. FlaggedIds = {}
        BY <4>1 DEF FlaggedIds, Ids
      <4> QED
        BY <4>1, <4>2 DEF Excused
    <3> QED
      BY <1>1, <2>1, <3>1, <3>2, CallsInOrder DEF Asked
  <2> QED
    BY <1>1, <1>2, <2>1 DEF HeardTrue
<1> QED
  BY <1>1, <1>3, <1>4 DEF DetectionInv, AccountTyped, CellsTyped, MemoTrue, IndexTrue, CallTrue, CellsTrue

-------------------------------------------------------------------------------
\* A call that ends is remembered and heard.
LEMMA Returns ==
  ASSUME Known, Working, at <= Len(Calls(D)), UNCHANGED account,
         NEW items, NEW error \in Errors \cup {"failed", NoValue},
         Answered(Asked, items, error, FlaggedIds, warned, seen),
         Return(items, error)
  PROVE  DetectionInv'
<1>1. call' = NoValue /\ Hear(Asked, items, error) /\ UNCHANGED <<state, seen, changes>>
  BY DEF Return, account
<1>2. AccountTyped'
  BY <1>1 DEF Known, AccountTyped
<1>3. ThreadTyped' /\ CellsTyped' /\ HeardTrue' /\ IndexTrue' /\ CellsTrue'
  BY <1>1, Hears DEF Known
<1>4. MemoTrue'
  <2>1. CASE Asked \in Memoized /\ error # "unexpected"
    <3>1. memo' = [memo EXCEPT ![Asked] = [items |-> items, error |-> error]]
      BY <2>1 DEF Return
    <3>2. Asked \notin {"locks", "attributes"}
      BY <2>1 DEF Memoized
    <3>3. Answered(Asked, items, error, {}, {}, seen)
      <4>1. error = NoValue => Truthful(Asked, items, FlaggedIds, seen)
        BY <3>2 DEF Answered
      <4>2. error = NoValue => Truthful(Asked, items, {}, seen)
        BY <3>2, <4>1, TruthOfAny
      <4> QED
        BY <4>2 DEF Answered
    <3>4. memo' = [l \in Memoized |-> IF l = Asked THEN [items |-> items, error |-> error] ELSE memo[l]]
      BY <3>1 DEF Known, MemoTrue
    <3>5. \A l \in Memoized : memo'[l] = IF l = Asked THEN [items |-> items, error |-> error] ELSE memo[l]
      BY <3>4
    <3>6. memo' = [l \in Memoized |-> memo'[l]]
      BY <3>4
    <3> QED
      BY <1>1, <3>3, <3>5, <3>6 DEF Known, MemoTrue
  <2>2. CASE ~(Asked \in Memoized /\ error # "unexpected")
    <3>1. memo' = memo
      BY <2>2 DEF Return
    <3> QED
      BY <1>1, <3>1 DEF Known, MemoTrue
  <2> QED
    BY <2>1, <2>2
<1>5. CallTrue'
  BY <1>1 DEF CallTrue
<1> QED
  BY <1>2, <1>3, <1>4, <1>5 DEF DetectionInv

\* The requests a call begins with leave everything to be read.
LEMMA CallBegins ==
  ASSUME Known, Working, at <= Len(Calls(D)), ~(Asked = "attributes" /\ FlaggedIds = {})
  PROVE  LET rest == Requests(D, Asked)
         IN /\ Asked \in Paged => PagesTrue(Asked, rest, <<>>, seen)
            /\ Asked \in {"images", "locks"} => rest = << 1 >>
            /\ Asked = "stacks" => StacksTrue(rest, <<>>, seen)
            /\ Asked = "attributes" => AttributesTrue(rest, <<>>, FlaggedIds, warned)
<1> DEFINE rest == Requests(D, Asked)
<1>1. Asked # "attributes" => rest = [p \in 1 .. LastPage(Asked) |-> p]
  BY DEF Requests
<1>2. Asked \in Paged => Asked # "attributes" /\ PagesTrue(Asked, rest, <<>>, seen)
  BY <1>1, NothingShown DEF Paged
<1>3. Asked \in {"images", "locks", "stacks"} => rest = << 1 >>
  <2>1. Asked \in {"images", "locks", "stacks"} => LastPage(Asked) = 1
    BY LastPageIsLast DEF Paged
  <2>2. [p \in 1 .. 1 |-> p] = << 1 >>
    OBVIOUS
  <2> QED
    BY <1>1, <2>1, <2>2
<1>4. ASSUME Asked = "attributes" PROVE AttributesTrue(rest, <<>>, FlaggedIds, warned)
  <2>1. rest = SetToSeq(FlaggedIds)
    BY <1>4 DEF Requests, FlaggedIds
  <2>2. FlaggedIds \subseteq Snapshot
    BY <1>4, SnapshotsFlagged DEF Known, ThreadTyped, Working, Detectors
  <2>3. IsFiniteSet(FlaggedIds)
    <3>1. FlaggedIds \subseteq Thing
      BY <2>2 DEF Thing, Resource
    <3> QED
      BY <3>1, DetectionAssumption, FS_Subset
  <2>4. rest \in Seq(FlaggedIds) /\ \A x \in FlaggedIds : \E k \in DOMAIN rest : rest[k] = x
    BY <2>1, <2>3, SetToSeqLists
  <2> HIDE DEF rest
  <2>5. rest # <<>> /\ FlaggedIds \subseteq Elements(rest)
    BY <1>4, <2>4 DEF Elements
  <2>6. Shares(<<>>, Elements(rest), FlaggedIds)
    BY <2>5 DEF Shares
  <2> QED
    BY <2>4, <2>5, <2>6 DEF AttributesTrue
<1> QED
  BY <1>2, <1>3, <1>4 DEF StacksTrue

\* What makes a call that is under way true.
LEMMA CallGoes ==
  ASSUME Working, at <= Len(Calls(D)), ~(Asked = "attributes" /\ FlaggedIds = {}),
         UNCHANGED <<turn, at, heard, region, seen>>,
         NEW rest, NEW items, NEW attempt,
         call' = [rest |-> rest, attempt |-> attempt, combined |-> items],
         Asked \in Paged => PagesTrue(Asked, rest, items, seen),
         Asked \in {"images", "locks"} => rest = << 1 >> /\ items = <<>>,
         Asked = "stacks" => StacksTrue(rest, items, seen),
         Asked = "attributes" => AttributesTrue(rest, items, FlaggedIds, warned')
  PROVE  CallTrue'
<1>1. D' = D /\ Asked' = Asked /\ FlaggedIds' = FlaggedIds /\ Working'
  BY FlaggedKept DEF D, Asked, Working
<1>2. call'.rest = rest /\ call'.combined = items /\ call'.attempt = attempt
  OBVIOUS
<1> QED
  BY <1>1, <1>2 DEF CallTrue

-------------------------------------------------------------------------------
\* The listing is in the memo or a call for it begins.
LEMMA AskKeeps ==
  ASSUME DetectionInv, Ask
  PROVE  DetectionInv'
<1>1. /\ Working /\ call = NoValue /\ at <= Len(Calls(D)) /\ ~Skipped
      /\ UNCHANGED <<account, memo, errors>> /\ UNCHANGED <<state, seen, changes>>
  BY DEF Ask, account
<1>2. ~(Asked = "attributes" /\ FlaggedIds = {})
  <2>1. DOMAIN Flagged(D) # {} => FlaggedIds # {}
    BY DEF FlaggedIds, Ids
  <2> QED
    BY <1>1, <2>1 DEF Skipped
<1>3. CASE Asked \in Memoized /\ memo[Asked] # NoValue
  <2>1. Hear(Asked, memo[Asked].items, memo[Asked].error) /\ UNCHANGED call
    BY <1>3 DEF Ask
  <2>2. Answered(Asked, memo[Asked].items, memo[Asked].error, {}, {}, seen)
    BY <1>3 DEF DetectionInv, MemoTrue
  <2>3. Answered(Asked, memo[Asked].items, memo[Asked].error, FlaggedIds, warned, seen)
    BY <1>3, <2>2, TruthOfAny DEF Answered, Memoized
  <2>4. ThreadTyped' /\ CellsTyped' /\ HeardTrue' /\ IndexTrue' /\ CellsTrue'
    BY <1>1, <2>1, <2>3, Hears DEF DetectionInv
  <2> QED
    BY <1>1, <2>1, <2>4 DEF DetectionInv, AccountTyped, MemoTrue, CallTrue
<1>4. CASE ~(Asked \in Memoized /\ memo[Asked] # NoValue)
  <2>1. /\ call' = [rest |-> Requests(D, Asked), attempt |-> 1, combined |-> <<>>]
        /\ UNCHANGED <<turn, cells, region, at, heard, warned, index>>
    BY <1>4 DEF Ask, result
  <2>2. CallTrue'
    <3> DEFINE rest == Requests(D, Asked)
    <3>1. /\ Asked \in Paged => PagesTrue(Asked, rest, <<>>, seen)
          /\ Asked \in {"images", "locks"} => rest = << 1 >>
          /\ Asked = "stacks" => StacksTrue(rest, <<>>, seen)
          /\ Asked = "attributes" => AttributesTrue(rest, <<>>, FlaggedIds, warned')
      BY <1>1, <1>2, <2>1, CallBegins DEF DetectionInv, Known
    <3> HIDE DEF rest
    <3>2. call' = [rest |-> rest, attempt |-> 1, combined |-> <<>>]
      BY <2>1 DEF rest
    <3> QED
      BY <1>1, <1>2, <2>1, <3>1, <3>2, CallGoes
  <2>3. ThreadTyped' /\ HeardTrue'
    <3>1. D' = D /\ FlaggedIds' = FlaggedIds
      BY <2>1, FlaggedKept DEF D
    <3> QED
      BY <1>1, <2>1, <3>1 DEF DetectionInv, ThreadTyped, HeardTrue
  <2> QED
    BY <1>1, <2>1, <2>2, <2>3 DEF DetectionInv, AccountTyped, CellsTyped, MemoTrue, IndexTrue, CellsTrue
<1> QED
  BY <1>3, <1>4

\* A throttled call repeats its request or begins again.
LEMMA ThrottledKeeps ==
  ASSUME DetectionInv, Throttled
  PROVE  DetectionInv'
<1>1. /\ Working /\ call # NoValue
      /\ UNCHANGED <<state, seen, changes, turn, cells, region, at, heard, warned, memo, index, errors>>
      /\ call' = IF Things(Asked) = {} THEN [call EXCEPT !.attempt = @ + 1]
                 ELSE [rest |-> Requests(D, Asked), attempt |-> call.attempt + 1, combined |-> <<>>]
  BY DEF Throttled, account, result
<1>2. /\ at <= Len(Calls(D)) /\ ~(Asked = "attributes" /\ FlaggedIds = {})
      /\ call = [rest |-> call.rest, attempt |-> call.attempt, combined |-> call.combined]
      /\ Asked \in Paged => PagesTrue(Asked, call.rest, call.combined, seen)
      /\ Asked \in {"images", "locks"} => call.rest = << 1 >> /\ call.combined = <<>>
      /\ Asked = "stacks" => StacksTrue(call.rest, call.combined, seen)
      /\ Asked = "attributes" => AttributesTrue(call.rest, call.combined, FlaggedIds, warned)
  BY <1>1 DEF DetectionInv, CallTrue
<1>3. CallTrue'
  <2>1. CASE Things(Asked) = {}
    <3>1. call' = [rest |-> call.rest, attempt |-> call.attempt + 1, combined |-> call.combined]
      BY <1>1, <1>2, <2>1
    <3> QED
      BY <1>1, <1>2, <3>1, CallGoes
  <2>2. CASE Things(Asked) # {}
    <3> DEFINE rest == Requests(D, Asked)
    <3>1. /\ Asked \in Paged => PagesTrue(Asked, rest, <<>>, seen)
          /\ Asked \in {"images", "locks"} => rest = << 1 >>
          /\ Asked = "stacks" => StacksTrue(rest, <<>>, seen)
          /\ Asked = "attributes" => AttributesTrue(rest, <<>>, FlaggedIds, warned')
      BY <1>1, <1>2, CallBegins DEF DetectionInv, Known
    <3> HIDE DEF rest
    <3>2. call' = [rest |-> rest, attempt |-> call.attempt + 1, combined |-> <<>>]
      BY <1>1, <2>2 DEF rest
    <3> QED
      BY <1>1, <1>2, <3>1, <3>2, CallGoes
  <2> QED
    BY <2>1, <2>2
<1>4. ThreadTyped' /\ HeardTrue'
  <2>1. D' = D /\ FlaggedIds' = FlaggedIds
    BY <1>1, FlaggedKept DEF D
  <2> QED
    BY <1>1, <2>1 DEF DetectionInv, ThreadTyped, HeardTrue
<1> QED
  BY <1>1, <1>3, <1>4 DEF DetectionInv, AccountTyped, CellsTyped, MemoTrue, IndexTrue, CellsTrue

\* What AWS answers to a request leaves the call true or ends it with a listing.
LEMMA AnswerRead ==
  ASSUME Known, CallTrue, Working, call # NoValue
  PROVE  LET all == call.combined \o Content(D, Asked, Request)
             rest == IF Asked = "stacks" /\ Request \notin Stack THEN StackRequests ELSE Tail(call.rest)
         IN IF rest = <<>>
            THEN Answered(Asked, all, NoValue, FlaggedIds, warned, seen)
            ELSE /\ Asked \notin {"images", "locks"}
                 /\ Asked \in Paged => PagesTrue(Asked, rest, all, seen)
                 /\ Asked = "stacks" => StacksTrue(rest, all, seen)
                 /\ Asked = "attributes" => AttributesTrue(rest, all, FlaggedIds, warned)
<1> DEFINE all == call.combined \o Content(D, Asked, Request)
           rest == IF Asked = "stacks" /\ Request \notin Stack THEN StackRequests ELSE Tail(call.rest)
           Goal == IF rest = <<>>
                   THEN Answered(Asked, all, NoValue, FlaggedIds, warned, seen)
                   ELSE /\ Asked \notin {"images", "locks"}
                        /\ Asked \in Paged => PagesTrue(Asked, rest, all, seen)
                        /\ Asked = "stacks" => StacksTrue(rest, all, seen)
                        /\ Asked = "attributes" => AttributesTrue(rest, all, FlaggedIds, warned)
<1>1. /\ turn \in 1 .. 4 /\ D \in DetectorNames /\ at \in Nat \ {0} /\ at <= Len(Calls(D))
      /\ Asked \in Paged => PagesTrue(Asked, call.rest, call.combined, seen)
      /\ Asked \in {"images", "locks"} => call.rest = << 1 >> /\ call.combined = <<>>
      /\ Asked = "stacks" => StacksTrue(call.rest, call.combined, seen)
      /\ Asked = "attributes" => AttributesTrue(call.rest, call.combined, FlaggedIds, warned)
  BY DetectorAtWork DEF CallTrue, Known, ThreadTyped, Working, Detectors
<1>2. Asked \in Listings
  BY <1>1, CallsInOrder DEF Asked
<1>3. Request = Head(call.rest)
  BY DEF Request
<1>4. \A x : Truthful(Asked, x, FlaggedIds, seen) => Answered(Asked, x, NoValue, FlaggedIds, warned, seen)
  BY DEF Truthful, Answered
<1>5. CASE Asked \in Paged
  <2>1. Asked \notin {"stacks", "images", "locks", "attributes"} /\ rest = Tail(call.rest)
    BY <1>5 DEF Paged
  <2>2. IF Tail(call.rest) = <<>> THEN Truthful(Asked, all, FlaggedIds, seen)
                                  ELSE PagesTrue(Asked, Tail(call.rest), all, seen)
    BY <1>1, <1>3, <1>5, PageRead DEF Known
  <2> HIDE DEF all, rest
  <2>3. Goal
    BY <1>4, <1>5, <2>1, <2>2
  <2> QED
    BY <2>3 DEF all, rest
<1>6. CASE Asked \in {"images", "locks"}
  <2>1. rest = <<>> /\ all = <<>> \o Content(D, Asked, 1)
    <3>1. Head(<< 1 >>) = 1 /\ Tail(<< 1 >>) = <<>>
      OBVIOUS
    <3>2. call.rest = << 1 >> /\ call.combined = <<>> /\ Asked # "stacks"
      BY <1>1, <1>6
    <3> QED
      BY <1>3, <3>1, <3>2
  <2>2. FlaggedIds \subseteq Snapshot
    BY <1>1, <1>6, SnapshotsFlagged DEF Known
  <2>3. Truthful(Asked, <<>> \o Content(D, Asked, 1), FlaggedIds, seen)
    BY <1>6, <2>2, ProtectionRead DEF FlaggedIds
  <2> HIDE DEF all, rest
  <2>4. Goal
    BY <1>4, <2>1, <2>3
  <2> QED
    BY <2>4 DEF all, rest
<1>7. CASE Asked = "stacks"
  <2>1. CASE call.rest = << 1 >> /\ call.combined = <<>>
    <3>1. rest = StackRequests /\ all = <<>> \o Content(D, "stacks", 1)
      BY <1>3, <1>7, <2>1, DetectionAssumption
    <3>2. IF StackRequests = <<>> THEN Truthful("stacks", <<>> \o Content(D, "stacks", 1), FlaggedIds, seen)
                                  ELSE StacksTrue(StackRequests, <<>> \o Content(D, "stacks", 1), seen)
      BY StacksRead DEF Known
    <3> HIDE DEF all, rest
    <3>3. Goal
      BY <1>4, <1>7, <3>1, <3>2 DEF Paged
    <3> QED
      BY <3>3 DEF all, rest
  <2>2. CASE call.rest \in Seq(Stack) /\ call.rest # <<>>
    <3>1. Request \in Stack
      BY <1>3, <2>2
    <3>2. rest = Tail(call.rest) /\ all = call.combined \o Content(D, "stacks", Head(call.rest))
      BY <1>3, <1>7, <3>1
    <3>3. IF Tail(call.rest) = <<>>
          THEN Truthful("stacks", call.combined \o Content(D, "stacks", Head(call.rest)), FlaggedIds, seen)
          ELSE StacksTrue(Tail(call.rest), call.combined \o Content(D, "stacks", Head(call.rest)), seen)
      BY <1>1, <1>7, <2>2, StackRead DEF Known
    <3> HIDE DEF all, rest
    <3>4. Goal
      BY <1>4, <1>7, <3>2, <3>3 DEF Paged
    <3> QED
      BY <3>4 DEF all, rest
  <2> QED
    BY <1>1, <1>7, <2>1, <2>2 DEF StacksTrue
<1>8. CASE Asked = "attributes"
  <2>1. rest = Tail(call.rest) /\ all = call.combined \o Content(D, "attributes", Head(call.rest))
    BY <1>3, <1>8
  <2>2. FlaggedIds \subseteq Snapshot
    BY <1>1, <1>8, SnapshotsFlagged DEF Known
  <2>3. IF Tail(call.rest) = <<>>
        THEN /\ all \in Seq(Entry)
             /\ "attributes" \in warned \/ Truthful("attributes", all, FlaggedIds, seen)
        ELSE AttributesTrue(Tail(call.rest), all, FlaggedIds, warned)
    BY <1>1, <1>8, <2>1, <2>2, AttributeRead
  <2> HIDE DEF all, rest
  <2>4. Goal
    BY <1>8, <2>1, <2>3 DEF Answered, Paged
  <2> QED
    BY <2>4 DEF all, rest
<1> QED
  BY <1>2, <1>5, <1>6, <1>7, <1>8 DEF Listings, Paged

\* A request is answered.
LEMMA ReplyKeeps ==
  ASSUME DetectionInv, Reply
  PROVE  DetectionInv'
<1> DEFINE all == call.combined \o Content(D, Asked, Request)
           rest == IF Asked = "stacks" /\ Request \notin Stack THEN StackRequests ELSE Tail(call.rest)
<1>1. /\ Working /\ call # NoValue /\ UNCHANGED account
      /\ IF rest = <<>> THEN Return(all, NoValue) ELSE Collect(all, rest)
      /\ Known /\ CallTrue
  BY DEF Reply, DetectionInv, Known
<1>2. /\ at <= Len(Calls(D)) /\ ~(Asked = "attributes" /\ FlaggedIds = {})
      /\ call = [rest |-> call.rest, attempt |-> call.attempt, combined |-> call.combined]
  BY <1>1 DEF CallTrue
<1>3. IF rest = <<>>
      THEN Answered(Asked, all, NoValue, FlaggedIds, warned, seen)
      ELSE /\ Asked \notin {"images", "locks"}
           /\ Asked \in Paged => PagesTrue(Asked, rest, all, seen)
           /\ Asked = "stacks" => StacksTrue(rest, all, seen)
           /\ Asked = "attributes" => AttributesTrue(rest, all, FlaggedIds, warned)
  BY <1>1, AnswerRead
<1> HIDE DEF all, rest
<1>4. CASE rest = <<>>
  BY <1>1, <1>2, <1>3, <1>4, Returns
<1>5. CASE rest # <<>>
  <2>1. /\ UNCHANGED <<state, seen, changes, turn, cells, region, at, heard, warned, memo, index>>
        /\ call' = [call EXCEPT !.combined = all, !.rest = rest,
                                !.attempt = IF Things(Asked) = {} THEN 1 ELSE @]
    BY <1>1, <1>5 DEF Collect, account, result
  <2>2. call' = [rest |-> rest, attempt |-> IF Things(Asked) = {} THEN 1 ELSE call.attempt,
                 combined |-> all]
    BY <1>2, <2>1
  <2>3. CallTrue'
    BY <1>1, <1>2, <1>3, <1>5, <2>1, <2>2, CallGoes
  <2>4. ThreadTyped' /\ HeardTrue'
    <3>1. D' = D /\ FlaggedIds' = FlaggedIds
      BY <2>1, FlaggedKept DEF D
    <3> QED
      BY <1>1, <2>1, <3>1 DEF Known, ThreadTyped, HeardTrue
  <2> QED
    BY <1>1, <2>1, <2>3, <2>4 DEF DetectionInv, Known, AccountTyped, CellsTyped, MemoTrue, IndexTrue, CellsTrue
<1> QED
  BY <1>4, <1>5

-------------------------------------------------------------------------------
\* A snapshot whose attributes stay unknown.
LEMMA AttributeUnknown ==
  ASSUME NEW flagged \in SUBSET Snapshot, NEW rest, NEW items, NEW warnings,
         AttributesTrue(rest, items, flagged, warnings)
  PROVE  LET all == Append(items, Mention(Head(rest), "unknown"))
         IN /\ all \in Seq(Entry)
            /\ Tail(rest) # <<>> => AttributesTrue(Tail(rest), all, flagged, warnings \cup {"attributes"})
<1>1. rest \in Seq(flagged) /\ rest # <<>> /\ items \in Seq(Entry)
  BY DEF AttributesTrue
<1>2. Head(rest) \in flagged /\ Tail(rest) \in Seq(flagged)
  BY <1>1, HeadAndTail
<1>3. Mention(Head(rest), "unknown") \in Entry
  BY <1>2 DEF Mention, Entry, Thing, Resource
<1>4. Append(items, Mention(Head(rest), "unknown")) \in Seq(Entry)
  BY <1>1, <1>3
<1> QED
  BY <1>2, <1>4 DEF AttributesTrue

\* A request fails.
LEMMA FailKeeps ==
  ASSUME DetectionInv, NEW error \in Errors \cup {"failed"}, Fail(error)
  PROVE  DetectionInv'
<1>1. /\ Working /\ call # NoValue /\ UNCHANGED account /\ UNCHANGED <<state, seen, changes>>
      /\ Known /\ CallTrue
  BY DEF Fail, DetectionInv, Known, account
<1>2. /\ at <= Len(Calls(D)) /\ ~(Asked = "attributes" /\ FlaggedIds = {})
      /\ call = [rest |-> call.rest, attempt |-> call.attempt, combined |-> call.combined]
  BY <1>1 DEF CallTrue
<1>3. CASE Asked = "attributes" /\ error # "unexpected"
  <2> DEFINE all == Append(call.combined, Mention(Request, "unknown"))
  <2>1. /\ warned' = warned \cup {"attributes"} /\ UNCHANGED <<turn, cells, region, memo, index>>
        /\ IF Tail(call.rest) = <<>>
           THEN /\ call' = NoValue
                /\ heard' = [heard EXCEPT !["attributes"] = all]
                /\ at' = at + 1
           ELSE /\ call' = [call EXCEPT !.combined = all, !.rest = Tail(@), !.attempt = 1]
                /\ UNCHANGED <<heard, at>>
    BY <1>3 DEF Fail, Warnings, result
  <2>2. AttributesTrue(call.rest, call.combined, FlaggedIds, warned)
    BY <1>1, <1>3 DEF CallTrue
  <2>3. FlaggedIds \subseteq Snapshot /\ turn \in 1 .. 4
    BY <1>1, <1>2, <1>3, SnapshotsFlagged DEF Known, ThreadTyped, Working, Detectors
  <2>4. /\ all \in Seq(Entry)
        /\ Tail(call.rest) # <<>> => AttributesTrue(Tail(call.rest), all, FlaggedIds, warned')
    BY <2>1, <2>2, <2>3, AttributeUnknown DEF Request
  <2> HIDE DEF all
  <2>5. warned \subseteq warned' /\ warned' \subseteq Listings
    BY <1>1, <2>1 DEF Known, ThreadTyped, Listings
  <2>6. AccountTyped' /\ CellsTyped' /\ MemoTrue' /\ IndexTrue' /\ CellsTrue'
    BY <1>1, <2>1 DEF Known, AccountTyped, CellsTyped, MemoTrue, IndexTrue, CellsTrue
  <2>7. index' \in [loaded : BOOLEAN, available : BOOLEAN, ids : SUBSET Resource]
    BY <1>1, <2>1 DEF Known, ThreadTyped
  <2>8. CASE Tail(call.rest) = <<>>
    <3>1. Excused(D, Asked, warned', FlaggedIds)
      BY <1>3, <2>1 DEF Excused
    <3>2. ThreadTyped' /\ HeardTrue'
      BY <1>1, <1>2, <1>3, <2>1, <2>4, <2>5, <2>7, <2>8, <3>1, NextHeard DEF Known
    <3>3. CallTrue'
      BY <2>1, <2>8 DEF CallTrue
    <3> QED
      BY <2>6, <3>2, <3>3 DEF DetectionInv
  <2>9. CASE Tail(call.rest) # <<>>
    <3>1. call' = [rest |-> Tail(call.rest), attempt |-> 1, combined |-> all]
      BY <1>2, <2>1, <2>9
    <3>2. CallTrue'
      BY <1>1, <1>2, <1>3, <2>1, <2>4, <2>9, <3>1, CallGoes DEF Paged
    <3>3. D' = D /\ FlaggedIds' = FlaggedIds
      BY <2>1, <2>9, FlaggedKept DEF D
    <3>4. ThreadTyped'
      BY <1>1, <2>1, <2>5, <2>9, <3>3 DEF Known, ThreadTyped
    <3>5. HeardTrue'
      BY <1>1, <2>1, <2>5, <2>9, <3>3 DEF Known, HeardTrue, Excused
    <3> QED
      BY <2>6, <3>2, <3>4, <3>5 DEF DetectionInv
  <2> QED
    BY <2>8, <2>9
<1>4. CASE ~(Asked = "attributes" /\ error # "unexpected")
  <2>1. Return(<<>>, error)
    BY <1>4 DEF Fail
  <2>2. Answered(Asked, <<>>, error, FlaggedIds, warned, seen)
    <3>1. error \in {"denied", "unavailable", "failed", "unexpected"} /\ error # NoValue
      BY DetectionAssumption
    <3>2. <<>> \in Seq(Entry)
      OBVIOUS
    <3> QED
      BY <3>1, <3>2 DEF Answered
  <2> QED
    BY <1>1, <1>2, <2>1, <2>2, Returns
<1> QED
  BY <1>3, <1>4

\* Detection is over.
LEMMA FinishKeeps ==
  ASSUME DetectionInv, Finish
  PROVE  DetectionInv'
<1>1. UNCHANGED <<state, seen, changes, turn, at, heard, warned, call, memo, index, cells, errors>>
  BY DEF Finish, account
<1>2. turn = 5 /\ region' \in {"COMPLETE", "PARTIAL", "FAILED"}
  BY DEF Finish, DetectionInv, ThreadTyped, Detectors
<1>3. call = NoValue
  BY <1>2 DEF DetectionInv, CallTrue, Working, Detectors
<1>4. ThreadTyped' /\ HeardTrue'
  BY <1>1, <1>2 DEF DetectionInv, ThreadTyped, HeardTrue
<1>5. CallTrue'
  BY <1>1, <1>3 DEF CallTrue
<1> QED
  BY <1>1, <1>4, <1>5 DEF DetectionInv, AccountTyped, CellsTyped, MemoTrue, IndexTrue, CellsTrue

-------------------------------------------------------------------------------
\* A thing is of one kind.
LEMMA KindsApart ==
  /\ Volume \cap Address = {} /\ Volume \cap Instance = {} /\ Volume \cap Snapshot = {}
  /\ Address \cap Instance = {} /\ Address \cap Snapshot = {} /\ Instance \cap Snapshot = {}
<1>1. \A j, k \in 1 .. 5 : j # k => Kinds[j] \cap Kinds[k] = {}
  BY DetectionAssumption
<1>2. Kinds[1] = Volume /\ Kinds[2] = Address /\ Kinds[3] = Instance /\ Kinds[4] = Snapshot
  BY DEF Kinds
<1> QED
  BY <1>1, <1>2

\* The detector has made all its calls.
Done == Known /\ Working /\ at > Len(Calls(D))

\* What a detector has when it is done.
LEMMA AllHeard ==
  ASSUME Done
  PROVE  /\ turn \in 1 .. 4 /\ D \in DetectorNames
         /\ ShownTo(Calls(D)[1], heard[Calls(D)[1]], LastPage(Calls(D)[1]), seen)
         /\ D = "STOPPED_EC2_INSTANCE" => \A l \in {"volumes", "addresses"} :
              l \in warned \/ ShownTo(l, heard[l], LastPage(l), seen)
         /\ D = "SNAPSHOT_MISSING_SOURCE_VOLUME" =>
              /\ ShownTo("volumes", heard["volumes"], LastPage("volumes"), seen)
              /\ \A l \in {"images", "locks", "attributes"} :
                   FlaggedIds = {} \/ l \in warned \/ Truthful(l, heard[l], FlaggedIds, seen)
<1>1. /\ turn \in 1 .. 4 /\ D \in DetectorNames /\ at \in Nat /\ Len(Calls(D)) \in Nat /\ Len(Calls(D)) > 0
      /\ at > Len(Calls(D))
  BY DetectorAtWork, CallsInOrder DEF Done, Known, ThreadTyped, Working, Detectors
<1>2. ShownTo(Calls(D)[1], heard[Calls(D)[1]], LastPage(Calls(D)[1]), seen)
  BY <1>1, FirstHeard DEF Done, Known
<1>3. \A k \in 1 .. Len(Calls(D)) : Past(D, at, Calls(D)[k])
  BY <1>1 DEF Past
<1>4. \A l \in Listings \ {"stacks"} : Past(D, at, l) =>
        Excused(D, l, warned, FlaggedIds) \/ Truthful(l, heard[l], FlaggedIds, seen)
  BY <1>1 DEF Done, Known, HeardTrue
<1>5. ASSUME D = "STOPPED_EC2_INSTANCE", NEW l \in {"volumes", "addresses"}
      PROVE  l \in warned \/ ShownTo(l, heard[l], LastPage(l), seen)
  <2>1. Calls(D) = <<"instances", "volumes", "addresses", "stacks">>
    BY <1>5 DEF Calls
  <2>2. Past(D, at, l)
    BY <1>3, <2>1
  <2>3. Excused(D, l, warned, FlaggedIds) \/ Truthful(l, heard[l], FlaggedIds, seen)
    BY <1>4, <2>2 DEF Listings
  <2> QED
    BY <2>3 DEF Excused, Truthful, Paged
<1>6. ASSUME D = "SNAPSHOT_MISSING_SOURCE_VOLUME"
      PROVE  /\ ShownTo("volumes", heard["volumes"], LastPage("volumes"), seen)
             /\ \A l \in {"images", "locks", "attributes"} :
                  FlaggedIds = {} \/ l \in warned \/ Truthful(l, heard[l], FlaggedIds, seen)
  <2>1. Calls(D) = <<"snapshots", "volumes", "images", "locks", "attributes", "stacks">>
    BY <1>6 DEF Calls
  <2>2. \A l \in {"volumes", "images", "locks", "attributes"} : Past(D, at, l)
    BY <1>3, <2>1
  <2>3. \A l \in {"volumes", "images", "locks", "attributes"} :
          Excused(D, l, warned, FlaggedIds) \/ Truthful(l, heard[l], FlaggedIds, seen)
    BY <1>4, <2>2 DEF Listings
  <2>4. ShownTo("volumes", heard["volumes"], LastPage("volumes"), seen)
    BY <1>6, <2>3 DEF Excused, Truthful, Paged
  <2> QED
    BY <2>3, <2>4 DEF Excused
<1> QED
  BY <1>1, <1>2, <1>5, <1>6

\* What is flagged was in its state and passes the filter.
LEMMA FlaggedShown ==
  ASSUME Done, NEW k \in DOMAIN Flagged(D)
  PROVE  LET e == Flagged(D)[k]
         IN /\ k \in DOMAIN heard[Calls(D)[1]] /\ e = heard[Calls(D)[1]][k]
            /\ e \in Entry /\ e.id \in Things(Calls(D)[1]) /\ e.id \in FlaggedIds
            /\ e.state \in seen[e.id] /\ Matches(D, e)
            /\ e.id \in Instance => \A x \in Devices[e.id] : seen[x] \subseteq {"in-use"} => x \in e.holds
<1> DEFINE first == heard[Calls(D)[1]]
<1>1. ShownTo(Calls(D)[1], first, LastPage(Calls(D)[1]), seen)
  BY AllHeard
<1>2. k \in DOMAIN first /\ Flagged(D)[k] = first[k] /\ Matches(D, first[k])
  BY FlaggedListed
<1>3. first[k].id \in FlaggedIds
  BY <1>2 DEF FlaggedIds, Ids
<1> HIDE DEF first
<1>4. first[k] \in Entry
  BY <1>1, <1>2 DEF ShownTo
<1> QED
  BY <1>1, <1>2, <1>3, <1>4 DEF ShownTo, first

\* A candidate was in its condition.
LEMMA FlaggedInCondition ==
  ASSUME Done, NEW k \in DOMAIN Flagged(D)
  PROVE  InCondition(Candidate(Flagged(D)[k]), seen)
<1> DEFINE e == Flagged(D)[k]
<1>1. /\ e.id \in Things(Calls(D)[1]) /\ e.state \in seen[e.id] /\ Matches(D, e)
      /\ D \in DetectorNames
  BY FlaggedShown, AllHeard
<1>2. Candidate(e).id = e.id
  BY DEF Candidate
<1> HIDE DEF e
<1>3. CASE D = "UNATTACHED_EBS_VOLUME"
  <2>1. e.id \in Volume /\ "available" \in seen[e.id]
    BY <1>1, <1>3 DEF Calls, Things, Matches
  <2> QED
    BY <1>2, <2>1, KindsApart DEF InCondition, e
<1>4. CASE D = "UNASSOCIATED_ELASTIC_IP"
  <2>1. e.id \in Address /\ "free" \in seen[e.id]
    BY <1>1, <1>4 DEF Calls, Things, Matches
  <2> QED
    BY <1>2, <2>1, KindsApart DEF InCondition, e
<1>5. CASE D = "STOPPED_EC2_INSTANCE"
  <2>1. e.id \in Instance /\ "stopped" \in seen[e.id]
    BY <1>1, <1>5 DEF Calls, Things, Matches
  <2> QED
    BY <1>2, <2>1, KindsApart DEF InCondition, e
<1>6. CASE D = "SNAPSHOT_MISSING_SOURCE_VOLUME"
  <2>1. e.id \in Snapshot /\ "completed" \in seen[e.id] /\ Source[e.id] \notin Ids(heard["volumes"])
    BY <1>1, <1>6 DEF Calls, Things, Matches
  <2>2. Source[e.id] \in Volume
    BY <2>1, DetectionAssumption
  <2>3. ~ \A s \in seen[Source[e.id]] : Exists(s)
    <3>1. ShownTo("volumes", heard["volumes"], LastPage("volumes"), seen)
      BY <1>6, AllHeard
    <3>2. Source[e.id] \in Things("volumes") /\ PageOf[Source[e.id]] <= LastPage("volumes")
      BY <2>2, LastPageIsLast DEF Things
    <3> QED
      BY <2>1, <3>1, <3>2 DEF ShownTo
  <2>4. seen[Source[e.id]] \cap {"unborn", "gone"} # {}
    BY <2>3 DEF Exists
  <2> QED
    BY <1>2, <2>1, <2>4, KindsApart DEF InCondition, e
<1> QED
  BY <1>1, <1>3, <1>4, <1>5, <1>6 DEF DetectorNames

\* A candidate has the owner that the index says.
LEMMA FlaggedOwner ==
  ASSUME Done, NEW k \in DOMAIN Flagged(D)
  PROVE  OwnerTrue(Candidate(Flagged(D)[k]), seen)
BY DEF Done, Known, IndexTrue, OwnerTrue, Candidate

\* A candidate without a warning has its details.
LEMMA FlaggedDetails ==
  ASSUME Done, NEW k \in DOMAIN Flagged(D)
  PROVE  DetailsTrue(Candidate(Flagged(D)[k]), seen)
<1> DEFINE e == Flagged(D)[k]
           c == Candidate(e)
<1>1. /\ e.id \in Things(Calls(D)[1]) /\ e.id \in FlaggedIds /\ D \in DetectorNames
      /\ e.id \in Instance => \A x \in Devices[e.id] : seen[x] \subseteq {"in-use"} => x \in e.holds
  BY FlaggedShown, AllHeard
<1>2. c.id = e.id /\ c.details = Details(D, e) /\ c.warnings = warned \ {"stacks"}
  BY DEF Candidate
<1> HIDE DEF e, c
<1> SUFFICES ASSUME warned \subseteq {"stacks"}
             PROVE  /\ e.id \in Snapshot => Details(D, e) = Protection[e.id]
                    /\ e.id \in Instance =>
                         \A r \in Devices[e.id] : seen[r] \subseteq {"in-use"} => r \in Details(D, e)
  BY <1>2 DEF DetailsTrue, c, e
<1>3. CASE D \in {"UNATTACHED_EBS_VOLUME", "UNASSOCIATED_ELASTIC_IP"}
  <2>1. e.id \in Volume \cup Address
    BY <1>1, <1>3 DEF Calls, Things
  <2> QED
    BY <2>1, KindsApart
<1>4. CASE D = "STOPPED_EC2_INSTANCE"
  <2>1. e.id \in Instance /\ Details(D, e) = Attached(e)
    BY <1>1, <1>4 DEF Calls, Things, Details
  <2>2. ASSUME NEW r \in Devices[e.id], seen[r] \subseteq {"in-use"} PROVE r \in Attached(e)
    <3>1. r \in e.holds
      BY <1>1, <2>1, <2>2
    <3>2. \A s \in seen[r] : Exists(s)
      BY <2>2 DEF Exists
    <3>3. r \in Volume \/ r \in Address
      BY <2>1, <2>2, DetectionAssumption
    <3>4. \A l \in {"volumes", "addresses"} : ShownTo(l, heard[l], LastPage(l), seen)
      BY <1>4, AllHeard
    <3>5. CASE r \in Volume
      <4>1. r \in Things("volumes") /\ PageOf[r] <= LastPage("volumes")
        BY <3>5, LastPageIsLast DEF Things
      <4>2. r \in Ids(heard["volumes"])
        BY <3>2, <3>4, <4>1 DEF ShownTo
      <4> QED
        BY <3>1, <4>2 DEF Attached
    <3>6. CASE r \in Address
      <4>1. r \in Things("addresses") /\ PageOf[r] <= LastPage("addresses")
        BY <3>6, LastPageIsLast DEF Things
      <4>2. r \in Ids(heard["addresses"])
        BY <3>2, <3>4, <4>1 DEF ShownTo
      <4> QED
        BY <3>1, <4>2 DEF Attached
    <3> QED
      BY <3>3, <3>5, <3>6
  <2> QED
    BY <2>1, <2>2, KindsApart
<1>5. CASE D = "SNAPSHOT_MISSING_SOURCE_VOLUME"
  <2>1. e.id \in Snapshot /\ Details(D, e) = Protects(e)
    BY <1>1, <1>5 DEF Calls, Things, Details
  <2>2. /\ Truthful("images", heard["images"], FlaggedIds, seen)
        /\ Truthful("locks", heard["locks"], FlaggedIds, seen)
        /\ Truthful("attributes", heard["attributes"], FlaggedIds, seen)
    <3>1. FlaggedIds # {}
      BY <1>1
    <3> QED
      BY <1>5, <3>1, AllHeard
  <2>3. e.id \in Ids(heard["images"]) <=> "image" \in Protection[e.id]
    BY <2>1, <2>2 DEF Truthful
  <2>4. e.id \in Ids(heard["locks"]) <=> "lock" \in Protection[e.id]
    BY <1>1, <2>2 DEF Truthful
  <2>5. (\E j \in DOMAIN heard["attributes"] :
           heard["attributes"][j].id = e.id /\ heard["attributes"][j].state = "shared")
        <=> "sharing" \in Protection[e.id]
    BY <1>1, <2>2 DEF Truthful, Shares
  <2>6. Protection[e.id] \subseteq {"image", "sharing", "lock"}
    BY <2>1, DetectionAssumption
  <2>7. Protects(e) = Protection[e.id]
    <3>1. "image" \in Protects(e) <=> e.id \in Ids(heard["images"])
      BY DEF Protects
    <3>2. "lock" \in Protects(e) <=> e.id \in Ids(heard["locks"])
      BY DEF Protects
    <3>3. "sharing" \in Protects(e) <=>
            \E j \in DOMAIN heard["attributes"] :
              heard["attributes"][j].id = e.id /\ heard["attributes"][j].state = "shared"
      BY DEF Protects
    <3>4. Protects(e) \subseteq {"image", "sharing", "lock"}
      BY DEF Protects
    <3> QED
      BY <2>3, <2>4, <2>5, <2>6, <3>1, <3>2, <3>3, <3>4
  <2> QED
    BY <2>1, <2>7, KindsApart
<1> QED
  BY <1>1, <1>3, <1>4, <1>5 DEF DetectorNames

\* Everything that was in its condition all the while is flagged.
LEMMA WastedFlagged ==
  ASSUME Done
  PROVE  WastedIn(D, seen) \subseteq FlaggedIds
<1> DEFINE l == Calls(D)[1]
<1>1. ShownTo(l, heard[l], LastPage(l), seen) /\ D \in DetectorNames
  BY AllHeard
<1> HIDE DEF l
<1>2. ASSUME NEW r \in Things(l), \A s \in seen[r] : Exists(s)
      PROVE  \E k \in DOMAIN heard[l] : heard[l][k].id = r /\ heard[l][k].state \in seen[r]
  <2>1. r \in Ids(heard[l])
    BY <1>1, <1>2, LastPageIsLast DEF ShownTo
  <2>2. PICK k \in DOMAIN heard[l] : heard[l][k].id = r
    BY <2>1 DEF Ids
  <2> QED
    BY <1>1, <2>2 DEF ShownTo
<1>3. ASSUME NEW k \in DOMAIN heard[l], Matches(D, heard[l][k])
      PROVE  heard[l][k].id \in FlaggedIds
  <2>1. k \in DOMAIN Flagged(D) /\ Flagged(D)[k] = heard[l][k]
    BY <1>3, FlaggedListed DEF l
  <2> QED
    BY <2>1 DEF FlaggedIds, Ids
<1>4. CASE D = "UNATTACHED_EBS_VOLUME"
  <2>1. Things(l) = Volume
    BY <1>4 DEF l, Calls, Things
  <2> SUFFICES ASSUME NEW v \in Volume, seen[v] \subseteq {"available"} PROVE v \in FlaggedIds
    BY <1>4 DEF WastedIn
  <2>2. PICK k \in DOMAIN heard[l] : heard[l][k].id = v /\ heard[l][k].state \in seen[v]
    BY <1>2, <2>1 DEF Exists
  <2> QED
    BY <1>3, <1>4, <2>2 DEF Matches
<1>5. CASE D = "UNASSOCIATED_ELASTIC_IP"
  <2>1. Things(l) = Address
    BY <1>5 DEF l, Calls, Things
  <2> SUFFICES ASSUME NEW a \in Address, seen[a] \subseteq {"free"} PROVE a \in FlaggedIds
    BY <1>5 DEF WastedIn
  <2>2. PICK k \in DOMAIN heard[l] : heard[l][k].id = a /\ heard[l][k].state \in seen[a]
    BY <1>2, <2>1 DEF Exists
  <2> QED
    BY <1>3, <1>5, <2>2 DEF Matches
<1>6. CASE D = "STOPPED_EC2_INSTANCE"
  <2>1. Things(l) = Instance
    BY <1>6 DEF l, Calls, Things
  <2> SUFFICES ASSUME NEW i \in Instance, seen[i] \subseteq {"stopped"} PROVE i \in FlaggedIds
    BY <1>6 DEF WastedIn
  <2>2. PICK k \in DOMAIN heard[l] : heard[l][k].id = i /\ heard[l][k].state \in seen[i]
    BY <1>2, <2>1 DEF Exists
  <2> QED
    BY <1>3, <1>6, <2>2 DEF Matches
<1>7. CASE D = "SNAPSHOT_MISSING_SOURCE_VOLUME"
  <2>1. Things(l) = Snapshot
    BY <1>7 DEF l, Calls, Things
  <2> SUFFICES ASSUME NEW s \in Snapshot, seen[s] \subseteq {"completed"}, seen[Source[s]] \subseteq {"gone"}
               PROVE  s \in FlaggedIds
    BY <1>7 DEF WastedIn
  <2>2. PICK k \in DOMAIN heard[l] : heard[l][k].id = s /\ heard[l][k].state \in seen[s]
    BY <1>2, <2>1 DEF Exists
  <2>3. Source[s] \notin Ids(heard["volumes"])
    <3>1. ShownTo("volumes", heard["volumes"], LastPage("volumes"), seen)
      BY <1>7, AllHeard
    <3> QED
      BY <3>1 DEF ShownTo, Ids, Exists
  <2> QED
    BY <1>3, <1>7, <2>2, <2>3 DEF Matches
<1> QED
  BY <1>1, <1>4, <1>5, <1>6, <1>7 DEF DetectorNames

-------------------------------------------------------------------------------
\* A candidate is recorded as one.
LEMMA FlaggedTyped ==
  ASSUME Done, NEW k \in DOMAIN Flagged(D)
  PROVE  Candidate(Flagged(D)[k]) \in CandidateRecord
<1> DEFINE e == Flagged(D)[k]
<1>1. e \in Entry
  BY FlaggedShown
<1> HIDE DEF e
<1>2. index.available \in BOOLEAN /\ warned \subseteq Listings
  BY DEF Done, Known, ThreadTyped
<1>3. Details(D, e) \subseteq Thing \cup {"image", "sharing", "lock"}
  BY <1>1 DEF Details, Attached, Protects, Entry
<1>4. Candidate(e) \in CandidateRecord
  BY <1>1, <1>2, <1>3 DEF Candidate, CandidateRecord, Entry
<1> QED
  BY <1>4 DEF e

\* A complete cell says what is true.
LEMMA CompleteCell ==
  ASSUME Done
  PROVE  LET cell == [detector |-> D, status |-> "COMPLETE",
                      candidates |-> [k \in DOMAIN Flagged(D) |-> Candidate(Flagged(D)[k])]]
         IN cell \in CellRecord /\ CellTrue(cell, seen)
<1> DEFINE places == DOMAIN Flagged(D)
           found == [k \in places |-> Candidate(Flagged(D)[k])]
           cell == [detector |-> D, status |-> "COMPLETE", candidates |-> found]
           first == heard[Calls(D)[1]]
<1>1. turn \in 1 .. 4 /\ ShownTo(Calls(D)[1], first, LastPage(Calls(D)[1]), seen)
  BY AllHeard
<1>2. D \in {Detectors[k] : k \in 1 .. 4}
  BY <1>1 DEF D
<1>3. places \subseteq DOMAIN first /\ DOMAIN first = 1 .. Len(first) /\ Len(first) \in Nat
  <2>1. places \subseteq DOMAIN first
    BY FlaggedListed
  <2>2. first \in Seq(Entry)
    BY <1>1 DEF ShownTo
  <2> HIDE DEF first, places
  <2> QED
    BY <2>1, <2>2
<1>4. places \in SUBSET Nat /\ IsFiniteSet(places)
  <2>1. IsFiniteSet(1 .. Len(first))
    BY <1>3, FS_Interval
  <2> QED
    BY <1>3, <2>1, FS_Subset
<1>5. \A k \in places : found[k] = Candidate(Flagged(D)[k]) /\ found[k].id = Flagged(D)[k].id
  BY DEF Candidate
<1>6. found \in [places -> CandidateRecord]
  BY FlaggedTyped
<1>7. \A j, k \in places : Flagged(D)[j].id = Flagged(D)[k].id => j = k
  BY <1>1, <1>3, FlaggedListed DEF ShownTo
<1>8. Ids(found) = FlaggedIds
  BY <1>5 DEF Ids, FlaggedIds
<1>9. \A k \in places : /\ InCondition(found[k], seen) /\ OwnerTrue(found[k], seen)
                        /\ DetailsTrue(found[k], seen)
  BY <1>5, FlaggedInCondition, FlaggedOwner, FlaggedDetails
<1>10. DOMAIN found = places
  OBVIOUS
<1> HIDE DEF found, places
<1>11. cell \in CellRecord
  BY <1>2, <1>4, <1>6 DEF CellRecord
<1>12. cell.status = "COMPLETE" /\ cell.candidates = found /\ cell.detector = D
  OBVIOUS
<1> HIDE DEF cell
<1>13. CellTrue(cell, seen)
  <2>1. WastedIn(cell.detector, seen) \subseteq Ids(cell.candidates)
    BY <1>8, <1>12, WastedFlagged
  <2>2. \A j, k \in DOMAIN cell.candidates : cell.candidates[j].id = cell.candidates[k].id => j = k
    BY <1>5, <1>7, <1>10, <1>12
  <2> QED
    BY <1>4, <1>9, <1>10, <1>12, <2>1, <2>2 DEF CellTrue
<1> QED
  BY <1>11, <1>13 DEF cell, found, places

\* A detector is done.
LEMMA CompleteKeeps ==
  ASSUME DetectionInv, CellCompletes
  PROVE  DetectionInv'
<1> DEFINE cell == [detector |-> D, status |-> "COMPLETE",
                    candidates |-> [k \in DOMAIN Flagged(D) |-> Candidate(Flagged(D)[k])]]
<1>1. /\ Done /\ call = NoValue
      /\ UNCHANGED <<state, seen, changes, region, call, memo, index, errors>>
      /\ cells' = Append(cells, cell) /\ turn' = turn + 1 /\ at' = 1
      /\ heard' = Nothing /\ warned' = {}
  BY DEF CellCompletes, Turn, Done, Known, DetectionInv, account
<1>2. turn \in 1 .. 4 /\ D = Detectors[turn] /\ region = "RUNNING"
  BY <1>1, AllHeard DEF D, Done, Working
<1>3. cell \in CellRecord /\ CellTrue(cell, seen) /\ cell.detector = D /\ cell.status = "COMPLETE"
  BY <1>1, CompleteCell
<1> HIDE DEF cell
<1>4. /\ cells' \in Seq(CellRecord) /\ Len(cells') = turn' - 1
      /\ \A k \in DOMAIN cells' : \/ k \in DOMAIN cells /\ cells'[k] = cells[k]
                                  \/ k = turn /\ cells'[k] = cell
  BY <1>1, <1>2, <1>3 DEF Done, Known, CellsTyped
<1>5. CellsTyped'
  BY <1>1, <1>2, <1>3, <1>4 DEF Done, Known, CellsTyped
<1>6. CellsTrue'
  BY <1>1, <1>3, <1>4 DEF Done, Known, CellsTrue
<1>7. ThreadTyped'
  <2>1. heard' \in [Listings -> Seq(Entry)]
    BY <1>1 DEF Nothing
  <2>2. turn' \in 1 .. 5 /\ (turn' <= 4 => 1 <= Len(Calls(D')) + 1)
    <3>1. turn' \in 1 .. 5
      BY <1>1, <1>2
    <3>2. turn' <= 4 => D' \in DetectorNames
      BY <3>1 DEF D, Detectors, DetectorNames
    <3> QED
      BY <3>1, <3>2, CallsInOrder
  <2> QED
    BY <1>1, <1>2, <2>1, <2>2 DEF Done, Known, ThreadTyped
<1>8. HeardTrue'
  BY <1>1, NothingPast DEF HeardTrue
<1>9. CallTrue'
  BY <1>1 DEF CallTrue
<1> QED
  BY <1>1, <1>5, <1>6, <1>7, <1>8, <1>9 DEF DetectionInv, Done, Known, AccountTyped, MemoTrue, IndexTrue

\* Every step keeps what is known.
LEMMA StepKeeps ==
  ASSUME DetectionInv, [Next]_vars
  PROVE  DetectionInv'
<1>1. CASE UNCHANGED vars
  <2>1. D' = D /\ Asked' = Asked /\ FlaggedIds' = FlaggedIds /\ Working' = Working
    BY <1>1, FlaggedKept DEF vars, D, Asked, Working
  <2>2. AccountTyped'
    BY <1>1 DEF vars, DetectionInv, AccountTyped
  <2>3. ThreadTyped'
    BY <1>1, <2>1 DEF vars, DetectionInv, ThreadTyped
  <2>4. CellsTyped' /\ CellsTrue'
    BY <1>1 DEF vars, DetectionInv, CellsTyped, CellsTrue
  <2>5. HeardTrue'
    BY <1>1, <2>1 DEF vars, DetectionInv, HeardTrue
  <2>6. MemoTrue'
    BY <1>1 DEF vars, DetectionInv, MemoTrue
  <2>7. IndexTrue'
    BY <1>1 DEF vars, DetectionInv, IndexTrue
  <2>8. CallTrue'
    BY <1>1, <2>1 DEF vars, DetectionInv, CallTrue
  <2> QED
    BY <2>2, <2>3, <2>4, <2>5, <2>6, <2>7, <2>8 DEF DetectionInv
<1>2. CASE Next
  BY <1>2, ChangeKeeps, SkipKeeps, AskKeeps, ReplyKeeps, ThrottledKeeps, FailKeeps, CompleteKeeps,
     FinishKeeps DEF Next, Thread
<1> QED
  BY <1>1, <1>2

\* Nothing is claimed when the scan begins.
LEMMA BeginsKnown ==
  ASSUME Init
  PROVE  DetectionInv
<1>1. AccountTyped
  BY DetectionAssumption DEF Init, AccountTyped
<1>2. turn = 1 /\ at = 1 /\ heard = Nothing /\ warned = {} /\ cells = <<>> /\ region = "RUNNING"
      /\ call = NoValue /\ index = [loaded |-> FALSE, available |-> FALSE, ids |-> {}]
      /\ memo = [l \in Memoized |-> NoValue]
  BY DEF Init
<1>3. ThreadTyped
  <2>1. heard \in [Listings -> Seq(Entry)]
    BY <1>2 DEF Nothing
  <2>2. 1 <= Len(Calls(D)) + 1
    BY <1>2, DetectorAtWork, CallsInOrder
  <2> QED
    BY <1>2, <2>1, <2>2 DEF ThreadTyped
<1>4. CellsTyped /\ CellsTrue
  BY <1>2 DEF CellsTyped, CellsTrue
<1>5. HeardTrue
  BY <1>2, NothingPast DEF HeardTrue
<1>6. MemoTrue
  BY <1>2 DEF MemoTrue
<1>7. IndexTrue /\ CallTrue
  BY <1>2 DEF IndexTrue, CallTrue
<1> QED
  BY <1>1, <1>3, <1>4, <1>5, <1>6, <1>7 DEF DetectionInv

\* The inductive invariant holds of the specification.
THEOREM DetectionInvHolds == Spec => []DetectionInv
<1>1. Init => DetectionInv
  BY BeginsKnown
<1>2. DetectionInv /\ [Next]_vars => DetectionInv'
  BY StepKeeps
<1> QED
  BY <1>1, <1>2, PTL DEF Spec

-------------------------------------------------------------------------------
\* The account, the memo, the index and the cells of one region keep their types.
THEOREM DetectionTyped == Spec => []TypeOK
<1>1. DetectionInv => TypeOK
  <2> SUFFICES ASSUME DetectionInv PROVE TypeOK
    OBVIOUS
  <2>1. \A l \in Memoized : memo[l] # NoValue => memo[l].error \in Errors \cup {"failed", NoValue}
    BY DEF DetectionInv, MemoTrue
  <2>2. ASSUME NEW k \in DOMAIN cells
        PROVE  /\ cells[k].detector = Detectors[k]
               /\ cells[k].status \in {"COMPLETE", "MISSING_PERMISSION", "SKIPPED", "FAILED"}
               /\ cells[k].status # "COMPLETE" => cells[k].candidates = <<>>
    <3>1. cells[k] \in CellRecord
      BY DEF DetectionInv, CellsTyped
    <3>2. cells[k].status \in {"COMPLETE", "MISSING_PERMISSION", "SKIPPED", "FAILED"}
      BY <3>1 DEF CellRecord
    <3> QED
      BY <3>2 DEF DetectionInv, CellsTyped
  <2>3. Len(cells) = turn - 1 /\ turn \in 1 .. Len(Detectors) + 1
    BY DEF DetectionInv, CellsTyped, ThreadTyped, Detectors
  <2>4. \A r \in Thing : state[r] \in seen[r]
    BY DEF DetectionInv, AccountTyped
  <2>5. /\ warned \subseteq Listings
        /\ index \in [loaded : BOOLEAN, available : BOOLEAN, ids : SUBSET Resource]
        /\ region \in {"RUNNING", "COMPLETE", "PARTIAL", "FAILED", "SKIPPED"}
    BY DEF DetectionInv, ThreadTyped
  <2> QED
    BY <2>1, <2>2, <2>3, <2>4, <2>5 DEF TypeOK
<1> QED
  BY <1>1, DetectionInvHolds, PTL

\* A COMPLETE cell holds each resource once and every resource that was wasted all
\* the while: reconcile() may resolve what it does not hold.
THEOREM ReadsAll == Spec => []CompleteMeansAllRead
<1>1. DetectionInv => CompleteMeansAllRead
  <2> SUFFICES ASSUME DetectionInv, NEW k \in DOMAIN cells, cells[k].status = "COMPLETE"
               PROVE  /\ Wasted(cells[k].detector) \subseteq Ids(cells[k].candidates)
                      /\ Cardinality(Ids(cells[k].candidates)) = Cardinality(DOMAIN cells[k].candidates)
    BY DEF CompleteMeansAllRead
  <2> DEFINE found == cells[k].candidates
  <2>1. /\ IsFiniteSet(DOMAIN found)
        /\ WastedIn(cells[k].detector, seen) \subseteq Ids(found)
        /\ \A i, j \in DOMAIN found : found[i].id = found[j].id => i = j
    BY DEF DetectionInv, CellsTrue, CellTrue
  <2>2. Wasted(cells[k].detector) \subseteq WastedIn(cells[k].detector, seen)
    BY DEF Wasted, WastedIn, Steadily
  <2> HIDE DEF found
  <2>3. Cardinality(Ids(found)) = Cardinality(DOMAIN found)
    <3> DEFINE ids == [j \in DOMAIN found |-> found[j].id]
    <3>1. ids \in Surjection(DOMAIN found, Ids(found)) /\ ids \in Injection(DOMAIN found, Ids(found))
      BY <2>1 DEF Surjection, Injection, IsInjective, Ids
    <3> HIDE DEF ids
    <3> QED
      BY <2>1, <3>1, FS_Surjection
  <2> QED
    BY <2>1, <2>2, <2>3 DEF found
<1> QED
  BY <1>1, DetectionInvHolds, PTL

\* What is known of every candidate.
LEMMA CandidateKnown ==
  ASSUME DetectionInv, NEW c \in Candidates
  PROVE  /\ c \in CandidateRecord
         /\ InCondition(c, seen) /\ OwnerTrue(c, seen) /\ DetailsTrue(c, seen)
<1>1. PICK k \in DOMAIN cells : \E j \in DOMAIN cells[k].candidates : c = cells[k].candidates[j]
  BY DEF Candidates
<1>2. PICK j \in DOMAIN cells[k].candidates : c = cells[k].candidates[j]
  BY <1>1
<1>3. cells[k] \in CellRecord /\ CellTrue(cells[k], seen)
  BY DEF DetectionInv, CellsTyped, CellsTrue
<1>4. c \in CandidateRecord
  <2>1. PICK places \in SUBSET Nat : cells[k].candidates \in [places -> CandidateRecord]
    BY <1>3 DEF CellRecord
  <2> QED
    BY <1>2, <2>1
<1> QED
  BY <1>2, <1>3, <1>4 DEF CellTrue

\* A candidate was in the condition its detector reports.
THEOREM CandidatesAreTrue == Spec => []CandidatesWereTrue
<1>1. DetectionInv => CandidatesWereTrue
  BY CandidateKnown DEF CandidatesWereTrue, InCondition
<1> QED
  BY <1>1, DetectionInvHolds, PTL

\* The resolver confirms only owners there were, and denies one only with a full index.
THEOREM OwnersAreHonest == Spec => []OwnershipHonest
<1>1. DetectionInv => OwnershipHonest
  BY CandidateKnown DEF OwnershipHonest, OwnerTrue, OwnedBy, Steadily
<1> QED
  BY <1>1, DetectionInvHolds, PTL

\* A candidate without a warning has all its dependencies.
THEOREM MissingIsSaid == Spec => []MissingIsWarned
<1>1. DetectionInv => MissingIsWarned
  BY CandidateKnown DEF MissingIsWarned, DetailsTrue, Steadily
<1> QED
  BY <1>1, DetectionInvHolds, PTL

-------------------------------------------------------------------------------
\* The thread inside the block of a key holds its lock.
InsideHolds ==
  \A t \in Caller : calls[t].state \in {"holding", "loading", "loaded"} => holder[calls[t].key] = t

\* Only what is not remembered is being loaded.
LoadsUnset ==
  \A t \in Caller : calls[t].state \in {"loading", "loaded"} => cache[calls[t].key] = Unset

\* What was answered is what is remembered.
AnsweredIsCached ==
  \A k \in Key : \A a \in answers[k] : a = cache[k] /\ a # Unset

\* The inductive invariant.
Inside == InsideHolds /\ LoadsUnset /\ AnsweredIsCached

ProviderInv == ProviderTypeOK /\ Inside

-------------------------------------------------------------------------------
\* An answer is not the mark of an empty cache entry.
LEMMA AnswerIsSet ==
  ASSUME NEW kind \in {"value", "error"}, NEW w
  PROVE  [kind |-> kind, world |-> w] # Unset
<1> SUFFICES ASSUME [kind |-> kind, world |-> w] = Unset PROVE FALSE
  OBVIOUS
<1>1. [kind |-> kind, world |-> w].kind = Unset.kind
  OBVIOUS
<1> QED
  BY <1>1 DEF Unset

\* A loaded answer is an answer.
LoadedIsSet ==
  \A t \in Caller : calls[t].state = "loaded" => calls[t].answer \in Answer /\ calls[t].answer # Unset

\* Every step of a thread keeps the types and the answer it has loaded.
LEMMA ProceedType ==
  ASSUME ProviderTypeOK, LoadedIsSet, NEW t \in Caller, Proceed(t)
  PROVE  ProviderTypeOK' /\ LoadedIsSet'
<1> USE ScopedProviderAssumption DEF ProviderTypeOK, LoadedIsSet, CallRecord, MaybeAnswer
<1>1. CASE Lock(t)
  BY <1>1 DEF Lock
<1>2. CASE Recall(t)
  <2>1. cache[calls[t].key] \in Answer
    BY <1>2 DEF Recall
  <2> QED
    BY <1>2, <2>1 DEF Recall
<1>3. CASE StartLoad(t)
  BY <1>3 DEF StartLoad
<1>4. ASSUME NEW kind \in {"value", "error"}, Load(t, kind) PROVE ProviderTypeOK' /\ LoadedIsSet'
  <2> DEFINE loaded == [kind |-> kind, world |-> world]
  <2>1. loaded \in Answer /\ loaded # Unset
    BY AnswerIsSet DEF Answer
  <2>2. /\ calls' = [calls EXCEPT ![t].state = "loaded", ![t].answer = loaded]
        /\ UNCHANGED <<world, cache, holder, answers>>
    BY <1>4 DEF Load
  <2> HIDE DEF loaded
  <2> DEFINE c == [calls[t] EXCEPT !.state = "loaded", !.answer = loaded]
  <2>3. c \in CallRecord /\ c.answer = loaded
    BY <2>1
  <2>4. calls' = [calls EXCEPT ![t] = c]
    BY <2>2
  <2> HIDE DEF c
  <2>5. calls' \in [Caller -> CallRecord]
    BY <2>3, <2>4
  <2>6. LoadedIsSet'
    BY <2>1, <2>3, <2>4
  <2> QED
    BY <2>2, <2>5, <2>6
<1>5. CASE Remember(t)
  BY <1>5 DEF Remember
<1>6. CASE LoadBreaks(t)
  BY <1>6 DEF LoadBreaks
<1> QED
  BY <1>1, <1>2, <1>3, <1>4, <1>5, <1>6 DEF Proceed

\* Every step keeps the types and the loaded answers.
LEMMA NextType ==
  ASSUME ProviderTypeOK, LoadedIsSet, [ProviderNext]_providerVars
  PROVE  ProviderTypeOK' /\ LoadedIsSet'
<1> USE DEF ProviderTypeOK, LoadedIsSet
<1>1. CASE AccountChanges
  <2>1. world' \in 0 .. MaxWorld
    BY <1>1, ScopedProviderAssumption DEF AccountChanges
  <2> QED
    BY <1>1, <2>1 DEF AccountChanges
<1>2. ASSUME NEW t \in Caller, Proceed(t) PROVE ProviderTypeOK' /\ LoadedIsSet'
  BY <1>2, ProceedType
<1>3. ASSUME NEW t \in Caller, NEW k \in Key, Call(t, k) PROVE ProviderTypeOK' /\ LoadedIsSet'
  BY <1>3 DEF Call, CallRecord, MaybeAnswer
<1>4. CASE UNCHANGED providerVars
  BY <1>4 DEF providerVars
<1> QED
  BY <1>1, <1>2, <1>3, <1>4 DEF ProviderNext

\* A thread that goes on in a call keeps the locks and the memory consistent.
LEMMA ProceedInside ==
  ASSUME ProviderTypeOK, LoadedIsSet, Inside, NEW t \in Caller, Proceed(t)
  PROVE  Inside'
<1> USE ScopedProviderAssumption DEF ProviderTypeOK, CallRecord, Inside, InsideHolds, LoadsUnset,
                                       AnsweredIsCached
<1>1. CASE Lock(t)
  BY <1>1 DEF Lock
<1>2. CASE Recall(t)
  BY <1>2 DEF Recall
<1>3. CASE StartLoad(t)
  BY <1>3 DEF StartLoad
<1>4. ASSUME NEW kind \in {"value", "error"}, Load(t, kind) PROVE Inside'
  BY <1>4 DEF Load
<1>5. CASE Remember(t)
  BY <1>5 DEF Remember, LoadedIsSet
<1>6. CASE LoadBreaks(t)
  BY <1>6 DEF LoadBreaks
<1> QED
  BY <1>1, <1>2, <1>3, <1>4, <1>5, <1>6 DEF Proceed

\* Every step keeps the locks and the memory consistent.
LEMMA NextInside ==
  ASSUME ProviderTypeOK, LoadedIsSet, Inside, [ProviderNext]_providerVars
  PROVE  Inside'
<1> USE DEF Inside, InsideHolds, LoadsUnset, AnsweredIsCached
<1>1. CASE AccountChanges
  BY <1>1 DEF AccountChanges
<1>2. ASSUME NEW t \in Caller, Proceed(t) PROVE Inside'
  BY <1>2, ProceedInside
<1>3. ASSUME NEW t \in Caller, NEW k \in Key, Call(t, k) PROVE Inside'
  BY <1>3 DEF Call, ProviderTypeOK, CallRecord
<1>4. CASE UNCHANGED providerVars
  BY <1>4 DEF providerVars
<1> QED
  BY <1>1, <1>2, <1>3, <1>4 DEF ProviderNext

\* The inductive invariant holds of the specification.
THEOREM ProviderInvHolds == ProviderSpec => [](ProviderInv /\ LoadedIsSet)
<1>1. ProviderInit => ProviderTypeOK /\ LoadedIsSet /\ Inside
  <2> SUFFICES ASSUME ProviderInit PROVE ProviderTypeOK /\ LoadedIsSet /\ Inside
    OBVIOUS
  <2>1. \A t \in Caller :
          calls[t].state = "idle" /\ calls[t] \in [state : {"idle"}, key : Key, answer : {Unset}]
    BY DEF ProviderInit
  <2>2. calls \in [Caller -> CallRecord]
    BY DEF ProviderInit, CallRecord, MaybeAnswer
  <2>3. world \in 0 .. MaxWorld
    BY ScopedProviderAssumption DEF ProviderInit
  <2>4. cache \in [Key -> MaybeAnswer] /\ holder \in [Key -> Caller \cup {Nobody}]
    BY DEF ProviderInit, MaybeAnswer
  <2>5. answers \in [Key -> SUBSET Answer]
    BY DEF ProviderInit
  <2>6. ProviderTypeOK
    BY <2>2, <2>3, <2>4, <2>5 DEF ProviderTypeOK
  <2>7. LoadedIsSet /\ InsideHolds /\ LoadsUnset
    BY <2>1 DEF LoadedIsSet, InsideHolds, LoadsUnset
  <2>8. AnsweredIsCached
    BY DEF ProviderInit, AnsweredIsCached
  <2> QED
    BY <2>6, <2>7, <2>8 DEF Inside
<1>2. ProviderInit => ProviderInv /\ LoadedIsSet
  BY <1>1 DEF ProviderInv
<1>3. ProviderInv /\ LoadedIsSet /\ [ProviderNext]_providerVars => (ProviderInv /\ LoadedIsSet)'
  BY NextType, NextInside DEF ProviderInv
<1> QED
  BY <1>2, <1>3, PTL DEF ProviderSpec

\* Remembered answers, locks and calls keep their types for any threads and keys.
THEOREM ProviderTypeCorrect == ProviderSpec => []ProviderTypeOK
<1>1. ProviderInv => ProviderTypeOK
  BY DEF ProviderInv
<1> QED
  BY <1>1, ProviderInvHolds, PTL

\* Every caller is given the same answer for a key during one scan.
THEOREM OneAnswer == ProviderSpec => []OneAnswerPerKey
<1>1. ProviderInv => OneAnswerPerKey
  BY DEF ProviderInv, Inside, AnsweredIsCached, OneAnswerPerKey
<1> QED
  BY <1>1, ProviderInvHolds, PTL

\* A key is loaded by one thread at a time and never again once answered.
THEOREM LoadedOnce == ProviderSpec => []NoSecondLoad
<1>1. ProviderInv => NoSecondLoad
  BY ScopedProviderAssumption DEF ProviderInv, ProviderTypeOK, CallRecord, Inside, InsideHolds,
                                  LoadsUnset, NoSecondLoad
<1> QED
  BY <1>1, ProviderInvHolds, PTL

===============================================================================
