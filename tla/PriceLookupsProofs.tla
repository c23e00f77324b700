-------------------------- MODULE PriceLookupsProofs --------------------------
(***************************************************************************)
(* Every estimate is the methodology's sum, a resource the shipped table   *)
(* knows is never without one, and whatever requests share a key of the    *)
(* price cache, each finds under it every price it is charged for: for any *)
(* accounts, tables, number of scans, either database and every fault.     *)
(*                                                                         *)
(* First the calculator: sums, the tiers of io2, volumes and requests.     *)
(* Then the lookups: the row alone does not tell why it suffices; IInv     *)
(* adds whose prices it holds and of when: those loaded for some request   *)
(* of its key, as are those a scan stores or prices with.                  *)
(***************************************************************************)
EXTENDS PriceLookups, FiniteSetTheorems, WellFoundedInduction, TLAPS

-------------------------------------------------------------------------------
(***************************************************************************)
(* Sums.  SumFunction takes the elements in the order CHOOSE has them; its *)
(* recursion has a solution, and the sum is the same in every order.  What *)
(* an induction would show is shown by a smallest counterexample.          *)
(***************************************************************************)

\* The element MapThenFoldSet takes next.
Pick(T) == CHOOSE x \in T : TRUE

\* One step of the sum of f over T, given the sums F over smaller sets.
SumStep(f, F, T) == IF T = {} THEN 0 ELSE f[Pick(T)] + F[T \ {Pick(T)}]

\* SumFunction is the fold of the community modules, over the whole domain.
LEMMA SumUnfolds ==
  ASSUME NEW f
  PROVE  SumFunction(f) =
           (CHOOSE F : F = [T \in SUBSET DOMAIN f |-> SumStep(f, F, T)])[DOMAIN f]
BY Zenon DEF SumFunction, SumFunctionOnSet, FoldFunctionOnSet, MapThenFoldSet, SumStep, Pick

\* A set of numbers has a least one: what the counterexamples below are taken by.
LEMMA LeastExists ==
  ASSUME NEW N \in SUBSET Nat, NEW n \in N
  PROVE  \E k \in N : \A j \in N : k <= j
<1>1. PICK k \in N : \A j \in N : ~ <<j, k>> \in OpToRel(<, Nat)
  BY WFMin, NatLessThanWellFounded, Zenon
<1>2. \A j \in N : ~(j < k)
  BY <1>1 DEF OpToRel
<1> QED
  BY <1>2

\* So a set of subsets of a finite set has one that no element can be taken from.
LEMMA SmallestSet ==
  ASSUME NEW S, IsFiniteSet(S), NEW B \in SUBSET SUBSET S, B # {}
  PROVE  \E T \in B : \A x \in T : T \ {x} \notin B
<1> DEFINE sizes == {Cardinality(T) : T \in B}
<1>1. \A T \in B : IsFiniteSet(T) /\ Cardinality(T) \in Nat
  BY FS_Subset, FS_CardinalityType
<1>2. sizes \in SUBSET Nat
  BY <1>1
<1>3. PICK k \in sizes : \A j \in sizes : k <= j
  <2>1. PICK T : T \in B
    OBVIOUS
  <2>2. Cardinality(T) \in sizes
    BY <2>1
  <2> HIDE DEF sizes
  <2> QED
    BY <1>2, <2>2, LeastExists
<1>4. PICK T \in B : k = Cardinality(T)
  OBVIOUS
<1>5. ASSUME NEW x \in T, T \ {x} \in B PROVE FALSE
  <2>1. Cardinality(T \ {x}) = Cardinality(T) - 1
    BY <1>1, FS_RemoveElement
  <2>2. Cardinality(T) <= Cardinality(T \ {x})
    BY <1>3, <1>4, <1>5
  <2> QED
    BY <1>1, <2>1, <2>2
<1> QED
  BY <1>5

\* A function that gives the sum of f over each subset of its domain.
SumsUp(F, f) ==
  /\ F \in [SUBSET DOMAIN f -> Int]
  /\ F[{}] = 0
  /\ \A T \in SUBSET DOMAIN f : \A x \in T : F[T] = f[x] + F[T \ {x}]

\* The recursion of the fold has a solution.
LEMMA FoldExists ==
  ASSUME NEW f, IsFiniteSet(DOMAIN f), \A x \in DOMAIN f : f[x] \in Int
  PROVE  \E F \in [SUBSET DOMAIN f -> Int] : \A T \in SUBSET DOMAIN f : F[T] = SumStep(f, F, T)
<1> DEFINE S == DOMAIN f
           Small(n) == {T \in SUBSET S : Cardinality(T) <= n}
           Solved(n) == \E F \in [Small(n) -> Int] : \A T \in Small(n) : F[T] = SumStep(f, F, T)
           Bad == {n \in Nat : ~Solved(n)}
<1>1. \A T \in SUBSET S : IsFiniteSet(T) /\ Cardinality(T) \in Nat /\ Cardinality(T) <= Cardinality(S)
  BY FS_Subset, FS_CardinalityType
<1>2. Solved(0)
  <2>1. \A T \in Small(0) : T = {}
    BY <1>1, FS_EmptySet
  <2> HIDE DEF Small
  <2> DEFINE F == [T \in Small(0) |-> 0]
  <2>2. F \in [Small(0) -> Int] /\ \A T \in Small(0) : F[T] = SumStep(f, F, T)
    BY <2>1 DEF SumStep
  <2> QED
    BY <2>2
<1>3. ASSUME NEW n \in Nat, Solved(n) PROVE Solved(n + 1)
  <2>1. PICK F \in [Small(n) -> Int] : \A T \in Small(n) : F[T] = SumStep(f, F, T)
    BY <1>3
  <2> DEFINE G == [T \in Small(n + 1) |-> SumStep(f, F, T)]
  <2>2. ASSUME NEW T \in Small(n + 1), T # {}
        PROVE  T \ {Pick(T)} \in Small(n) /\ Pick(T) \in S
    <3>1. Pick(T) \in T
      BY <2>2 DEF Pick
    <3>2. Cardinality(T \ {Pick(T)}) = Cardinality(T) - 1
      BY <3>1, <1>1, FS_RemoveElement
    <3> QED
      BY <3>1, <3>2, <1>1
  <2>3. Small(n) \subseteq Small(n + 1)
    BY <1>1
  <2> HIDE DEF Small
  <2>4. \A T \in Small(n) : G[T] = F[T]
    BY <2>1, <2>3
  <2>5. \A T \in Small(n + 1) : G[T] = SumStep(f, G, T)
    BY <2>2, <2>4 DEF SumStep
  <2>6. \A T \in Small(n + 1) : G[T] \in Int
    BY <2>1, <2>2 DEF SumStep
  <2>7. G \in [Small(n + 1) -> Int]
    BY <2>6
  <2> HIDE DEF G
  <2> QED
    BY <2>5, <2>7
<1>4. Bad = {}
  <2> SUFFICES ASSUME NEW b \in Bad PROVE FALSE
    OBVIOUS
  <2> HIDE DEF Solved
  <2>1. PICK k \in Bad : \A j \in Bad : k <= j
    BY LeastExists
  <2>2. k # 0
    BY <1>2
  <2>3. k - 1 \in Nat /\ Solved(k - 1)
    BY <2>1, <2>2
  <2>4. Solved((k - 1) + 1)
    BY <2>3, <1>3
  <2> QED
    BY <2>4
<1>5. Cardinality(S) \in Nat /\ Small(Cardinality(S)) = SUBSET S
  BY <1>1
<1>6. Solved(Cardinality(S))
  <2> HIDE DEF Solved
  <2> QED
    BY <1>4, <1>5
<1> QED
  BY <1>5, <1>6

\* It sums up: in whichever order the elements are taken.
LEMMA FoldSumsUp ==
  ASSUME NEW f, IsFiniteSet(DOMAIN f), \A x \in DOMAIN f : f[x] \in Int,
         NEW F, F = [T \in SUBSET DOMAIN f |-> F[T]],
         \A T \in SUBSET DOMAIN f : F[T] = SumStep(f, F, T)
  PROVE  SumsUp(F, f)
<1> DEFINE S == DOMAIN f
<1>1. \A T \in SUBSET S : F[T] = SumStep(f, F, T)
  OBVIOUS
<1>2. F[{}] = 0
  BY <1>1 DEF SumStep
<1>3. \A T \in SUBSET S : F[T] \in Int
  <2> DEFINE Bad == {T \in SUBSET S : F[T] \notin Int}
  <2> SUFFICES ASSUME Bad # {} PROVE FALSE
    OBVIOUS
  <2>1. PICK T \in Bad : \A x \in T : T \ {x} \notin Bad
    BY SmallestSet
  <2>2. T \in SUBSET S /\ F[T] \notin Int
    BY <2>1
  <2>3. T # {}
    <3> SUFFICES ASSUME T = {} PROVE FALSE
      OBVIOUS
    <3>1. F[T] = 0
      BY <1>2, Zenon
    <3> QED
      BY <2>2, <3>1
  <2>4. Pick(T) \in T
    BY <2>3 DEF Pick
  <2>5. F[T \ {Pick(T)}] \in Int
    BY <2>1, <2>4
  <2>6. F[T] = f[Pick(T)] + F[T \ {Pick(T)}]
    BY <1>1, <2>2, <2>3 DEF SumStep
  <2> QED
    BY <2>2, <2>4, <2>5, <2>6
<1>4. \A T \in SUBSET S : \A x \in T : F[T] = f[x] + F[T \ {x}]
  <2> DEFINE Bad == {T \in SUBSET S : \E x \in T : F[T] # f[x] + F[T \ {x}]}
  <2> SUFFICES ASSUME Bad # {} PROVE FALSE
    OBVIOUS
  <2>1. PICK T \in Bad : \A x \in T : T \ {x} \notin Bad
    BY SmallestSet
  <2>2. PICK x \in T : F[T] # f[x] + F[T \ {x}]
    BY <2>1
  <2> DEFINE y == Pick(T)
             U == T \ {x, y}
  <2>3. y \in T /\ F[T] = f[y] + F[T \ {y}]
    BY <1>1, <2>1 DEF SumStep, Pick
  <2> HIDE DEF y
  <2>4. x # y
    BY <2>2, <2>3
  <2>5. F[T \ {y}] = f[x] + F[(T \ {y}) \ {x}]
    BY <2>1, <2>3, <2>4
  <2>6. F[T \ {x}] = f[y] + F[(T \ {x}) \ {y}]
    BY <2>1, <2>3, <2>4
  <2>7. (T \ {y}) \ {x} = U /\ (T \ {x}) \ {y} = U /\ U \in SUBSET S
    OBVIOUS
  <2>8. f[x] \in Int /\ f[y] \in Int /\ F[U] \in Int
    BY <1>3, <2>3, <2>7
  <2> HIDE DEF U, Bad
  <2>9. F[T] = f[y] + (f[x] + F[U]) /\ F[T \ {x}] = f[y] + F[U]
    BY <2>3, <2>5, <2>6, <2>7
  <2> QED
    BY <2>2, <2>8, <2>9
<1>5. F \in [SUBSET S -> Int]
  BY <1>3
<1> QED
  BY <1>2, <1>4, <1>5 DEF SumsUp

\* SumFunction sums up.
LEMMA SumIsSum ==
  ASSUME NEW f, IsFiniteSet(DOMAIN f), \A x \in DOMAIN f : f[x] \in Int
  PROVE  \E F : SumsUp(F, f) /\ SumFunction(f) = F[DOMAIN f]
<1> DEFINE Fold == CHOOSE F : F = [T \in SUBSET DOMAIN f |-> SumStep(f, F, T)]
<1>1. \E F : F = [T \in SUBSET DOMAIN f |-> SumStep(f, F, T)]
  <2>1. PICK F \in [SUBSET DOMAIN f -> Int] :
          \A T \in SUBSET DOMAIN f : F[T] = SumStep(f, F, T)
    BY FoldExists
  <2>2. F = [T \in SUBSET DOMAIN f |-> SumStep(f, F, T)]
    BY <2>1
  <2> QED
    BY <2>2
<1>2. Fold = [T \in SUBSET DOMAIN f |-> SumStep(f, Fold, T)]
  BY <1>1, Zenon
<1>3. SumFunction(f) = Fold[DOMAIN f]
  BY SumUnfolds, Zenon
<1> HIDE DEF Fold
<1>4. SumsUp(Fold, f)
  <2>1. \A T \in SUBSET DOMAIN f : Fold[T] = SumStep(f, Fold, T)
    BY <1>2
  <2>2. Fold = [T \in SUBSET DOMAIN f |-> Fold[T]]
    BY <1>2
  <2> QED
    BY <2>1, <2>2, FoldSumsUp
<1> QED
  BY <1>3, <1>4

\* Functions that agree on a set have the same sum over it.
LEMMA SumsAgree ==
  ASSUME NEW f, NEW g, NEW F, NEW G, SumsUp(F, f), SumsUp(G, g),
         NEW S, IsFiniteSet(S), S \subseteq DOMAIN f, S \subseteq DOMAIN g,
         \A x \in S : f[x] = g[x]
  PROVE  F[S] = G[S]
<1> DEFINE Bad == {T \in SUBSET S : F[T] # G[T]}
<1> SUFFICES ASSUME Bad # {} PROVE FALSE
  OBVIOUS
<1>1. PICK T \in Bad : \A x \in T : T \ {x} \notin Bad
  BY SmallestSet
<1>2. T # {}
  BY <1>1 DEF SumsUp
<1>3. PICK x : x \in T
  BY <1>2
<1>4. F[T] = f[x] + F[T \ {x}] /\ G[T] = g[x] + G[T \ {x}]
  BY <1>1, <1>3 DEF SumsUp
<1>5. F[T \ {x}] = G[T \ {x}]
  BY <1>1, <1>3
<1> QED
  BY <1>1, <1>3, <1>4, <1>5

\* A sum of zeros is zero.
LEMMA ZeroSum ==
  ASSUME NEW f, NEW F, SumsUp(F, f), NEW S, IsFiniteSet(S), S \subseteq DOMAIN f,
         \A x \in S : f[x] = 0
  PROVE  F[S] = 0
<1> DEFINE Bad == {T \in SUBSET S : F[T] # 0}
<1> SUFFICES ASSUME Bad # {} PROVE FALSE
  OBVIOUS
<1>1. PICK T \in Bad : \A x \in T : T \ {x} \notin Bad
  BY SmallestSet
<1>2. T # {}
  BY <1>1 DEF SumsUp
<1>3. PICK x : x \in T
  BY <1>2
<1>4. F[T] = f[x] + F[T \ {x}] /\ F[T \ {x}] = 0
  BY <1>1, <1>3 DEF SumsUp
<1> QED
  BY <1>1, <1>3, <1>4

\* A sum of up to three terms, the first of which is there.
LEMMA SumOfThree ==
  ASSUME NEW f, NEW a, NEW b, NEW c, a # b, a # c, b # c,
         a \in DOMAIN f, DOMAIN f \subseteq {a, b, c}, \A x \in DOMAIN f : f[x] \in Int
  PROVE  SumFunction(f) = f[a] + ((IF b \in DOMAIN f THEN f[b] ELSE 0)
                                  + IF c \in DOMAIN f THEN f[c] ELSE 0)
<1>1. IsFiniteSet(DOMAIN f)
  <2>1. IsFiniteSet({a, b, c})
    <3>1. IsFiniteSet({a} \cup {b})
      BY FS_Singleton, FS_AddElement
    <3>2. IsFiniteSet(({a} \cup {b}) \cup {c})
      BY <3>1, FS_AddElement
    <3>3. {a, b, c} = ({a} \cup {b}) \cup {c}
      OBVIOUS
    <3> QED
      BY <3>2, <3>3
  <2> QED
    BY <2>1, FS_Subset
<1>2. PICK F : SumsUp(F, f) /\ SumFunction(f) = F[DOMAIN f]
  BY <1>1, SumIsSum
<1> DEFINE D == DOMAIN f
           E == D \ {a}
<1>3. F[D] = f[a] + F[E]
  BY <1>2 DEF SumsUp
<1>4. F[E] = (IF b \in D THEN f[b] ELSE 0) + F[E \ {b}]
  <2>1. CASE b \in D
    BY <2>1, <1>2 DEF SumsUp
  <2>2. CASE b \notin D
    <3>1. E \ {b} = E /\ F[E] \in Int
      BY <2>2, <1>2 DEF SumsUp
    <3> QED
      BY <2>2, <3>1
  <2> QED
    BY <2>1, <2>2
<1>5. F[E \ {b}] = IF c \in D THEN f[c] ELSE 0
  <2>1. CASE c \in D
    <3>1. (E \ {b}) \ {c} = {}
      OBVIOUS
    <3>2. F[E \ {b}] = f[c] + F[{}]
      BY <2>1, <3>1, <1>2 DEF SumsUp
    <3> QED
      BY <2>1, <3>2, <1>2 DEF SumsUp
  <2>2. CASE c \notin D
    <3>1. E \ {b} = {}
      BY <2>2
    <3> QED
      BY <2>2, <3>1, <1>2 DEF SumsUp
  <2> QED
    BY <2>1, <2>2
<1> QED
  BY <1>2, <1>3, <1>4, <1>5

-------------------------------------------------------------------------------
(***************************************************************************)
(* The tiers of io2: TierQuantity charges each provisioned IOPS once, in   *)
(* the tier that holds it.                                                 *)
(***************************************************************************)

\* The n-th provisioned IOPS falls into the tier.
Holds(tier, n) == tier.begin < n /\ (tier.open \/ n <= tier.end)

\* It falls into one.
LEMMA OneTier ==
  ASSUME NEW tiers, IsTiers(tiers), NEW n \in Nat \ {0}
  PROVE  /\ TierOf(n, tiers) \in tiers /\ Holds(TierOf(n, tiers), n)
         /\ \A u \in tiers : Holds(u, n) => u = TierOf(n, tiers)
<1> DEFINE gaps == {n - t.begin : t \in {u \in tiers : u.begin < n}}
<1>1. \A t \in tiers : t.begin \in Nat /\ t.end \in Nat
  BY DEF IsTiers
<1>2. PICK t \in tiers : t.begin < n /\ \A u \in tiers : u.begin < n => u.begin <= t.begin
  <2>1. gaps \in SUBSET Nat
    BY <1>1
  <2>2. PICK z \in tiers : z.begin = 0
    BY DEF IsTiers
  <2>3. n - z.begin \in gaps
    BY <2>2
  <2>4. PICK k \in gaps : \A j \in gaps : k <= j
    <3> HIDE DEF gaps
    <3> QED
      BY <2>1, <2>3, LeastExists
  <2>5. PICK t \in tiers : t.begin < n /\ k = n - t.begin
    BY <2>4
  <2>6. ASSUME NEW u \in tiers, u.begin < n PROVE u.begin <= t.begin
    <3>1. n - u.begin \in gaps
      BY <2>6
    <3>2. n - t.begin <= n - u.begin
      BY <2>4, <2>5, <3>1
    <3> QED
      BY <3>2, <1>1
  <2> QED
    BY <2>5, <2>6
<1>3. Holds(t, n)
  <2> SUFFICES ASSUME ~t.open, t.end < n PROVE FALSE
    BY <1>1, <1>2 DEF Holds
  <2>1. PICK u \in tiers : u.begin = t.end /\ t.begin < t.end
    BY DEF IsTiers
  <2> QED
    BY <1>1, <1>2, <2>1
<1>4. ASSUME NEW u \in tiers, NEW v \in tiers, Holds(u, n), Holds(v, n), u # v, u.begin <= v.begin
      PROVE  FALSE
  <2>1. ~u.open /\ u.end <= v.begin
    BY <1>4 DEF IsTiers
  <2> QED
    BY <1>1, <1>4, <2>1 DEF Holds
<1>5. \A u, v \in tiers : Holds(u, n) /\ Holds(v, n) => u = v
  <2> SUFFICES ASSUME NEW u \in tiers, NEW v \in tiers, Holds(u, n), Holds(v, n), u # v
               PROVE  FALSE
    OBVIOUS
  <2>1. u.begin <= v.begin \/ v.begin <= u.begin
    BY <1>1
  <2> QED
    BY <2>1, <1>4
<1>6. TierOf(n, tiers) \in tiers /\ Holds(TierOf(n, tiers), n)
  BY <1>3 DEF TierOf, Holds
<1> QED
  BY <1>5, <1>6

\* One IOPS more is one more in its tier and none in the others.
LEMMA TierGrows ==
  ASSUME NEW tiers, IsTiers(tiers), NEW n \in Nat, NEW t \in tiers
  PROVE  /\ TierQuantity(0, t) = 0 /\ TierQuantity(n, t) \in Nat
         /\ Holds(t, n + 1) => TierQuantity(n + 1, t) = TierQuantity(n, t) + 1
         /\ ~Holds(t, n + 1) => TierQuantity(n + 1, t) = TierQuantity(n, t)
<1>1. t.begin \in Nat /\ t.end \in Nat /\ t.open \in BOOLEAN
  BY DEF IsTiers
<1>2. CASE t.open
  BY <1>1, <1>2 DEF TierQuantity, AtLeastZero, Holds
<1>3. CASE ~t.open
  <2>1. t.begin < t.end
    BY <1>3 DEF IsTiers
  <2> QED
    BY <1>1, <1>3, <2>1 DEF TierQuantity, AtLeastZero, Holds, Least
<1> QED
  BY <1>2, <1>3

\* What the tiers charge for n IOPS.
Charged(tiers, n) == [t \in tiers |-> TierQuantity(n, t) * t.price]

\* It is a sum over finitely many integers.
LEMMA ChargedIsInt ==
  ASSUME NEW tiers, IsTiers(tiers), NEW n \in Nat
  PROVE  /\ IsFiniteSet(DOMAIN Charged(tiers, n))
         /\ \A t \in DOMAIN Charged(tiers, n) : Charged(tiers, n)[t] \in Int
<1>1. \A t \in tiers : t.price \in Int /\ TierQuantity(n, t) \in Nat
  BY TierGrows DEF IsTiers
<1>2. \A q \in Nat, p \in Int : q * p \in Int
  OBVIOUS
<1>3. \A t \in tiers : TierQuantity(n, t) * t.price \in Int
  BY <1>1, <1>2
<1> QED
  BY <1>3 DEF Charged, IsTiers

\* The tiers charge one IOPS more at the price of its tier.
LEMMA ChargeGrows ==
  ASSUME NEW tiers, IsTiers(tiers), NEW n \in Nat
  PROVE  SumFunction(Charged(tiers, n + 1))
           = TierOf(n + 1, tiers).price + SumFunction(Charged(tiers, n))
<1> DEFINE t == TierOf(n + 1, tiers)
           f == Charged(tiers, n)
           g == Charged(tiers, n + 1)
           others == tiers \ {t}
<1>1. t \in tiers /\ Holds(t, n + 1) /\ \A u \in others : ~Holds(u, n + 1)
  BY OneTier
<1> HIDE DEF t
<1>2. DOMAIN f = tiers /\ DOMAIN g = tiers /\ IsFiniteSet(tiers)
  BY DEF Charged, IsTiers
<1>3. PICK F : SumsUp(F, f) /\ SumFunction(f) = F[tiers]
  BY <1>2, ChargedIsInt, SumIsSum
<1>4. PICK G : SumsUp(G, g) /\ SumFunction(g) = G[tiers]
  BY <1>2, ChargedIsInt, SumIsSum
<1>5. F[others] = G[others]
  <2>1. \A u \in others : f[u] = g[u]
    BY <1>1, TierGrows DEF Charged
  <2>2. IsFiniteSet(others)
    BY <1>2, FS_RemoveElement
  <2> HIDE DEF f, g
  <2> QED
    BY <1>2, <1>3, <1>4, <2>1, <2>2, SumsAgree
<1>6. g[t] = t.price + f[t]
  <2>1. TierQuantity(n + 1, t) = TierQuantity(n, t) + 1 /\ TierQuantity(n, t) \in Nat
    BY <1>1, TierGrows
  <2>2. t.price \in Int
    BY <1>1 DEF IsTiers
  <2>3. \A q \in Nat, p \in Int : (q + 1) * p = p + q * p
    OBVIOUS
  <2>4. (TierQuantity(n, t) + 1) * t.price = t.price + TierQuantity(n, t) * t.price
    BY <2>1, <2>2, <2>3
  <2> QED
    BY <1>1, <2>1, <2>4 DEF Charged
<1>7. f[t] \in Int /\ t.price \in Int /\ F[others] \in Int
  BY <1>1, <1>2, <1>3, ChargedIsInt DEF SumsUp, IsTiers
<1> HIDE DEF f, g
<1>8. F[tiers] = f[t] + F[others] /\ G[tiers] = g[t] + G[others]
  BY <1>1, <1>2, <1>3, <1>4 DEF SumsUp
<1> QED
  BY <1>3, <1>4, <1>5, <1>6, <1>7, <1>8 DEF f, g, t

\* The tiers charge what each IOPS costs in its tier.
LEMMA TiersChargeEach ==
  ASSUME NEW tiers, IsTiers(tiers), NEW iops \in Nat
  PROVE  /\ SumFunction(Charged(tiers, iops)) = SumFunction([n \in 1..iops |-> TierOf(n, tiers).price])
         /\ SumFunction(Charged(tiers, iops)) \in Int
<1> DEFINE each == [n \in 1..iops |-> TierOf(n, tiers).price]
<1>1. IsFiniteSet(1..iops) /\ DOMAIN each = 1..iops
  BY FS_Interval
<1>2. \A n \in 1..iops : each[n] \in Int /\ each[n] = TierOf(n, tiers).price
  <2>1. \A n \in 1..iops : TierOf(n, tiers) \in tiers
    BY OneTier
  <2> QED
    BY <2>1 DEF IsTiers
<1> HIDE DEF each
<1>3. PICK R : SumsUp(R, each) /\ SumFunction(each) = R[1..iops]
  BY <1>1, <1>2, SumIsSum
<1> DEFINE Wrong == {n \in 0..iops : SumFunction(Charged(tiers, n)) # R[1..n]}
<1>4. SumFunction(Charged(tiers, 0)) = R[1..0]
  <2>1. 1..0 = {}
    OBVIOUS
  <2>2. R[1..0] = 0
    BY <1>3, <2>1 DEF SumsUp
  <2>3. PICK F : SumsUp(F, Charged(tiers, 0))
                 /\ SumFunction(Charged(tiers, 0)) = F[DOMAIN Charged(tiers, 0)]
    BY ChargedIsInt, SumIsSum
  <2>4. \A t \in DOMAIN Charged(tiers, 0) : Charged(tiers, 0)[t] = 0
    <3>1. \A t \in tiers : TierQuantity(0, t) = 0 /\ t.price \in Int
      BY TierGrows DEF IsTiers
    <3>2. \A p \in Int : 0 * p = 0
      OBVIOUS
    <3> QED
      BY <3>1, <3>2 DEF Charged
  <2>5. F[DOMAIN Charged(tiers, 0)] = 0
    BY <2>3, <2>4, ChargedIsInt, ZeroSum
  <2> QED
    BY <2>2, <2>3, <2>5
<1>5. ASSUME NEW n \in 0 .. iops - 1, SumFunction(Charged(tiers, n)) = R[1..n]
      PROVE  SumFunction(Charged(tiers, n + 1)) = R[1..n + 1]
  <2>1. (1..n + 1) \ {n + 1} = 1..n /\ n + 1 \in 1..n + 1 /\ 1..n + 1 \in SUBSET (1..iops)
    OBVIOUS
  <2>2. R[1..n + 1] = each[n + 1] + R[(1..n + 1) \ {n + 1}]
    <3>1. \A T \in SUBSET (1..iops) : \A x \in T : R[T] = each[x] + R[T \ {x}]
      BY <1>1, <1>3 DEF SumsUp
    <3> QED
      BY <2>1, <3>1, Zenon
  <2>3. n + 1 \in 1..iops /\ n \in Nat
    OBVIOUS
  <2>4. SumFunction(Charged(tiers, n + 1)) = TierOf(n + 1, tiers).price + SumFunction(Charged(tiers, n))
    BY <2>3, ChargeGrows
  <2>5. each[n + 1] = TierOf(n + 1, tiers).price
    BY <1>2, <2>3
  <2>6. R[(1..n + 1) \ {n + 1}] = R[1..n]
    BY <2>1
  <2> QED
    BY <1>5, <2>2, <2>4, <2>5, <2>6
<1>6. Wrong = {}
  <2> SUFFICES ASSUME NEW w \in Wrong PROVE FALSE
    OBVIOUS
  <2>1. PICK k \in Wrong : \A j \in Wrong : k <= j
    <3>1. Wrong \in SUBSET Nat
      OBVIOUS
    <3> HIDE DEF Wrong
    <3> QED
      BY <3>1, LeastExists
  <2>2. k # 0
    BY <1>4, <2>1
  <2>3. k - 1 \in 0 .. iops - 1 /\ k - 1 \notin Wrong /\ (k - 1) + 1 = k
    BY <2>1, <2>2
  <2>4. SumFunction(Charged(tiers, k - 1)) = R[1..k - 1]
    BY <2>3
  <2>5. SumFunction(Charged(tiers, (k - 1) + 1)) = R[1..(k - 1) + 1]
    <3> HIDE DEF Wrong
    <3> QED
      BY <2>3, <2>4, <1>5
  <2> QED
    BY <2>1, <2>3, <2>5
<1>7. SumFunction(Charged(tiers, iops)) = R[1..iops]
  <2>1. iops \in 0..iops
    OBVIOUS
  <2> QED
    BY <1>6, <2>1
<1>8. R[1..iops] \in Int
  BY <1>1, <1>3 DEF SumsUp
<1> QED
  BY <1>3, <1>7, <1>8 DEF each

-------------------------------------------------------------------------------
(***************************************************************************)
(* What a volume and a request cost.                                       *)
(***************************************************************************)

\* A product with the price of a unit, in either order.
LEMMA Products == \A q \in Nat, p \in Int : q * p \in Int /\ q * p = p * q /\ 0 * p = 0
OBVIOUS

\* The arithmetic of the sums below.
LEMMA Sums ==
  /\ \A a, b \in Int : a + b \in Int /\ a - b \in Int /\ a + 0 = a
  /\ 0 + 0 = 0
  /\ \A n \in Int : AtLeastZero(n) \in Nat
  /\ \A n \in Nat : n \in Int /\ (~(n > 0) => n = 0)
<1>1. \A a, b \in Int : a + b \in Int /\ a - b \in Int /\ a + 0 = a
  OBVIOUS
<1>2. \A n \in Int : AtLeastZero(n) \in Nat
  BY DEF AtLeastZero
<1>3. \A n \in Nat : n \in Int /\ (~(n > 0) => n = 0)
  OBVIOUS
<1>4. 0 + 0 = 0
  OBVIOUS
<1> QED
  BY <1>1, <1>2, <1>3, <1>4

\* The unit of a type's storage is no other unit.
LEMMA StorageUnits ==
  \A t \in VolumeType :
    Storage[t] \in {"gp2 storage", "gp3 storage", "io1 storage", "io2 storage", "gp9 storage"}
<1>1. VolumeType = {"gp2", "gp3", "io1", "io2", "gp9"}
  BY DEF VolumeType, Storage
<1>2. /\ Storage["gp2"] = "gp2 storage" /\ Storage["gp3"] = "gp3 storage"
      /\ Storage["io1"] = "io1 storage" /\ Storage["io2"] = "io2 storage"
      /\ Storage["gp9"] = "gp9 storage"
  BY DEF Storage
<1> QED
  BY <1>1, <1>2

\* The units above the included ones.
LEMMA CountAbove ==
  ASSUME NEW n \in Nat, NEW m \in Nat
  PROVE  Cardinality({k \in 1..n : k > m}) = AtLeastZero(n - m) /\ AtLeastZero(n - m) \in Nat
<1>1. {k \in 1..n : k > m} = (m + 1) .. n
  OBVIOUS
<1>2. m + 1 \in Int /\ n \in Int
  OBVIOUS
<1>3. Cardinality((m + 1) .. n) = IF m + 1 > n THEN 0 ELSE n - (m + 1) + 1
  BY <1>2, FS_Interval
<1>4. AtLeastZero(n - m) = IF m + 1 > n THEN 0 ELSE n - (m + 1) + 1
  BY DEF AtLeastZero
<1>5. AtLeastZero(n - m) \in Nat
  BY DEF AtLeastZero
<1> QED
  BY <1>1, <1>3, <1>4, <1>5

\* The unit prices of a volume, tiers aside, and what the methodology charges.
LEMMA UnitsCharged ==
  ASSUME NEW v \in VolumeRequest, NEW price, IsTable(price), VolumeNeeds(v) \subseteq DOMAIN price,
         v.type = "gp3" => {"gp3 iops", "gp3 throughput"} \subseteq DOMAIN price
  PROVE  LET cost == SumFunction([u \in VolumeNeeds(v) \ {"io2 tiers"} |-> Quantity(v, u) * price[u]])
             store == v.size * price[Storage[v.type]]
         IN /\ cost \in Int /\ store \in Int
            /\ v.type = "gp3" =>
                 cost = store + (price["gp3 iops"] * AtLeastZero(v.iops - Gp3Iops)
                        + price["gp3 throughput"] * AtLeastZero(v.throughput - Gp3Throughput))
            /\ v.type = "io1" => cost = store + price["io1 iops"] * v.iops
            /\ v.type \notin {"gp3", "io1"} => cost = store
<1> DEFINE units == VolumeNeeds(v) \ {"io2 tiers"}
           f == [u \in units |-> Quantity(v, u) * price[u]]
           store == Storage[v.type]
<1>1. /\ v.type \in {"gp2", "gp3", "io1", "io2", "gp9"}
      /\ v.size \in Nat /\ v.iops \in Nat /\ v.throughput \in Nat
  BY DEF VolumeRequest, VolumeType, Storage
<1>2. /\ AtLeastZero(v.iops - Gp3Iops) \in Nat
      /\ AtLeastZero(v.throughput - Gp3Throughput) \in Nat
  <2>1. v.iops - Gp3Iops \in Int /\ v.throughput - Gp3Throughput \in Int
    BY <1>1, CalculatorAssumption, Sums, Zenon
  <2> QED
    BY <2>1, Sums, Zenon
<1>3. \A u \in units : Quantity(v, u) \in Nat /\ price[u] \in Int
  <2>1. \A u \in units : Quantity(v, u) \in Nat
    BY <1>1, <1>2 DEF Quantity
  <2> QED
    BY <2>1 DEF IsTable
<1>4. \A u \in units : f[u] \in Int
  BY <1>3, Products
<1>5. /\ store \in units
      /\ store \notin {"gp3 iops", "gp3 throughput", "io1 iops", "io2 tiers"}
      /\ Quantity(v, store) = v.size
  <2>1. store \in {"gp2 storage", "gp3 storage", "io1 storage", "io2 storage", "gp9 storage"}
    BY StorageUnits DEF VolumeRequest
  <2>2. store \in TypeUnits(v.type)
    BY DEF TypeUnits
  <2> HIDE DEF store
  <2>3. Quantity(v, store) = v.size
    BY <2>1 DEF Quantity
  <2> QED
    BY <2>1, <2>2, <2>3 DEF VolumeNeeds
<1>6. f[store] = v.size * price[store] /\ f[store] \in Int
  BY <1>4, <1>5
<1>7. CASE v.type = "gp3"
  <2> DEFINE iops == AtLeastZero(v.iops - Gp3Iops)
             through == AtLeastZero(v.throughput - Gp3Throughput)
  <2>1. units \subseteq {store, "gp3 iops", "gp3 throughput"}
    BY <1>7 DEF VolumeNeeds, TypeUnits
  <2>2. price["gp3 iops"] \in Int /\ price["gp3 throughput"] \in Int
    BY <1>7 DEF IsTable
  <2>3. (IF "gp3 iops" \in units THEN f["gp3 iops"] ELSE 0) = price["gp3 iops"] * iops
    <3>1. Quantity(v, "gp3 iops") = iops
      BY DEF Quantity
    <3>2. "gp3 iops" \in units <=> iops > 0
      BY <1>7, <3>1 DEF VolumeNeeds, TypeUnits
    <3>3. iops * price["gp3 iops"] = price["gp3 iops"] * iops /\ price["gp3 iops"] * 0 = 0
      BY <1>2, <2>2, Products
    <3>4. iops \in Nat
      BY <1>2
    <3> HIDE DEF units, iops
    <3>5. ~(iops > 0) => iops = 0
      BY <3>4, Sums, Zenon
    <3> QED
      BY <3>1, <3>2, <3>3, <3>5
  <2>4. (IF "gp3 throughput" \in units THEN f["gp3 throughput"] ELSE 0)
        = price["gp3 throughput"] * through
    <3>1. Quantity(v, "gp3 throughput") = through
      BY DEF Quantity
    <3>2. "gp3 throughput" \in units <=> through > 0
      BY <1>7, <3>1 DEF VolumeNeeds, TypeUnits
    <3>3. /\ through * price["gp3 throughput"] = price["gp3 throughput"] * through
          /\ price["gp3 throughput"] * 0 = 0
      BY <1>2, <2>2, Products
    <3>4. through \in Nat
      BY <1>2
    <3> HIDE DEF units, through
    <3>5. ~(through > 0) => through = 0
      BY <3>4, Sums, Zenon
    <3> QED
      BY <3>1, <3>2, <3>3, <3>5
  <2>5. price["gp3 iops"] * iops \in Int /\ price["gp3 throughput"] * through \in Int
    BY <1>2, <2>2, Products
  <2>6. SumFunction(f) = f[store] + ((IF "gp3 iops" \in units THEN f["gp3 iops"] ELSE 0)
                           + IF "gp3 throughput" \in units THEN f["gp3 throughput"] ELSE 0)
    <3>1. DOMAIN f = units
      OBVIOUS
    <3> HIDE DEF units, f, store
    <3> QED
      BY <3>1, <1>4, <1>5, <2>1, SumOfThree
  <2>7. SumFunction(f) = f[store] + (price["gp3 iops"] * iops + price["gp3 throughput"] * through)
    BY <2>3, <2>4, <2>6
  <2>8. f[store] + (price["gp3 iops"] * iops + price["gp3 throughput"] * through) \in Int
    BY <1>6, <2>5, Sums, Zenon
  <2> QED
    BY <1>6, <1>7, <2>7, <2>8, Zenon
<1>8. CASE v.type = "io1"
  <2>1. units = {store, "io1 iops"}
    BY <1>8, <1>5 DEF VolumeNeeds, TypeUnits
  <2>2. Quantity(v, "io1 iops") = v.iops
    BY DEF Quantity
  <2>3. f["io1 iops"] = price["io1 iops"] * v.iops /\ f["io1 iops"] \in Int
    <3>1. price["io1 iops"] \in Int
      BY <1>3, <2>1
    <3> QED
      BY <1>1, <2>1, <2>2, <3>1, Products
  <2>4. SumFunction(f) = f[store] + ((IF "io1 iops" \in units THEN f["io1 iops"] ELSE 0)
                           + IF "gp3 iops" \in units THEN f["gp3 iops"] ELSE 0)
    <3>1. DOMAIN f = units
      OBVIOUS
    <3> HIDE DEF units, f, store
    <3> QED
      BY <3>1, <1>4, <1>5, <2>1, SumOfThree
  <2>5. "io1 iops" \in units /\ "gp3 iops" \notin units
    BY <2>1, <1>5
  <2>6. SumFunction(f) = f[store] + price["io1 iops"] * v.iops
    <3>1. f["io1 iops"] + 0 = f["io1 iops"]
      BY <2>3, Sums, Zenon
    <3> QED
      BY <2>3, <2>4, <2>5, <3>1, Zenon
  <2>7. f[store] + price["io1 iops"] * v.iops \in Int
    <3>1. price["io1 iops"] * v.iops \in Int
      BY <2>3
    <3> QED
      BY <1>6, <3>1, Sums, Zenon
  <2>8. v.type # "gp3"
    BY <1>8
  <2> QED
    BY <1>6, <1>8, <2>6, <2>7, <2>8, Zenon
<1>9. CASE v.type \notin {"gp3", "io1"}
  <2>1. units = {store}
    BY <1>1, <1>9, <1>5 DEF VolumeNeeds, TypeUnits
  <2>2. SumFunction(f) = f[store] + ((IF "io1 iops" \in units THEN f["io1 iops"] ELSE 0)
                           + IF "gp3 iops" \in units THEN f["gp3 iops"] ELSE 0)
    <3>1. DOMAIN f = units
      OBVIOUS
    <3> HIDE DEF units, f, store
    <3> QED
      BY <3>1, <1>4, <1>5, <2>1, SumOfThree
  <2>3. "io1 iops" \notin units /\ "gp3 iops" \notin units
    BY <2>1, <1>5
  <2>4. f[store] + (0 + 0) = f[store]
    BY <1>6, Sums, Zenon
  <2>5. SumFunction(f) = f[store]
    BY <2>2, <2>3, <2>4, Zenon
  <2> QED
    BY <1>6, <1>9, <2>5
<1> QED
  BY <1>7, <1>8, <1>9

\* Each provisioned unit counts once.
LEMMA CountAll == ASSUME NEW n \in Nat PROVE Cardinality(1..n) = n
<1>1. 1 \in Int /\ n \in Int
  OBVIOUS
<1>2. Cardinality(1..n) = IF 1 > n THEN 0 ELSE n - 1 + 1
  BY <1>1, FS_Interval
<1> QED
  BY <1>2

\* A table knows every price of a volume.
Prices(v, price) ==
  /\ IsTable(price) /\ VolumeNeeds(v) \subseteq DOMAIN price
  /\ v.type = "gp3" => {"gp3 iops", "gp3 throughput"} \subseteq DOMAIN price

\* A volume costs what the methodology says.
LEMMA VolumeCosts ==
  ASSUME NEW v \in VolumeRequest, NEW price, Prices(v, price)
  PROVE  VolumeCost(v, price) = VolumeMethodology(v, price) /\ VolumeCost(v, price) \in Int
<1> DEFINE units == SumFunction([u \in VolumeNeeds(v) \ {"io2 tiers"} |-> Quantity(v, u) * price[u]])
           store == v.size * price[Storage[v.type]]
<1>1. /\ v.type \in {"gp2", "gp3", "io1", "io2", "gp9"}
      /\ v.size \in Nat /\ v.iops \in Nat /\ v.throughput \in Nat
  BY DEF VolumeRequest, VolumeType, Storage
<1>2. /\ units \in Int /\ store \in Int
      /\ v.type = "gp3" =>
           units = store + (price["gp3 iops"] * AtLeastZero(v.iops - Gp3Iops)
                  + price["gp3 throughput"] * AtLeastZero(v.throughput - Gp3Throughput))
      /\ v.type = "io1" => units = store + price["io1 iops"] * v.iops
      /\ v.type \notin {"gp3", "io1"} => units = store
  BY UnitsCharged, Zenon DEF Prices
<1> HIDE DEF units
<1>3. v.type # "io2" => VolumeCost(v, price) = units + 0
  BY DEF VolumeCost, units
<1>4. CASE v.type = "gp3"
  <2>1. /\ Cardinality({n \in 1..v.iops : n > Gp3Iops}) = AtLeastZero(v.iops - Gp3Iops)
        /\ Cardinality({n \in 1..v.throughput : n > Gp3Throughput})
           = AtLeastZero(v.throughput - Gp3Throughput)
    BY <1>1, CountAbove, CalculatorAssumption, Zenon
  <2>2. VolumeMethodology(v, price) = store
          + (price["gp3 iops"] * AtLeastZero(v.iops - Gp3Iops)
             + price["gp3 throughput"] * AtLeastZero(v.throughput - Gp3Throughput))
    BY <1>4, <2>1, Zenon DEF VolumeMethodology
  <2>3. v.type # "io2"
    BY <1>4
  <2> QED
    BY <1>2, <1>3, <1>4, <2>2, <2>3, Sums, Zenon
<1>5. CASE v.type = "io1"
  <2>1. Cardinality(1..v.iops) = v.iops
    BY <1>1, CountAll, Zenon
  <2>2. v.type # "gp3" /\ v.type # "io2"
    BY <1>5
  <2>3. VolumeMethodology(v, price) = store + price["io1 iops"] * v.iops
    BY <1>5, <2>1, <2>2, Zenon DEF VolumeMethodology
  <2> QED
    BY <1>2, <1>3, <1>5, <2>2, <2>3, Sums, Zenon
<1>6. CASE v.type = "io2"
  <2> DEFINE tiers == price["io2 tiers"]
  <2>1. "io2 tiers" \in VolumeNeeds(v)
    BY <1>6 DEF VolumeNeeds, TypeUnits
  <2>2. IsTiers(tiers)
    BY <2>1 DEF Prices, IsTable
  <2> HIDE DEF tiers
  <2>3. /\ SumFunction(Charged(tiers, v.iops))
           = SumFunction([n \in 1..v.iops |-> TierOf(n, tiers).price])
        /\ SumFunction(Charged(tiers, v.iops)) \in Int
    BY <1>1, <2>2, TiersChargeEach, Zenon
  <2>4. VolumeCost(v, price) = units + SumFunction(Charged(tiers, v.iops))
    BY <1>6, Zenon DEF VolumeCost, Charged, units, tiers
  <2>5. v.type # "gp3" /\ v.type # "io1"
    BY <1>6
  <2>6. VolumeMethodology(v, price) = store + SumFunction([n \in 1..v.iops |-> TierOf(n, tiers).price])
    BY <1>6, <2>5, Zenon DEF VolumeMethodology, tiers
  <2>7. units = store
    BY <1>2, <1>6
  <2> QED
    BY <1>2, <2>3, <2>4, <2>6, <2>7, Sums, Zenon
<1>7. CASE v.type \notin {"gp3", "io1", "io2"}
  <2>1. VolumeMethodology(v, price) = store + 0
    BY <1>7 DEF VolumeMethodology
  <2> QED
    BY <1>2, <1>3, <1>7, <2>1, Sums
<1> QED
  BY <1>4, <1>5, <1>6, <1>7

\* A table knows every price a request is charged for, and the whole of a type.
PricesAll(r, price) ==
  /\ IsTable(price) /\ Needs(r) \subseteq DOMAIN price /\ "public ipv4" \in DOMAIN price
  /\ "gp3 storage" \in DOMAIN price => {"gp3 iops", "gp3 throughput"} \subseteq DOMAIN price

\* docs/pricing.md, the calculations: calculate() sums up the methodology's charges,
\* each provisioned unit at the price that applies to it, whatever the volumes, the
\* tiers and the table, as long as the table knows what the request is charged for.
THEOREM CalculatorIsMethodology ==
  ASSUME NEW r, WellFormed(r), NEW price, PricesAll(r, price)
  PROVE  Calculate(r, price) = Methodology(r, price) /\ Calculate(r, price) \in Int
<1>1. /\ r.volumes \in Seq(VolumeRequest) /\ r.addresses \in Nat /\ r.size \in Nat
      /\ r.kind \in {"ebs", "elastic_ip", "stopped", "snapshot"}
  BY DEF WellFormed
<1>2. CASE r.kind = "snapshot"
  <2>1. SnapshotUnit(r) \in DOMAIN price /\ SnapshotUnit(r) # "io2 tiers"
    BY <1>2 DEF PricesAll, Needs, SnapshotUnit
  <2>2. price[SnapshotUnit(r)] \in Int
    BY <2>1 DEF PricesAll, IsTable
  <2>3. r.size * price[SnapshotUnit(r)] \in Int
    BY <1>1, <2>2, Products
  <2>4. Calculate(r, price) = r.size * price[SnapshotUnit(r)]
    BY <1>2 DEF Calculate
  <2>5. Methodology(r, price) = r.size * price[SnapshotUnit(r)]
    BY <1>2 DEF Methodology, SnapshotUnit
  <2> QED
    BY <2>3, <2>4, <2>5
<1>3. CASE r.kind # "snapshot"
  <2> DEFINE costs == [i \in DOMAIN r.volumes |-> VolumeCost(r.volumes[i], price)]
  <2>1. \A i \in DOMAIN r.volumes : r.volumes[i] \in VolumeRequest
    BY <1>1
  <2>2. \A i \in DOMAIN r.volumes : Prices(r.volumes[i], price)
    <3> SUFFICES ASSUME NEW i \in DOMAIN r.volumes PROVE Prices(r.volumes[i], price)
      OBVIOUS
    <3>1. VolumeNeeds(r.volumes[i]) \subseteq Needs(r)
      BY <1>3 DEF Needs
    <3>2. r.volumes[i].type = "gp3" => "gp3 storage" \in VolumeNeeds(r.volumes[i])
      BY DEF VolumeNeeds, TypeUnits, Storage
    <3> QED
      BY <3>1, <3>2 DEF PricesAll, Prices
  <2>3. \A i \in DOMAIN r.volumes :
          /\ VolumeCost(r.volumes[i], price) = VolumeMethodology(r.volumes[i], price)
          /\ VolumeCost(r.volumes[i], price) \in Int
    BY <2>1, <2>2, VolumeCosts
  <2>4. costs = [i \in DOMAIN r.volumes |-> VolumeMethodology(r.volumes[i], price)]
    BY <2>3
  <2>5. SumFunction(costs) \in Int
    <3>1. IsFiniteSet(DOMAIN costs)
      <4>1. Len(r.volumes) \in Nat /\ DOMAIN costs = 1 .. Len(r.volumes)
        BY <1>1
      <4> QED
        BY <4>1, FS_Interval
    <3>2. \A i \in DOMAIN costs : costs[i] \in Int
      BY <2>3
    <3> HIDE DEF costs
    <3>3. PICK F : SumsUp(F, costs) /\ SumFunction(costs) = F[DOMAIN costs]
      BY <3>1, <3>2, SumIsSum
    <3> QED
      BY <3>3 DEF SumsUp
  <2> DEFINE addresses == IF r.addresses > 0 THEN r.addresses * Hours * price["public ipv4"] ELSE 0
  <2>6. price["public ipv4"] \in Int
    BY DEF PricesAll, IsTable
  <2>7. \A n, h \in Nat, p \in Int :
          n * h * p \in Int /\ (IF n > 0 THEN n * h * p ELSE 0) = n * h * p
    <3>1. \A n, h \in Nat : n * h \in Nat /\ (~(n > 0) => n * h = 0)
      OBVIOUS
    <3>2. \A m \in Nat, p \in Int : m * p \in Int /\ 0 * p = 0
      OBVIOUS
    <3> QED
      BY <3>1, <3>2, Zenon
  <2>8. addresses = r.addresses * Hours * price["public ipv4"] /\ addresses \in Int
    <3>1. Hours \in Nat
      BY CalculatorAssumption
    <3>2. /\ r.addresses * Hours * price["public ipv4"] \in Int
          /\ (IF r.addresses > 0 THEN r.addresses * Hours * price["public ipv4"] ELSE 0)
             = r.addresses * Hours * price["public ipv4"]
      BY <1>1, <2>6, <2>7, <3>1, Zenon
    <3> QED
      BY <3>2, Zenon
  <2>9. Calculate(r, price) = SumFunction(costs) + addresses
    BY <1>3, Zenon DEF Calculate
  <2>10. Methodology(r, price) = SumFunction(costs) + r.addresses * Hours * price["public ipv4"]
    BY <1>3, <2>4, Zenon DEF Methodology
  <2> HIDE DEF costs, addresses
  <2> QED
    BY <2>5, <2>8, <2>9, <2>10, Sums, Zenon
<1> QED
  BY <1>2, <1>3

\* calculate() looks at no price the request does not need.
LEMMA OnlyNeedsMatter ==
  ASSUME NEW r, WellFormed(r), NEW p, NEW q, \A u \in Needs(r) : p[u] = q[u]
  PROVE  Calculate(r, p) = Calculate(r, q)
<1>1. CASE r.kind = "snapshot"
  <2>1. SnapshotUnit(r) \in Needs(r)
    BY <1>1 DEF Needs
  <2> QED
    BY <1>1, <2>1, Zenon DEF Calculate
<1>2. CASE r.kind # "snapshot"
  <2>1. ASSUME NEW i \in DOMAIN r.volumes
        PROVE  VolumeCost(r.volumes[i], p) = VolumeCost(r.volumes[i], q)
    <3> DEFINE v == r.volumes[i]
    <3>1. VolumeNeeds(v) \subseteq Needs(r)
      BY <1>2 DEF Needs
    <3> HIDE DEF v
    <3>2. [u \in VolumeNeeds(v) \ {"io2 tiers"} |-> Quantity(v, u) * p[u]]
          = [u \in VolumeNeeds(v) \ {"io2 tiers"} |-> Quantity(v, u) * q[u]]
      BY <3>1
    <3>3. v.type = "io2" => p["io2 tiers"] = q["io2 tiers"]
      <4>1. v.type = "io2" => "io2 tiers" \in VolumeNeeds(v)
        BY DEF VolumeNeeds, TypeUnits
      <4> QED
        BY <3>1, <4>1
    <3>4. VolumeCost(v, p) = VolumeCost(v, q)
      <4>1. CASE v.type = "io2"
        BY <3>2, <3>3, <4>1, Zenon DEF VolumeCost
      <4>2. CASE v.type # "io2"
        BY <3>2, <4>2, Zenon DEF VolumeCost
      <4> QED
        BY <4>1, <4>2
    <3> QED
      BY <3>4 DEF v
  <2>2. [i \in DOMAIN r.volumes |-> VolumeCost(r.volumes[i], p)]
        = [i \in DOMAIN r.volumes |-> VolumeCost(r.volumes[i], q)]
    BY <2>1, Zenon
  <2>3. CASE r.addresses > 0
    <3>1. p["public ipv4"] = q["public ipv4"]
      BY <1>2, <2>3 DEF Needs
    <3> QED
      BY <1>2, <2>2, <2>3, <3>1, Zenon DEF Calculate
  <2>4. CASE ~(r.addresses > 0)
    BY <1>2, <2>2, <2>4, Zenon DEF Calculate
  <2> QED
    BY <2>3, <2>4
<1> QED
  BY <1>1, <1>2

-------------------------------------------------------------------------------
(***************************************************************************)
(* The lookups.                                                            *)
(***************************************************************************)

\* What was loaded for q, at the time the payload tells.
LoadedFor(q, payload) ==
  /\ payload.at \in 0..MaxClock
  /\ payload.price = [u \in Loaded(q) |-> ListPrice[q.region][payload.at][u]]

\* A key names its region.
LEMMA KeyHasRegion ==
  ASSUME NEW r, NEW q, WellFormed(r), WellFormed(q), KeyOf(r) = KeyOf(q)
  PROVE  r.region = q.region
<1>1. KeyOf(r)[2] = r.region
  BY DEF KeyOf
<1>2. KeyOf(q)[2] = q.region
  BY DEF KeyOf
<1> QED
  BY <1>1, <1>2

\* The shape of the tables.
Shape ==
  /\ account \in Accounts /\ clock \in 0..MaxClock
  /\ DOMAIN row = Key
  /\ DOMAIN scan = Scan /\ DOMAIN estimate = Scan
  /\ \A s \in Scan : DOMAIN scan[s] = {"step", "request", "payload", "insert"}

\* A scan in the middle of an estimate has the request of some candidate.
AsksKnown ==
  \A s \in Scan :
    scan[s].step \in {"looking", "loading", "finding", "writing", "pricing", "falling"} =>
      scan[s].request \in Requests

\* What a scan is about to store was loaded for its request.
CarriesLoaded ==
  \A s \in Scan : scan[s].step \in {"finding", "writing"} =>
    LoadedFor(scan[s].request, scan[s].payload)

\* What was loaded for some request of the key.
LoadedUnder(key, payload) == \E q \in Requests : KeyOf(q) = key /\ LoadedFor(q, payload)

\* What is stored, and what a scan prices with, was loaded for a request of its key.
StoredLoaded == \A k \in Key : row[k] # NoValue => LoadedUnder(k, row[k].payload)
PricesLoaded ==
  \A s \in Scan : scan[s].step = "pricing" => LoadedUnder(KeyOf(scan[s].request), scan[s].payload)

\* An estimate is the methodology's, and there is one for what the shipped table knows.
Methodical(e) ==
  CASE e.source = "aws_pricing_api" ->
         e.cost = Methodology(e.request, ListPrice[e.request.region][e.timestamp])
    [] e.source = "fallback_table" ->
         e.cost = Methodology(e.request, FallbackTable(e.request.region))
    [] OTHER -> e.cost = NoValue
Priced(e) ==
  Mode # "disabled" =>
    (Needs(e.request) \subseteq DOMAIN FallbackTable(e.request.region) => e.cost # NoValue)
Estimated == \A s \in Scan : estimate[s] # NoValue => Methodical(estimate[s]) /\ Priced(estimate[s])

IInv == Shape /\ AsksKnown /\ CarriesLoaded /\ StoredLoaded /\ PricesLoaded /\ Estimated

-------------------------------------------------------------------------------
\* A volume is charged for units of its type only.
LEMMA VolumeNeedsOfType ==
  ASSUME NEW volume
  PROVE  VolumeNeeds(volume) \subseteq TypeUnits(volume.type)
BY DEF VolumeNeeds

\* A request is charged for nothing that is not loaded for it or for another
\* request of the same types and of an address when it has one.
LEMMA NeedsAreLoaded ==
  ASSUME NEW r, NEW q, r.kind # "snapshot", q.kind # "snapshot",
         TypesOf(r) \subseteq TypesOf(q),
         r.addresses > 0 => q.addresses > 0
  PROVE  Needs(r) \subseteq Loaded(q)
<1> SUFFICES ASSUME NEW u \in Needs(r) PROVE u \in Loaded(q)
  OBVIOUS
<1>1. Loaded(q) = (UNION {TypeUnits(t) : t \in TypesOf(q)})
                  \cup (IF q.addresses > 0 THEN {"public ipv4"} ELSE {})
  BY DEF Loaded
<1>2. \/ \E i \in DOMAIN r.volumes : u \in VolumeNeeds(r.volumes[i])
      \/ r.addresses > 0 /\ u = "public ipv4"
  BY DEF Needs
<1>3. ASSUME NEW i \in DOMAIN r.volumes, u \in VolumeNeeds(r.volumes[i])
      PROVE  u \in Loaded(q)
  <2>1. u \in TypeUnits(r.volumes[i].type)
    BY <1>3, VolumeNeedsOfType
  <2>2. r.volumes[i].type \in TypesOf(q)
    BY DEF TypesOf
  <2> QED
    BY <2>1, <2>2, <1>1
<1>4. CASE r.addresses > 0 /\ u = "public ipv4"
  BY <1>1, <1>4
<1> QED
  BY <1>2, <1>3, <1>4

\* Two requests of one key load the same, so either finds what it needs.
LEMMA SameKeySuffices ==
  ASSUME NEW r, NEW q, WellFormed(r), WellFormed(q), KeyOf(r) = KeyOf(q)
  PROVE  Needs(r) \subseteq Loaded(q)
<1> USE DEF WellFormed
<1>1. /\ KeyOf(r)[1] = (IF r.kind = "stopped" THEN "stopped_instance" ELSE r.kind)
      /\ KeyOf(q)[1] = (IF q.kind = "stopped" THEN "stopped_instance" ELSE q.kind)
  BY DEF KeyOf
<1>2. r.kind = q.kind
  BY <1>1
<1>3. CASE r.kind = "snapshot"
  <2>1. KeyOf(r)[3] = r.tier /\ KeyOf(q)[3] = q.tier
    BY <1>2, <1>3 DEF KeyOf
  <2> QED
    BY <2>1, <1>2, <1>3 DEF Needs, Loaded, SnapshotUnit
<1>4. CASE r.kind = "elastic_ip"
  <2>1. TypesOf(r) = {}
    BY <1>4 DEF TypesOf
  <2> QED
    BY <2>1, <1>2, <1>4, NeedsAreLoaded
<1>5. CASE r.kind = "ebs"
  <2>1. KeyOf(r)[3] = TypesOf(r) /\ KeyOf(q)[3] = TypesOf(q)
    BY <1>2, <1>5 DEF KeyOf
  <2>2. TypesOf(r) = TypesOf(q)
    BY <2>1
  <2>3. ~(r.addresses > 0)
    BY <1>5
  <2> QED
    BY <2>2, <2>3, <1>2, <1>5, NeedsAreLoaded
<1>6. CASE r.kind = "stopped"
  <2>1. KeyOf(r) = <<"stopped_instance", r.region, TypesOf(r), r.addresses > 0>>
    BY <1>6 DEF KeyOf
  <2>2. KeyOf(q) = <<"stopped_instance", q.region, TypesOf(q), q.addresses > 0>>
    BY <1>2, <1>6 DEF KeyOf
  <2>3. <<"stopped_instance", r.region, TypesOf(r), r.addresses > 0>>
        = <<"stopped_instance", q.region, TypesOf(q), q.addresses > 0>>
    BY <2>1, <2>2, Zenon
  <2>4. TypesOf(r) = TypesOf(q) /\ (r.addresses > 0) = (q.addresses > 0)
    BY <2>3, Zenon
  <2> QED
    BY <2>4, <1>2, <1>6, NeedsAreLoaded
<1> QED
  BY <1>3, <1>4, <1>5, <1>6

\* Loaded units are units.
LEMMA LoadedAreUnits ==
  ASSUME NEW r, WellFormed(r)
  PROVE  Loaded(r) \subseteq Unit
<1>1. \A t \in VolumeType : TypeUnits(t) \subseteq Unit
  BY DEF TypeUnits, Unit
<1>2. TypesOf(r) \subseteq VolumeType
  <2>1. \A i \in DOMAIN r.volumes : r.volumes[i] \in VolumeRequest
    BY DEF WellFormed
  <2> QED
    BY <2>1 DEF TypesOf, VolumeRequest
<1>3. SnapshotUnit(r) \in Unit /\ "public ipv4" \in Unit
  BY DEF SnapshotUnit, Unit
<1> QED
  BY <1>1, <1>2, <1>3 DEF Loaded

-------------------------------------------------------------------------------
\* The published prices have all that calculate() and the methodology look at.
LEMMA ListIsTable ==
  ASSUME NEW r \in Requests, NEW t \in 0..MaxClock
  PROVE  PricesAll(r, ListPrice[r.region][t]) /\ DOMAIN ListPrice[r.region][t] = Unit
<1>1. WellFormed(r) /\ r.region \in DOMAIN ListPrice
  BY RequestsAssumption, PricesAssumption DEF Requests
<1>2. IsTable(ListPrice[r.region][t]) /\ DOMAIN ListPrice[r.region][t] = Unit
  BY <1>1, PricesAssumption
<1>3. Loaded(r) \subseteq Unit
  BY <1>1, LoadedAreUnits
<1>4. Needs(r) \subseteq Loaded(r)
  BY <1>1, SameKeySuffices
<1>5. {"public ipv4", "gp3 iops", "gp3 throughput"} \subseteq Unit
  BY DEF Unit
<1> QED
  BY <1>2, <1>3, <1>4, <1>5 DEF PricesAll

\* The shipped table prices what it knows a price of.
LEMMA ShippedIsTable ==
  ASSUME NEW r \in Requests, Needs(r) \subseteq DOMAIN FallbackTable(r.region)
  PROVE  PricesAll(r, FallbackTable(r.region))
<1>1. PICK region \in DOMAIN FallbackPrice : FallbackTable(r.region) = FallbackPrice[region]
  BY PricesAssumption DEF FallbackTable
<1> QED
  BY <1>1, PricesAssumption DEF PricesAll

\* What was loaded under the key of a request prices it as the methodology does.
LEMMA LoadedPrices ==
  ASSUME NEW r \in Requests, NEW payload, LoadedUnder(KeyOf(r), payload)
  PROVE  /\ Needs(r) \subseteq DOMAIN payload.price
         /\ Calculate(r, payload.price) = Methodology(r, ListPrice[r.region][payload.at])
         /\ Calculate(r, payload.price) # NoValue
<1>1. PICK q \in Requests : KeyOf(q) = KeyOf(r) /\ LoadedFor(q, payload)
  BY DEF LoadedUnder
<1>2. WellFormed(r) /\ WellFormed(q)
  BY RequestsAssumption DEF Requests
<1>3. Needs(r) \subseteq Loaded(q) /\ r.region = q.region
  BY <1>1, <1>2, SameKeySuffices, KeyHasRegion
<1> DEFINE list == ListPrice[r.region][payload.at]
<1>4. payload.at \in 0..MaxClock /\ payload.price = [u \in Loaded(q) |-> list[u]]
  BY <1>1, <1>3 DEF LoadedFor
<1>5. PricesAll(r, list)
  BY <1>4, ListIsTable
<1> HIDE DEF list
<1>6. Calculate(r, payload.price) = Calculate(r, list)
  <2>1. \A u \in Needs(r) : payload.price[u] = list[u]
    BY <1>3, <1>4
  <2> QED
    BY <1>2, <2>1, OnlyNeedsMatter
<1>7. Calculate(r, list) = Methodology(r, list) /\ Calculate(r, list) \in Int
  BY <1>2, <1>5, CalculatorIsMethodology
<1> QED
  BY <1>3, <1>4, <1>6, <1>7, PricesAssumption DEF list

-------------------------------------------------------------------------------
\* A scan that goes to a step at which it carries nothing, with what it asks for
\* known, keeps the invariant as long as the cache stays and its estimate is one.
LEMMA ElsewhereKeeps ==
  ASSUME IInv, NEW s \in Scan,
         UNCHANGED <<account, row, clock>>,
         scan' = [scan EXCEPT ![s] = scan'[s]],
         DOMAIN scan'[s] = {"step", "request", "payload", "insert"},
         scan'[s].step \notin {"finding", "writing", "pricing"},
         scan'[s].step \in {"looking", "loading", "falling"} => scan'[s].request \in Requests,
         DOMAIN estimate' = Scan, Estimated'
  PROVE  IInv'
BY DEF IInv, Shape, AsksKnown, CarriesLoaded, StoredLoaded, PricesLoaded

\* An answer that is the methodology's ends an estimate.
LEMMA AnswerKeeps ==
  ASSUME IInv, NEW s \in Scan, UNCHANGED <<account, row, clock>>,
         NEW result, Answer(s, result), Methodical(result), Priced(result)
  PROVE  IInv'
<1>1. scan'[s] = Idle("detecting") /\ scan' = [scan EXCEPT ![s] = scan'[s]]
  BY DEF Answer, IInv, Shape
<1>2. DOMAIN estimate' = Scan /\ estimate'[s] = result
      /\ \A t \in Scan \ {s} : estimate'[t] = estimate[t]
  BY DEF Answer, IInv, Shape
<1>3. Estimated'
  <2> SUFFICES ASSUME NEW t \in Scan, estimate'[t] # NoValue
               PROVE  Methodical(estimate'[t]) /\ Priced(estimate'[t])
    BY Zenon DEF Estimated, Methodical, Priced, FallbackTable
  <2>1. CASE t = s
    BY <1>2, <2>1
  <2>2. CASE t # s
    BY <1>2, <2>2 DEF IInv, Estimated
  <2> QED
    BY <2>1, <2>2
<1> QED
  BY <1>1, <1>2, <1>3, ElsewhereKeeps DEF Idle

\* So does a failure of the backend.
LEMMA FallKeeps ==
  ASSUME IInv, NEW s \in Scan, UNCHANGED <<account, row, clock, estimate>>,
         scan[s].request \in Requests, Go(s, "falling")
  PROVE  IInv'
<1>1. /\ scan' = [scan EXCEPT ![s] = scan'[s]]
      /\ DOMAIN scan'[s] = {"step", "request", "payload", "insert"}
      /\ scan'[s].step = "falling" /\ scan'[s].request = scan[s].request
  BY DEF Go, IInv, Shape
<1>2. DOMAIN estimate' = Scan /\ Estimated'
  BY DEF IInv, Shape, Estimated
<1> QED
  BY <1>1, <1>2, ElsewhereKeeps

\* What Load carries on is what it loaded, at the published prices of the time.
LEMMA LoadKeeps ==
  ASSUME IInv, NEW s \in Scan, Load(s)
  PROVE  IInv'
<1> DEFINE r == scan[s].request
           loaded == [price |-> [u \in Loaded(r) |-> ListPrice[r.region][clock][u]], at |-> clock]
<1>1. /\ UNCHANGED <<account, row, clock, estimate>>
      /\ scan' = [scan EXCEPT ![s].payload = loaded, ![s].step = "finding"]
      /\ scan[s].step = "loading"
  BY DEF Load
<1>2. LoadedFor(r, loaded)
  BY DEF LoadedFor, IInv, Shape
<1> HIDE DEF loaded
<1>3. /\ scan'[s].step = "finding"
      /\ scan'[s].request = r
      /\ scan'[s].payload = loaded
      /\ DOMAIN scan'[s] = {"step", "request", "payload", "insert"}
      /\ DOMAIN scan' = Scan
      /\ \A t \in Scan \ {s} : scan'[t] = scan[t]
  BY <1>1 DEF IInv, Shape
<1>4. r \in Requests
  BY <1>1 DEF IInv, AsksKnown
<1> QED
  BY <1>1, <1>2, <1>3, <1>4
     DEF IInv, Shape, AsksKnown, CarriesLoaded, StoredLoaded, PricesLoaded, Estimated

\* A hit was loaded for a request of the key that was looked up.
LEMMA LookUpKeeps ==
  ASSUME IInv, NEW s \in Scan, LookUp(s)
  PROVE  IInv'
<1> DEFINE r == scan[s].request
           entry == row[KeyOf(r)]
<1>1. /\ UNCHANGED <<account, row, clock, estimate>> /\ scan[s].step = "looking"
      /\ scan' = IF Fresh(entry)
                 THEN [scan EXCEPT ![s].payload = entry.payload, ![s].step = "pricing"]
                 ELSE [scan EXCEPT ![s].step = "loading"]
  BY DEF LookUp
<1>2. r \in Requests /\ KeyOf(r) \in Key
  BY <1>1 DEF IInv, AsksKnown, Key
<1>3. CASE Fresh(entry)
  <2>1. LoadedUnder(KeyOf(r), entry.payload)
    BY <1>2, <1>3 DEF Fresh, IInv, StoredLoaded
  <2>2. /\ scan'[s].step = "pricing" /\ scan'[s].request = r
        /\ scan'[s].payload = entry.payload
        /\ DOMAIN scan'[s] = {"step", "request", "payload", "insert"}
        /\ DOMAIN scan' = Scan
        /\ \A t \in Scan \ {s} : scan'[t] = scan[t]
    BY <1>1, <1>3 DEF IInv, Shape
  <2> QED
    BY <1>1, <1>2, <2>1, <2>2
       DEF IInv, Shape, AsksKnown, CarriesLoaded, StoredLoaded, PricesLoaded, Estimated
<1>4. CASE ~Fresh(entry)
  <2>1. /\ scan' = [scan EXCEPT ![s] = scan'[s]]
        /\ DOMAIN scan'[s] = {"step", "request", "payload", "insert"}
        /\ scan'[s].request = r /\ scan'[s].step = "loading"
    BY <1>1, <1>4 DEF IInv, Shape
  <2>2. DOMAIN estimate' = Scan /\ Estimated'
    BY <1>1 DEF IInv, Shape, Estimated
  <2> QED
    BY <1>1, <1>2, <2>1, <2>2, ElsewhereKeeps
<1> QED
  BY <1>3, <1>4

\* What Write stores was loaded for the request whose key it stores it under.
LEMMA WriteKeeps ==
  ASSUME IInv, NEW s \in Scan, Write(s)
  PROVE  IInv'
<1> DEFINE r == scan[s].request
<1>1. /\ UNCHANGED <<account, clock, estimate>>
      /\ scan[s].step = "writing"
      /\ row' = [row EXCEPT ![KeyOf(r)] = [payload |-> scan[s].payload, fetched |-> clock]]
      /\ scan' = [scan EXCEPT ![s].step = "pricing"]
  BY DEF Write, Go
<1>2. r \in Requests /\ KeyOf(r) \in Key /\ LoadedUnder(KeyOf(r), scan[s].payload)
  BY <1>1 DEF IInv, AsksKnown, CarriesLoaded, Key, LoadedUnder
<1>3. StoredLoaded'
  <2> SUFFICES ASSUME NEW k \in Key, row'[k] # NoValue
               PROVE  LoadedUnder(k, row'[k].payload)
    BY Zenon DEF StoredLoaded, LoadedUnder, LoadedFor
  <2>1. CASE k = KeyOf(r)
    <3>1. row'[k].payload = scan[s].payload
      BY <1>1, <1>2, <2>1 DEF IInv, Shape
    <3> QED
      BY <1>2, <2>1, <3>1
  <2>2. CASE k # KeyOf(r)
    <3>1. row'[k] = row[k]
      BY <1>1, <2>2 DEF IInv, Shape
    <3> QED
      BY <3>1 DEF IInv, StoredLoaded
  <2> QED
    BY <2>1, <2>2
<1>4. Shape'
  BY <1>1 DEF IInv, Shape
<1>5. AsksKnown' /\ CarriesLoaded' /\ PricesLoaded' /\ Estimated'
  BY <1>1, <1>2 DEF IInv, Shape, AsksKnown, CarriesLoaded, PricesLoaded, Estimated
<1> QED
  BY <1>3, <1>4, <1>5 DEF IInv

\* Price answers with the methodology's sum; what was loaded never lacks a price.
LEMMA PriceKeeps ==
  ASSUME IInv, NEW s \in Scan, Price(s)
  PROVE  IInv'
<1> DEFINE r == scan[s].request
           p == scan[s].payload
           result == [request |-> r, source |-> "aws_pricing_api",
                      confidence |-> IF r.kind = "snapshot" THEN "LOW" ELSE "HIGH",
                      cost |-> Calculate(r, p.price), timestamp |-> p.at]
<1>1. r \in Requests /\ LoadedUnder(KeyOf(r), p)
  BY DEF Price, IInv, AsksKnown, PricesLoaded
<1>2. /\ Needs(r) \subseteq DOMAIN p.price
      /\ Calculate(r, p.price) = Methodology(r, ListPrice[r.region][p.at])
      /\ Calculate(r, p.price) # NoValue
  BY <1>1, LoadedPrices
<1>3. Answer(s, result) /\ UNCHANGED <<account, row, clock>>
  BY <1>2 DEF Price
<1>4. result.request = r /\ result.source = "aws_pricing_api" /\ result.timestamp = p.at
      /\ result.cost = Calculate(r, p.price)
  OBVIOUS
<1> HIDE DEF result
<1>5. Methodical(result) /\ Priced(result)
  BY <1>2, <1>4 DEF Methodical, Priced
<1> QED
  BY <1>3, <1>5, AnswerKeeps

\* So does FallBack, and it gives no price only for what the shipped table lacks.
LEMMA FallBackKeeps ==
  ASSUME IInv, NEW s \in Scan, FallBack(s)
  PROVE  IInv'
<1> DEFINE r == scan[s].request
           price == FallbackTable(r.region)
           known == [request |-> r, source |-> "fallback_table",
                     confidence |-> IF r.kind = "snapshot" THEN "LOW" ELSE "MEDIUM",
                     cost |-> Calculate(r, price), timestamp |-> NoValue]
<1>1. r \in Requests /\ UNCHANGED <<account, row, clock>>
  BY DEF FallBack, IInv, AsksKnown
<1>2. CASE Needs(r) \subseteq DOMAIN price
  <2>1. Answer(s, known)
    BY <1>2 DEF FallBack
  <2>2. Calculate(r, price) = Methodology(r, price) /\ Calculate(r, price) \in Int
    <3>1. PricesAll(r, price) /\ WellFormed(r)
      BY <1>1, <1>2, ShippedIsTable, RequestsAssumption DEF Requests
    <3> HIDE DEF price
    <3> QED
      BY <3>1, CalculatorIsMethodology
  <2>3. known.request = r /\ known.source = "fallback_table" /\ known.cost = Calculate(r, price)
    OBVIOUS
  <2> HIDE DEF known
  <2>4. Methodical(known) /\ Priced(known)
    BY <2>2, <2>3, PricesAssumption DEF Methodical, Priced
  <2> QED
    BY <1>1, <2>1, <2>4, AnswerKeeps
<1>3. CASE ~(Needs(r) \subseteq DOMAIN price)
  <2>1. Answer(s, Unavailable(r))
    BY <1>3 DEF FallBack
  <2>2. Methodical(Unavailable(r)) /\ Priced(Unavailable(r))
    BY <1>3 DEF Methodical, Priced, Unavailable
  <2> QED
    BY <1>1, <2>1, <2>2, AnswerKeeps
<1> QED
  BY <1>2, <1>3

\* Ask goes to the first backend of the mode, or answers when pricing is disabled.
LEMMA AskKeeps ==
  ASSUME IInv, NEW s \in Scan, NEW r \in account, Ask(s, r)
  PROVE  IInv'
<1>1. CASE Mode = "disabled"
  <2>1. Answer(s, Unavailable(r)) /\ UNCHANGED <<account, row, clock>>
    BY <1>1 DEF Ask
  <2>2. Methodical(Unavailable(r)) /\ Priced(Unavailable(r))
    BY <1>1 DEF Methodical, Priced, Unavailable
  <2> QED
    BY <2>1, <2>2, AnswerKeeps
<1>2. CASE Mode # "disabled"
  <2>1. /\ scan' = [scan EXCEPT ![s] = scan'[s]]
        /\ DOMAIN scan'[s] = {"step", "request", "payload", "insert"}
        /\ scan'[s].request = r
        /\ scan'[s].step \in {"looking", "falling"}
        /\ UNCHANGED <<account, row, clock>>
    BY <1>2 DEF Ask, IInv, Shape
  <2>2. r \in Requests
    BY DEF IInv, Shape, Requests
  <2>3. DOMAIN estimate' = Scan /\ Estimated'
    BY <1>2 DEF Ask, IInv, Shape, Estimated
  <2> QED
    BY <2>1, <2>2, <2>3, ElsewhereKeeps
<1> QED
  BY <1>1, <1>2

\* Every step of a scan keeps the invariant.
LEMMA ScanKeeps ==
  ASSUME IInv, NEW s \in Scan, ScanStep(s)
  PROVE  IInv'
<1>1. CASE Begin(s)
  <2>1. /\ scan'[s] = Idle("detecting") /\ scan' = [scan EXCEPT ![s] = scan'[s]]
        /\ UNCHANGED <<account, row, clock>>
        /\ DOMAIN estimate' = Scan /\ Estimated'
    BY <1>1 DEF Begin, IInv, Shape, Estimated
  <2> QED
    BY <2>1, ElsewhereKeeps DEF Idle
<1>2. CASE Commit(s)
  <2>1. /\ scan'[s] = Idle("ended") /\ scan' = [scan EXCEPT ![s] = scan'[s]]
        /\ UNCHANGED <<account, row, clock>>
        /\ DOMAIN estimate' = Scan /\ Estimated'
    BY <1>2 DEF Commit, IInv, Shape, Estimated
  <2> QED
    BY <2>1, ElsewhereKeeps DEF Idle
<1>3. CASE FindRow(s)
  BY <1>3 DEF FindRow, IInv, Shape, AsksKnown, CarriesLoaded, StoredLoaded, PricesLoaded, Estimated
<1>4. CASE WriteRefused(s) \/ BackendFails(s)
  <2>1. UNCHANGED <<account, row, clock, estimate>> /\ Go(s, "falling")
        /\ scan[s].step \in {"looking", "loading", "finding", "writing"}
    BY <1>4 DEF WriteRefused, BackendFails
  <2> QED
    BY <2>1, FallKeeps DEF IInv, AsksKnown
<1> QED
  BY <1>1, <1>2, <1>3, <1>4, AskKeeps, LookUpKeeps, LoadKeeps, WriteKeeps, PriceKeeps,
     FallBackKeeps DEF ScanStep

\* The inductive invariant holds of the specification.
THEOREM IInvHolds == Spec => []IInv
<1>1. Init => IInv
  BY LookupsAssumption
     DEF Init, Idle, IInv, Shape, AsksKnown, CarriesLoaded, StoredLoaded, PricesLoaded, Estimated
<1>2. IInv /\ [Next]_vars => IInv'
  <2> SUFFICES ASSUME IInv, [Next]_vars PROVE IInv'
    OBVIOUS
  <2> USE DEF IInv, Shape, AsksKnown, CarriesLoaded, StoredLoaded, PricesLoaded, Estimated
  <2>1. CASE Tick
    BY <2>1, LookupsAssumption DEF Tick
  <2>2. CASE Reset
    BY <2>2 DEF Reset
  <2>3. ASSUME NEW s \in Scan, ScanStep(s) PROVE IInv'
    BY <2>3, ScanKeeps
  <2>4. CASE UNCHANGED vars
    BY <2>4 DEF vars
  <2> QED
    BY <2>1, <2>2, <2>3, <2>4 DEF Next
<1> QED
  BY <1>1, <1>2, PTL DEF Spec

\* A hit is never a gap: whatever was stored under a key, by whichever scan and
\* for whichever request, has every price a request of that key is charged for.
THEOREM EveryHitSuffices == Spec => []HitsSuffice
<1>1. IInv => HitsSuffice
  <2> SUFFICES ASSUME IInv, NEW r \in Requests, row[KeyOf(r)] # NoValue
               PROVE  Needs(r) \subseteq DOMAIN row[KeyOf(r)].payload.price
    BY DEF HitsSuffice
  <2>1. LoadedUnder(KeyOf(r), row[KeyOf(r)].payload)
    BY DEF IInv, StoredLoaded, Key
  <2> QED
    BY <2>1, LoadedPrices
<1> QED
  BY <1>1, IInvHolds, PTL

\* docs/pricing.md, the calculations: every estimate of every scan is the
\* methodology's sum, at the prices AWS published for the region at the time the
\* estimate tells, however old its row and whoever stored it, or at the shipped ones.
THEOREM EstimatesAreMethodology == Spec => []EstimateIsMethodology
<1>1. IInv => EstimateIsMethodology
  BY Zenon DEF IInv, Estimated, Methodical, EstimateIsMethodology
<1> QED
  BY <1>1, IInvHolds, PTL

\* docs/pricing.md, the fall-through: unless pricing is disabled, no failure of the
\* API, the cache or its lock leaves without a price what the shipped table knows.
THEOREM KnownArePriced == Spec => []KnownIsPriced
<1>1. IInv => KnownIsPriced
  BY Zenon DEF IInv, Estimated, Priced, KnownIsPriced
<1> QED
  BY <1>1, IInvHolds, PTL
===============================================================================
