--------------------------- MODULE Services_proofs ---------------------------
(***************************************************************************)
(* Theorems about the accounts that jobs draw on: the caps per key and for *)
(* probe work (YouTubeKeyCap), the daily budget (QuotaLedger) and the      *)
(* health of the key pool (YouTubeKeyHealth), for any requests,            *)
(* operations, keys, units and limits; and about the instance that joins   *)
(* them with the rows of SharedRows_proofs.                                *)
(*                                                                         *)
(* Caps and budget are sums over finite sets, which the models take from   *)
(* the module Functions.  The first part proves what those sums obey, by   *)
(* counting: a sum of natural numbers is the number of pairs of an index   *)
(* and a number up to its term.                                            *)
(***************************************************************************)
EXTENDS MCServices, SharedRows_proofs, FiniteSetTheorems, TLAPS

(***************************************************************************)
(* Sums                                                                    *)
(***************************************************************************)
\* One round of the recursion by which the sum is defined.
SumStep(f, S, g) == [s \in SUBSET S |-> IF s = {} THEN 0
                       ELSE LET x == CHOOSE x \in s : TRUE IN f[x] + g[s \ {x}]]

\* What a sum counts.
Tokens(f, S) == {p \in S \X Nat : p[2] \in 1 .. f[p[1]]}

LEMMA SumIsChosen ==
  ASSUME NEW f, NEW S
  PROVE  SumFunctionOnSet(f, S) = (CHOOSE g : g = SumStep(f, S, g))[S]
BY DEF SumFunctionOnSet, FoldFunctionOnSet, MapThenFoldSet, SumStep

LEMMA Pillar ==
  ASSUME NEW x, NEW n \in Nat
  PROVE  IsFiniteSet({x} \X (1 .. n)) /\ Cardinality({x} \X (1 .. n)) = n
<1>1. IsFiniteSet(1 .. n) /\ Cardinality(1 .. n) = n BY FS_Interval
<1>2. DEFINE b == [i \in 1 .. n |-> <<x, i>>]
<1>3. b \in Bijection(1 .. n, {x} \X (1 .. n)) BY DEF Bijection, Injection, Surjection, IsInjective
<1>4. ExistsBijection(1 .. n, {x} \X (1 .. n)) BY <1>3 DEF ExistsBijection
<1>. QED BY <1>1, <1>4, FS_Bijection

\* A non-empty family of subsets of a finite set has a member none of whose elements can
\* be left out: what takes the place of induction over finite sets.
LEMMA SmallestSubset ==
  ASSUME NEW S, IsFiniteSet(S), NEW B \in SUBSET (SUBSET S), B # {}
  PROVE  \E t \in B : \A x \in t : t \ {x} \notin B
<1>1. IsWellFoundedOn(StrictSubsetOrdering(S), SUBSET S)
  BY FS_StrictSubsetOrderingWellFounded, FS_FiniteSubsetsOfFinite
<1>2. PICK t \in B : \A u \in B : <<u, t>> \notin StrictSubsetOrdering(S) BY <1>1, WFMin
<1>3. ASSUME NEW x \in t, t \ {x} \in B PROVE FALSE BY <1>2, <1>3 DEF StrictSubsetOrdering
<1>. QED BY <1>3

LEMMA TokensOfSubset ==
  ASSUME NEW S, NEW f \in [S -> Nat], NEW t \in SUBSET S, NEW x \in t
  PROVE  /\ Tokens(f, t) = Tokens(f, t \ {x}) \cup ({x} \X (1 .. f[x]))
         /\ Tokens(f, t \ {x}) \cap ({x} \X (1 .. f[x])) = {}
BY DEF Tokens

LEMMA TokensFinite ==
  ASSUME NEW S, IsFiniteSet(S), NEW f \in [S -> Nat]
  PROVE  \A t \in SUBSET S : IsFiniteSet(Tokens(f, t))
<1>. DEFINE B == {t \in SUBSET S : ~IsFiniteSet(Tokens(f, t))}
<1>. SUFFICES ASSUME B # {} PROVE FALSE OBVIOUS
<1>1. PICK t \in B : \A x \in t : t \ {x} \notin B BY SmallestSubset
<1>2. t # {}
  <2>1. Tokens(f, {}) = {} BY DEF Tokens
  <2>. QED BY <2>1, FS_EmptySet
<1>3. PICK x \in t : TRUE BY <1>2
<1>4. IsFiniteSet(Tokens(f, t \ {x})) BY <1>1
<1>5. IsFiniteSet({x} \X (1 .. f[x])) BY Pillar
<1>6. Tokens(f, t) = Tokens(f, t \ {x}) \cup ({x} \X (1 .. f[x])) BY TokensOfSubset
<1>7. IsFiniteSet(Tokens(f, t \ {x}) \cup ({x} \X (1 .. f[x]))) BY <1>4, <1>5, FS_Union
<1>. QED BY <1>6, <1>7

LEMMA TokensCount ==
  ASSUME NEW S, IsFiniteSet(S), NEW f \in [S -> Nat], NEW t \in SUBSET S
  PROVE  /\ Cardinality(Tokens(f, t)) \in Nat
         /\ t = {} => Cardinality(Tokens(f, t)) = 0
         /\ \A x \in t : Cardinality(Tokens(f, t)) = f[x] + Cardinality(Tokens(f, t \ {x}))
<1>1. IsFiniteSet(Tokens(f, t)) BY TokensFinite
<1>2. Cardinality(Tokens(f, t)) \in Nat BY <1>1, FS_CardinalityType
<1>3. ASSUME t = {} PROVE Cardinality(Tokens(f, t)) = 0
  <2>1. Tokens(f, t) = {} BY <1>3 DEF Tokens
  <2>. QED BY <2>1, FS_EmptySet
<1>4. ASSUME NEW x \in t PROVE Cardinality(Tokens(f, t)) = f[x] + Cardinality(Tokens(f, t \ {x}))
  <2>1. IsFiniteSet(Tokens(f, t \ {x})) BY TokensFinite
  <2>2. Cardinality(Tokens(f, t \ {x})) \in Nat BY <2>1, FS_CardinalityType
  <2>3. IsFiniteSet({x} \X (1 .. f[x])) /\ Cardinality({x} \X (1 .. f[x])) = f[x] BY Pillar
  <2>4. /\ Tokens(f, t) = Tokens(f, t \ {x}) \cup ({x} \X (1 .. f[x]))
        /\ Tokens(f, t \ {x}) \cap ({x} \X (1 .. f[x])) = {} BY TokensOfSubset
  <2>5. Cardinality(Tokens(f, t)) = Cardinality(Tokens(f, t \ {x})) + f[x] - Cardinality({})
    BY <2>1, <2>3, <2>4, FS_Union
  <2>. QED BY <2>2, <2>5, FS_EmptySet
<1>. QED BY <1>2, <1>3, <1>4

\* The sum over a finite set counts its tokens.
LEMMA SumCounts ==
  ASSUME NEW S, IsFiniteSet(S), NEW f \in [S -> Nat], NEW T \in SUBSET S
  PROVE  SumFunctionOnSet(f, T) = Cardinality(Tokens(f, T))
<1>0. IsFiniteSet(T) BY FS_Subset
<1>. DEFINE h == [t \in SUBSET T |-> Cardinality(Tokens(f, t))]
<1>1. h = SumStep(f, T, h)
  <2>1. ASSUME NEW t \in SUBSET T
        PROVE  h[t] = IF t = {} THEN 0 ELSE LET x == CHOOSE x \in t : TRUE IN f[x] + h[t \ {x}]
    <3>1. CASE t = {} BY <3>1, TokensCount
    <3>2. CASE t # {}
      <4>. DEFINE x == CHOOSE x \in t : TRUE
      <4>1. x \in t BY <3>2
      <4>. HIDE DEF x
      <4>2. h[t] = f[x] + h[t \ {x}] BY <4>1, TokensCount
      <4>. QED BY <3>2, <4>2 DEF x
    <3>. QED BY <3>1, <3>2
  <2>. QED BY <2>1 DEF SumStep
<1>. HIDE DEF h
<1>. DEFINE g == CHOOSE g : g = SumStep(f, T, g)
<1>2. g = SumStep(f, T, g) BY <1>1
<1>. HIDE DEF g
<1>3. \A t \in SUBSET T : g[t] = h[t]
  <2>. DEFINE B == {t \in SUBSET T : g[t] # h[t]}
  <2>. SUFFICES ASSUME B # {} PROVE FALSE OBVIOUS
  <2>1. PICK t \in B : \A x \in t : t \ {x} \notin B BY <1>0, SmallestSubset
  <2>2. /\ g[t] = IF t = {} THEN 0 ELSE LET x == CHOOSE x \in t : TRUE IN f[x] + g[t \ {x}]
        /\ h[t] = IF t = {} THEN 0 ELSE LET x == CHOOSE x \in t : TRUE IN f[x] + h[t \ {x}]
    <3>1. SumStep(f, T, g)[t] = IF t = {} THEN 0 ELSE LET x == CHOOSE x \in t : TRUE IN f[x] + g[t \ {x}]
      BY DEF SumStep
    <3>2. SumStep(f, T, h)[t] = IF t = {} THEN 0 ELSE LET x == CHOOSE x \in t : TRUE IN f[x] + h[t \ {x}]
      BY DEF SumStep
    <3>. QED BY <1>1, <1>2, <3>1, <3>2
  <2>3. t # {} BY <2>2
  <2>. DEFINE x == CHOOSE x \in t : TRUE
  <2>4. x \in t BY <2>3
  <2>5. g[t] = f[x] + g[t \ {x}] /\ h[t] = f[x] + h[t \ {x}] BY <2>2, <2>3
  <2>. HIDE DEF x
  <2>6. g[t \ {x}] = h[t \ {x}] BY <2>1, <2>4
  <2>. QED BY <2>5, <2>6
<1>. QED BY <1>3, SumIsChosen DEF g, h

\* Sums are natural numbers, add up over a set that is divided, and do not shrink when
\* their terms or their set grow.
LEMMA SumNat ==
  ASSUME NEW S, IsFiniteSet(S), NEW f \in [S -> Nat], NEW T \in SUBSET S
  PROVE  SumFunctionOnSet(f, T) \in Nat
BY SumCounts, TokensCount

LEMMA SumEmpty ==
  ASSUME NEW S, IsFiniteSet(S), NEW f \in [S -> Nat]
  PROVE  SumFunctionOnSet(f, {}) = 0
BY SumCounts, TokensCount

LEMMA SumSplit ==
  ASSUME NEW S, IsFiniteSet(S), NEW f \in [S -> Nat], NEW T \in SUBSET S, NEW x \in T
  PROVE  SumFunctionOnSet(f, T) = f[x] + SumFunctionOnSet(f, T \ {x})
BY SumCounts, TokensCount

LEMMA SumWith ==
  ASSUME NEW S, IsFiniteSet(S), NEW f \in [S -> Nat], NEW T \in SUBSET S, NEW x \in S, x \notin T
  PROVE  SumFunctionOnSet(f, T \cup {x}) = SumFunctionOnSet(f, T) + f[x]
<1>. DEFINE U == T \cup {x}
<1>1. U \in SUBSET S /\ x \in U /\ U \ {x} = T OBVIOUS
<1>. HIDE DEF U
<1>2. SumFunctionOnSet(f, U) = f[x] + SumFunctionOnSet(f, T) BY <1>1, SumSplit
<1>3. SumFunctionOnSet(f, T) \in Nat /\ f[x] \in Nat BY SumNat
<1>. QED BY <1>2, <1>3 DEF U

LEMMA CardinalityOfUnion ==
  ASSUME NEW A, IsFiniteSet(A), NEW B, IsFiniteSet(B), A \cap B = {}
  PROVE  Cardinality(A \cup B) = Cardinality(A) + Cardinality(B)
<1>1. Cardinality(A \cup B) = Cardinality(A) + Cardinality(B) - Cardinality(A \cap B) BY FS_Union
<1>2. Cardinality(A \cap B) = 0 BY FS_EmptySet
<1>3. Cardinality(A) \in Nat /\ Cardinality(B) \in Nat BY FS_CardinalityType
<1>. QED BY <1>1, <1>2, <1>3

LEMMA SumUnion ==
  ASSUME NEW S, IsFiniteSet(S), NEW f \in [S -> Nat],
         NEW T \in SUBSET S, NEW U \in SUBSET S, T \cap U = {}
  PROVE  SumFunctionOnSet(f, T \cup U) = SumFunctionOnSet(f, T) + SumFunctionOnSet(f, U)
<1>1. IsFiniteSet(Tokens(f, T)) /\ IsFiniteSet(Tokens(f, U)) BY TokensFinite
<1>2. Tokens(f, T \cup U) = Tokens(f, T) \cup Tokens(f, U) /\ Tokens(f, T) \cap Tokens(f, U) = {} BY DEF Tokens
<1>3. Cardinality(Tokens(f, T) \cup Tokens(f, U)) = Cardinality(Tokens(f, T)) + Cardinality(Tokens(f, U))
  BY <1>1, <1>2, CardinalityOfUnion
<1>4. SumFunctionOnSet(f, T \cup U) = Cardinality(Tokens(f, T \cup U)) BY SumCounts
<1>5. SumFunctionOnSet(f, T) = Cardinality(Tokens(f, T)) /\ SumFunctionOnSet(f, U) = Cardinality(Tokens(f, U))
  BY SumCounts
<1>. QED BY <1>2, <1>3, <1>4, <1>5

LEMMA SumAtMost ==
  ASSUME NEW S, IsFiniteSet(S), NEW f \in [S -> Nat], NEW g \in [S -> Nat],
         NEW T \in SUBSET S, NEW U \in SUBSET S, T \subseteq U, \A x \in T : f[x] <= g[x]
  PROVE  SumFunctionOnSet(f, T) <= SumFunctionOnSet(g, U)
<1>1. Tokens(f, T) \in SUBSET Tokens(g, U)
  <2>1. ASSUME NEW p \in Tokens(f, T) PROVE p \in Tokens(g, U)
    <3>1. p \in T \X Nat /\ p[1] \in T /\ p[2] \in Nat /\ p[2] \in 1 .. f[p[1]] BY DEF Tokens
    <3>2. f[p[1]] \in Nat /\ g[p[1]] \in Nat /\ f[p[1]] <= g[p[1]] BY <3>1
    <3>. QED BY <3>1, <3>2 DEF Tokens
  <2>. QED BY <2>1
<1>2. IsFiniteSet(Tokens(g, U)) BY TokensFinite
<1>3. Cardinality(Tokens(f, T)) <= Cardinality(Tokens(g, U)) BY <1>1, <1>2, FS_Subset
<1>4. SumFunctionOnSet(f, T) = Cardinality(Tokens(f, T)) /\ SumFunctionOnSet(g, U) = Cardinality(Tokens(g, U))
  BY SumCounts
<1>. QED BY <1>3, <1>4

\* Only the terms of the index set count.
LEMMA SumSame ==
  ASSUME NEW S, IsFiniteSet(S), NEW f \in [S -> Nat], NEW R, IsFiniteSet(R), NEW g \in [R -> Nat],
         NEW T \in SUBSET (S \cap R), \A x \in T : f[x] = g[x]
  PROVE  SumFunctionOnSet(f, T) = SumFunctionOnSet(g, T)
<1>1. Tokens(f, T) = Tokens(g, T) BY DEF Tokens
<1>2. SumFunctionOnSet(f, T) = Cardinality(Tokens(f, T)) BY SumCounts
<1>3. SumFunctionOnSet(g, T) = Cardinality(Tokens(g, T)) BY SumCounts
<1>. QED BY <1>1, <1>2, <1>3

(***************************************************************************)
(* Key and probe caps                                                      *)
(***************************************************************************)
LEMMA UnitsNat == \A S \in SUBSET Requests : UnitsOf(S) \in Nat
BY CapAssumption, SumNat DEF CapAssumption, UnitsOf

LEMMA UnitsWith ==
  ASSUME NEW S \in SUBSET Requests, NEW r \in Requests, r \notin S
  PROVE  UnitsOf(S \cup {r}) = UnitsOf(S) + Units[r]
BY CapAssumption, SumWith DEF CapAssumption, UnitsOf

LEMMA UnitsUnion ==
  ASSUME NEW S \in SUBSET Requests, NEW T \in SUBSET Requests, S \cap T = {}
  PROVE  UnitsOf(S \cup T) = UnitsOf(S) + UnitsOf(T)
BY CapAssumption, SumUnion DEF CapAssumption, UnitsOf

LEMMA UnitsMonotone ==
  ASSUME NEW S \in SUBSET Requests, NEW T \in SUBSET Requests, S \subseteq T
  PROVE  UnitsOf(S) <= UnitsOf(T)
<1>1. \A x \in S : Units[x] <= Units[x] BY CapAssumption DEF CapAssumption
<1>. QED BY <1>1, CapAssumption, SumAtMost DEF CapAssumption, UnitsOf

\* The requests of a set that count against a key, or against probe work, on a day.
Account(S, d, k) == {r \in S : request[r].day = d /\ request[r].key = k}
ProbeAccount(S, d) == {r \in S \cap Probe : request[r].day = d}

Counted(r) == r \in spent[<<request[r].day, request[r].key>>]

\* What is spent is on its own day and key, and what is charged was spent.  On the current
\* day what was sent is charged or still leased, and what is about to be sent is leased.
RequestInv ==
  /\ \A r \in Requests :
       /\ request[r].day <= today
       /\ r \in accounted => At(r, "answered") \/ At(r, "done")
       /\ r \in accounted => Counted(r) /\ r \notin leases
       /\ At(r, "wire") \/ At(r, "answered") => Counted(r)
       /\ At(r, "idle") \/ At(r, "reserving") => r \notin leases
       /\ At(r, "reserved") /\ request[r].day = today => r \in leases
       /\ Counted(r) /\ request[r].day = today => r \in accounted \cup leases
  /\ \A d \in Days, k \in Keys : \A r \in spent[<<d, k>>] :
       /\ request[r].day = d /\ request[r].key = k
       /\ At(r, "wire") \/ At(r, "answered") \/ At(r, "done")

\* Usage is the sum of what was charged.  From the current day on, what is charged or leased
\* fits the caps; of past days only what was spent does, for their leases were swept.
ProbeSpent(d) == Probe \cap UNION {spent[<<d, k>>] : k \in Keys}

ProbeInv(d) ==
  /\ probeUsage[d] = UnitsOf(ProbeAccount(accounted, d))
  /\ UnitsOf(ProbeSpent(d)) <= ProbeCap
  /\ d >= today => UnitsOf(ProbeAccount(accounted \cup leases, d)) <= ProbeCap

KeyInv(d, k) ==
  /\ usage[<<d, k>>] = UnitsOf(Account(accounted, d, k))
  /\ UnitsOf(spent[<<d, k>>]) <= KeyCap
  /\ d >= today => UnitsOf(Account(accounted \cup leases, d, k)) <= KeyCap

AccountInv == \A d \in Days : ProbeInv(d) /\ \A k \in Keys : KeyInv(d, k)

CapInv == CapTypeOK /\ RequestInv /\ AccountInv

Place == [at : Places, key : Keys, day : Days]

LEMMA AccountsTyped ==
  /\ \A S \in SUBSET Requests, d \in Days, k \in Keys : Account(S, d, k) \in SUBSET Requests
  /\ \A S \in SUBSET Requests, d \in Days : ProbeAccount(S, d) \in SUBSET Requests
BY DEF Account, ProbeAccount

\* A step that charges and sends nothing, and leases nothing new, keeps the accounts.
LEMMA AccountsKept ==
  ASSUME CapInv, today' \in Days, today' >= today, leases' \subseteq leases,
         UNCHANGED <<usage, probeUsage, accounted, spent>>,
         \A r \in accounted \cup leases : request'[r].day = request[r].day /\ request'[r].key = request[r].key
  PROVE  AccountInv'
<1>. USE DEF CapInv, CapTypeOK
<1>1. \A d \in Days : ProbeAccount(accounted, d)' = ProbeAccount(accounted, d) BY DEF ProbeAccount
<1>2. \A d \in Days, k \in Keys : Account(accounted, d, k)' = Account(accounted, d, k) BY DEF Account
<1>3. ASSUME NEW d \in Days, d >= today'
      PROVE  UnitsOf(ProbeAccount(accounted \cup leases, d)') <= ProbeCap
  <2>1. ProbeAccount(accounted \cup leases, d)' \subseteq ProbeAccount(accounted \cup leases, d) BY DEF ProbeAccount
  <2>2. ProbeAccount(accounted \cup leases, d) \in SUBSET Requests BY AccountsTyped
  <2>3. UnitsOf(ProbeAccount(accounted \cup leases, d)') <= UnitsOf(ProbeAccount(accounted \cup leases, d))
    BY <2>1, <2>2, UnitsMonotone
  <2>4. d >= today BY <1>3 DEF Days
  <2>5. UnitsOf(ProbeAccount(accounted \cup leases, d)) <= ProbeCap BY <2>4 DEF AccountInv, ProbeInv, KeyInv
  <2>6. /\ UnitsOf(ProbeAccount(accounted \cup leases, d)') \in Nat
        /\ UnitsOf(ProbeAccount(accounted \cup leases, d)) \in Nat
    BY <2>1, <2>2, UnitsNat
  <2>. QED BY <2>3, <2>5, <2>6, CapAssumption DEF CapAssumption
<1>4. ASSUME NEW d \in Days, NEW k \in Keys, d >= today'
      PROVE  UnitsOf(Account(accounted \cup leases, d, k)') <= KeyCap
  <2>1. Account(accounted \cup leases, d, k)' \subseteq Account(accounted \cup leases, d, k) BY DEF Account
  <2>2. Account(accounted \cup leases, d, k) \in SUBSET Requests BY AccountsTyped
  <2>3. UnitsOf(Account(accounted \cup leases, d, k)') <= UnitsOf(Account(accounted \cup leases, d, k))
    BY <2>1, <2>2, UnitsMonotone
  <2>4. d >= today BY <1>4 DEF Days
  <2>5. UnitsOf(Account(accounted \cup leases, d, k)) <= KeyCap BY <2>4 DEF AccountInv, ProbeInv, KeyInv
  <2>6. /\ UnitsOf(Account(accounted \cup leases, d, k)') \in Nat
        /\ UnitsOf(Account(accounted \cup leases, d, k)) \in Nat
    BY <2>1, <2>2, UnitsNat
  <2>. QED BY <2>3, <2>5, <2>6, CapAssumption DEF CapAssumption
<1>5. ASSUME NEW d \in Days PROVE ProbeInv(d)'
  <2>1. ProbeInv(d) BY DEF AccountInv
  <2>2. probeUsage'[d] = UnitsOf(ProbeAccount(accounted, d)') BY <1>1, <2>1 DEF ProbeInv
  <2>3. UnitsOf(ProbeSpent(d)') <= ProbeCap BY <2>1 DEF ProbeInv, ProbeSpent
  <2>. QED BY <1>3, <2>2, <2>3 DEF ProbeInv, UnitsOf
<1>6. ASSUME NEW d \in Days, NEW k \in Keys PROVE KeyInv(d, k)'
  <2>1. KeyInv(d, k) BY DEF AccountInv
  <2>. QED BY <1>2, <1>4, <2>1 DEF KeyInv, UnitsOf
<1>. QED BY <1>5, <1>6 DEF AccountInv

\* A reservation that fits is within the caps of its account, whatever day it waits for.
LEMMA ReservationFits ==
  ASSUME CapInv, NEW r \in Requests, At(r, "reserving"), Fits(r)
  PROVE  /\ UnitsOf(Account(accounted \cup leases, request[r].day, request[r].key) \cup {r}) <= KeyCap
         /\ r \in Probe => UnitsOf(ProbeAccount(accounted \cup leases, request[r].day) \cup {r}) <= ProbeCap
<1>. DEFINE d == request[r].day
            k == request[r].key
<1>1. d \in Days /\ k \in Keys /\ r \notin accounted /\ r \notin leases
  BY DEF CapInv, CapTypeOK, RequestInv, At
<1>2. accounted \in SUBSET Requests /\ leases \in SUBSET Requests /\ accounted \cap leases = {}
  BY DEF CapInv, CapTypeOK, RequestInv
<1>. HIDE DEF d, k
<1>3. UnitsOf(Account(accounted \cup leases, d, k) \cup {r}) <= KeyCap
  <2>. DEFINE A == Account(accounted, d, k)
              L == Account(leases, d, k)
  <2>1. A \in SUBSET Requests /\ L \in SUBSET Requests /\ A \cap L = {} /\ r \notin A \cup L
    BY <1>1, <1>2 DEF Account
  <2>2. Account(accounted \cup leases, d, k) = A \cup L BY DEF Account
  <2>3. UnitsOf(L) = UnitsOf(Leased(d, k)) BY DEF Leased, Account
  <2>4. usage[<<d, k>>] = UnitsOf(A) BY <1>1 DEF CapInv, AccountInv, ProbeInv, KeyInv
  <2>5. UnitsOf(A) + UnitsOf(L) + Units[r] <= KeyCap BY <2>3, <2>4 DEF Fits, Projected, d, k
  <2>. HIDE DEF A, L
  <2>6. UnitsOf(A \cup L) = UnitsOf(A) + UnitsOf(L) BY <2>1, UnitsUnion
  <2>7. UnitsOf((A \cup L) \cup {r}) = UnitsOf(A \cup L) + Units[r] BY <2>1, UnitsWith
  <2>. QED BY <2>2, <2>5, <2>6, <2>7
<1>4. ASSUME r \in Probe PROVE UnitsOf(ProbeAccount(accounted \cup leases, d) \cup {r}) <= ProbeCap
  <2>. DEFINE A == ProbeAccount(accounted, d)
              L == ProbeAccount(leases, d)
  <2>1. A \in SUBSET Requests /\ L \in SUBSET Requests /\ A \cap L = {} /\ r \notin A \cup L
    BY <1>1, <1>2 DEF ProbeAccount
  <2>2. ProbeAccount(accounted \cup leases, d) = A \cup L BY DEF ProbeAccount
  <2>4. probeUsage[d] = UnitsOf(A) BY <1>1 DEF CapInv, AccountInv, ProbeInv, KeyInv
  <2>5. UnitsOf(A) + UnitsOf(L) + Units[r] <= ProbeCap
    BY <1>4, <2>4 DEF Fits, ProbeProjected, ProbeAccount, d
  <2>. HIDE DEF A, L
  <2>6. UnitsOf(A \cup L) = UnitsOf(A) + UnitsOf(L) BY <2>1, UnitsUnion
  <2>7. UnitsOf((A \cup L) \cup {r}) = UnitsOf(A \cup L) + Units[r] BY <2>1, UnitsWith
  <2>. QED BY <2>2, <2>5, <2>6, <2>7
<1>. QED BY <1>3, <1>4 DEF d, k

\* A request that moves keeps its key and its day.
LEMMA MoveKeeps ==
  ASSUME CapTypeOK, NEW r \in Requests, NEW place \in Places, Move(r, place)
  PROVE  /\ request' \in [Requests -> Place]
         /\ request'[r].at = place
         /\ \A q \in Requests : /\ request'[q].key = request[q].key /\ request'[q].day = request[q].day
                                /\ q # r => request'[q].at = request[q].at
BY DEF CapTypeOK, Move, Place

LEMMA BeginKeeps == ASSUME CapInv, NEW r \in Requests, NEW k \in Keys, Begin(r, k) PROVE CapInv'
<1>. USE DEF CapInv
<1>1. /\ request' \in [Requests -> Place] /\ At(r, "idle")
      /\ request'[r].at = "reserving" /\ request'[r].day = today
      /\ \A q \in Requests \ {r} : request'[q] = request[q]
      /\ UNCHANGED <<today, leases, usage, probeUsage, accounted, spent>>
  BY DEF Begin, CapTypeOK, Place, Places, At
<1>2. CapTypeOK' BY <1>1 DEF CapTypeOK, Place
<1>3. ~Counted(r) /\ r \notin accounted \cup leases BY <1>1 DEF RequestInv, CapTypeOK, Counted, At
<1>4. \A d \in Days, j \in Keys : r \notin spent[<<d, j>>] BY <1>1 DEF RequestInv, At
<1>5. RequestInv'
  <2>1. ~Counted(r)' BY <1>1, <1>4 DEF Counted, Place
  <2>2. \A q \in Requests \ {r} : Counted(q)' <=> Counted(q) BY <1>1 DEF Counted
  <2>3. today \in Nat BY DEF CapTypeOK, Days
  <2>. QED BY <1>1, <1>3, <1>4, <2>1, <2>2, <2>3 DEF RequestInv, CapTypeOK, At
<1>6. AccountInv'
  <2>1. \A q \in accounted \cup leases : request'[q].day = request[q].day /\ request'[q].key = request[q].key
    BY <1>1, <1>3 DEF CapTypeOK
  <2>2. today' \in Days /\ today' >= today BY <1>1 DEF CapTypeOK, Days
  <2>. QED BY <1>1, <2>1, <2>2, AccountsKept
<1>. QED BY <1>2, <1>5, <1>6

\* The steps that neither lease, send nor charge.
CapSettling == \/ \E r \in Requests : \/ ReserveCap(r) /\ ~Fits(r)
                                   \/ FailRequest(r) \/ Answer(r) \/ Abandon(r)
                                   \/ \E ok \in BOOLEAN : Withdraw(r, ok) \/ (ChargeCap(r, ok) /\ ~Unaccounted(r))
            \/ SweepLeases \/ CapMidnight

LEMMA SettlingKeeps == ASSUME CapInv, CapSettling PROVE CapInv'
<1>. USE DEF CapInv
<1>0. today \in Nat BY DEF CapTypeOK, Days
<1>1. ASSUME NEW r \in Requests, NEW place \in {"answered", "done"}, Move(r, place),
             ~At(r, "idle"), ~At(r, "done"), place = "answered" => At(r, "wire"),
             leases' = leases \/ (leases' = leases \ {r} /\ At(r, "reserved")),
             UNCHANGED <<today, usage, probeUsage, accounted, spent>>
      PROVE  CapInv'
  <2>1. /\ request' \in [Requests -> Place] /\ request'[r].at = place
        /\ \A q \in Requests : /\ request'[q].key = request[q].key /\ request'[q].day = request[q].day
                               /\ q # r => request'[q].at = request[q].at
    BY <1>1, MoveKeeps DEF Places
  <2>2. CapTypeOK' BY <1>1, <2>1 DEF CapTypeOK, Place
  <2>3. \A q \in Requests : Counted(q)' <=> Counted(q) BY <1>1, <2>1 DEF Counted
  <2>4. At(r, "reserved") => ~Counted(r) BY DEF RequestInv, CapTypeOK, Counted, At
  <2>5. RequestInv' BY <1>0, <1>1, <2>1, <2>3, <2>4 DEF RequestInv, CapTypeOK, At
  <2>6. AccountInv'
    <3>1. today' \in Days /\ today' >= today /\ leases' \subseteq leases BY <1>0, <1>1 DEF CapTypeOK
    <3>. QED BY <1>1, <2>1, <3>1, AccountsKept DEF CapTypeOK
  <2>. QED BY <2>2, <2>5, <2>6
<1>2. ASSUME UNCHANGED <<usage, probeUsage, accounted, spent, request, leases>>,
             today' = today \/ (today' \in Days /\ today' = today + 1)
      PROVE  CapInv'
  <2>1. CapTypeOK' BY <1>2 DEF CapTypeOK
  <2>2. \A q \in Requests : Counted(q)' <=> Counted(q) BY <1>2 DEF Counted
  <2>3. \A q \in Requests : request[q].day \in Nat BY DEF CapTypeOK, Days
  <2>4. RequestInv' BY <1>0, <1>2, <2>2, <2>3 DEF RequestInv, CapTypeOK, At
  <2>5. AccountInv' BY <1>0, <1>2, AccountsKept DEF CapTypeOK
  <2>. QED BY <2>1, <2>4, <2>5
<1>3. CASE SweepLeases
  <2>1. /\ leases' \subseteq leases /\ \A r \in leases : request[r].day >= today => r \in leases'
        /\ UNCHANGED <<today, request, usage, probeUsage, accounted, spent>>
    BY <1>3 DEF SweepLeases
  <2>2. CapTypeOK' BY <2>1 DEF CapTypeOK
  <2>3. \A q \in Requests : Counted(q)' <=> Counted(q) BY <2>1 DEF Counted
  <2>4. RequestInv' BY <1>0, <2>1, <2>3 DEF RequestInv, CapTypeOK, At
  <2>5. AccountInv' BY <1>0, <2>1, AccountsKept DEF CapTypeOK
  <2>. QED BY <2>2, <2>4, <2>5
<1>4. CASE CapMidnight
  <2>1. today' \in Days /\ today' = today + 1 BY <1>4, DayAssumption DEF CapMidnight, NextDay, Days, CapTypeOK, DayAssumption
  <2>. QED BY <1>2, <1>4, <2>1 DEF CapMidnight
<1>5. ASSUME NEW r \in Requests, NEW ok \in BOOLEAN, ChargeCap(r, ok), ~Unaccounted(r) PROVE CapInv'
  <2>1. UNCHANGED <<today, usage, probeUsage, accounted, leases, spent>> /\ At(r, "answered") BY <1>5 DEF ChargeCap
  <2>2. CASE ok BY <1>1, <1>5, <2>1, <2>2 DEF ChargeCap, At
  <2>3. CASE ~ok BY <1>2, <1>5, <2>1, <2>3 DEF ChargeCap
  <2>. QED BY <2>2, <2>3
<1>6. ASSUME NEW r \in Requests, NEW ok \in BOOLEAN, Withdraw(r, ok) PROVE CapInv'
  BY <1>1, <1>6 DEF Withdraw, At
<1>7. ASSUME NEW r \in Requests, (ReserveCap(r) /\ ~Fits(r)) \/ FailRequest(r) \/ Answer(r) \/ Abandon(r) PROVE CapInv'
  BY <1>1, <1>7 DEF ReserveCap, FailRequest, LeasesAfterError, Answer, Abandon, At
<1>. QED BY <1>3, <1>4, <1>5, <1>6, <1>7 DEF CapSettling

LEMMA ReserveKeeps == ASSUME CapInv, NEW r \in Requests, ReserveCap(r), Fits(r) PROVE CapInv'
<1>. USE DEF CapInv
<1>0. today \in Nat BY DEF CapTypeOK, Days
<1>1. /\ At(r, "reserving") /\ Move(r, "reserved") /\ leases' = leases \cup {r}
      /\ UNCHANGED <<today, usage, probeUsage, accounted, spent>>
  BY DEF ReserveCap
<1>2. /\ request' \in [Requests -> Place] /\ request'[r].at = "reserved"
      /\ \A q \in Requests : /\ request'[q].key = request[q].key /\ request'[q].day = request[q].day
                             /\ q # r => request'[q].at = request[q].at
  BY <1>1, MoveKeeps DEF Places
<1>3. CapTypeOK' BY <1>1, <1>2 DEF CapTypeOK, Place
<1>4. \A q \in Requests : Counted(q)' <=> Counted(q) BY <1>1, <1>2 DEF Counted
<1>5. ~Counted(r) /\ r \notin accounted BY <1>1 DEF RequestInv, CapTypeOK, Counted, At
<1>6. RequestInv' BY <1>0, <1>1, <1>2, <1>4, <1>5 DEF RequestInv, CapTypeOK, At
<1>7. ASSUME NEW d \in Days PROVE ProbeInv(d)'
  <2>1. ProbeInv(d) BY DEF AccountInv
  <2>2. ProbeAccount(accounted, d)' = ProbeAccount(accounted, d) BY <1>1, <1>2 DEF ProbeAccount, CapTypeOK
  <2>3. ProbeSpent(d)' = ProbeSpent(d) BY <1>1 DEF ProbeSpent
  <2>4. CASE r \in Probe /\ request[r].day = d
    <3>1. ProbeAccount(accounted \cup leases, d)' = ProbeAccount(accounted \cup leases, d) \cup {r}
      BY <1>1, <1>2, <2>4 DEF ProbeAccount, CapTypeOK
    <3>. QED BY <1>1, <2>1, <2>2, <2>3, <2>4, <3>1, ReservationFits DEF ProbeInv, UnitsOf
  <2>5. CASE ~(r \in Probe /\ request[r].day = d)
    <3>1. ProbeAccount(accounted \cup leases, d)' = ProbeAccount(accounted \cup leases, d)
      BY <1>1, <1>2, <2>5 DEF ProbeAccount, CapTypeOK
    <3>. QED BY <1>1, <2>1, <2>2, <2>3, <3>1 DEF ProbeInv, UnitsOf
  <2>. QED BY <2>4, <2>5
<1>8. ASSUME NEW d \in Days, NEW k \in Keys PROVE KeyInv(d, k)'
  <2>1. KeyInv(d, k) BY DEF AccountInv
  <2>2. Account(accounted, d, k)' = Account(accounted, d, k) BY <1>1, <1>2 DEF Account, CapTypeOK
  <2>4. CASE request[r].day = d /\ request[r].key = k
    <3>1. Account(accounted \cup leases, d, k)' = Account(accounted \cup leases, d, k) \cup {r}
      BY <1>1, <1>2, <2>4 DEF Account, CapTypeOK
    <3>. QED BY <1>1, <2>1, <2>2, <2>4, <3>1, ReservationFits DEF KeyInv, UnitsOf
  <2>5. CASE ~(request[r].day = d /\ request[r].key = k)
    <3>1. Account(accounted \cup leases, d, k)' = Account(accounted \cup leases, d, k)
      BY <1>1, <1>2, <2>5 DEF Account, CapTypeOK
    <3>. QED BY <1>1, <2>1, <2>2, <3>1 DEF KeyInv, UnitsOf
  <2>. QED BY <2>4, <2>5
<1>. QED BY <1>3, <1>6, <1>7, <1>8 DEF AccountInv

\* A request that is sent holds a lease of today, so what is spent stays within what is
\* charged or leased.
LEMMA SendKeeps == ASSUME CapInv, NEW r \in Requests, Send(r) PROVE CapInv'
<1>. USE DEF CapInv
<1>0. today \in Nat /\ today \in Days BY DEF CapTypeOK, Days
<1>1. /\ At(r, "reserved") /\ request[r].day = today /\ Move(r, "wire")
      /\ spent' = [spent EXCEPT ![<<today, request[r].key>>] = @ \cup {r}]
      /\ UNCHANGED <<today, leases, usage, probeUsage, accounted>>
  BY DEF Send, DayCurrent
<1>2. /\ request' \in [Requests -> Place] /\ request'[r].at = "wire"
      /\ \A q \in Requests : /\ request'[q].key = request[q].key /\ request'[q].day = request[q].day
                             /\ q # r => request'[q].at = request[q].at
  BY <1>1, MoveKeeps DEF Places
<1>3. /\ request[r].key \in Keys
      /\ \A d \in Days, k \in Keys : spent'[<<d, k>>] =
           IF d = today /\ k = request[r].key THEN spent[<<d, k>>] \cup {r} ELSE spent[<<d, k>>]
  BY <1>0, <1>1 DEF CapTypeOK
<1>4. CapTypeOK' BY <1>0, <1>1, <1>2 DEF CapTypeOK, Place
<1>5. \A q \in Requests : request[q].day \in Days /\ request[q].key \in Keys BY DEF CapTypeOK
<1>6. Counted(r)' /\ \A q \in Requests : q # r => (Counted(q)' <=> Counted(q))
  <2>1. ASSUME NEW q \in Requests
        PROVE  spent'[<<request'[q].day, request'[q].key>>] =
                 IF request[q].day = today /\ request[q].key = request[r].key
                 THEN spent[<<request[q].day, request[q].key>>] \cup {r}
                 ELSE spent[<<request[q].day, request[q].key>>]
    <3>1. PICK d, k : d = request[q].day /\ k = request[q].key OBVIOUS
    <3>2. d \in Days /\ k \in Keys BY <1>5, <3>1
    <3>3. spent'[<<d, k>>] = IF d = today /\ k = request[r].key THEN spent[<<d, k>>] \cup {r} ELSE spent[<<d, k>>]
      BY <1>3, <3>2
    <3>4. request'[q].day = d /\ request'[q].key = k BY <1>2, <3>1
    <3>. QED BY <3>1, <3>3, <3>4
  <2>2. Counted(r)' BY <1>1, <2>1 DEF Counted
  <2>3. ASSUME NEW q \in Requests, q # r PROVE Counted(q)' <=> Counted(q) BY <2>1, <2>3 DEF Counted
  <2>. QED BY <2>2, <2>3
<1>7. r \in leases /\ r \notin accounted BY <1>1 DEF RequestInv, At
<1>8. RequestInv'
  <2>1. \A q \in Requests :
       /\ request'[q].day <= today'
       /\ q \in accounted' => At(q, "answered")' \/ At(q, "done")'
       /\ q \in accounted' => Counted(q)' /\ q \notin leases'
       /\ At(q, "wire")' \/ At(q, "answered")' => Counted(q)'
       /\ At(q, "idle")' \/ At(q, "reserving")' => q \notin leases'
       /\ At(q, "reserved")' /\ request'[q].day = today' => q \in leases'
       /\ Counted(q)' /\ request'[q].day = today' => q \in accounted' \cup leases'
    BY <1>0, <1>1, <1>2, <1>6, <1>7 DEF RequestInv, At
  <2>2. ASSUME NEW d \in Days, NEW k \in Keys, NEW q \in spent'[<<d, k>>]
        PROVE  /\ request'[q].day = d /\ request'[q].key = k
               /\ At(q, "wire")' \/ At(q, "answered")' \/ At(q, "done")'
    BY <1>1, <1>2, <1>3, <2>2 DEF RequestInv, CapTypeOK, At
  <2>. QED BY <2>1, <2>2 DEF RequestInv, Days
<1>11. ASSUME NEW k \in Keys, NEW q \in spent'[<<today, k>>] PROVE q \in Account(accounted \cup leases, today, k)
  <2>1. CASE q \in spent[<<today, k>>]
    <3>1. q \in Requests BY <1>0, <2>1 DEF CapTypeOK
    <3>2. request[q].day = today /\ request[q].key = k BY <1>0, <2>1 DEF RequestInv
    <3>3. Counted(q) BY <2>1, <3>2 DEF Counted
    <3>4. q \in accounted \cup leases BY <3>1, <3>2, <3>3 DEF RequestInv
    <3>. QED BY <3>2, <3>4 DEF Account
  <2>2. CASE q = r /\ k = request[r].key BY <1>1, <1>7, <2>2 DEF Account
  <2>3. q \in spent[<<today, k>>] \/ (q = r /\ k = request[r].key) BY <1>0, <1>3, <1>11
  <2>. QED BY <2>1, <2>2, <2>3
<1>9. ASSUME NEW d \in Days PROVE ProbeInv(d)'
  <2>1. ProbeInv(d) BY DEF AccountInv
  <2>3. /\ ProbeAccount(accounted, d)' = ProbeAccount(accounted, d)
        /\ ProbeAccount(accounted \cup leases, d)' = ProbeAccount(accounted \cup leases, d)
    BY <1>1, <1>2 DEF ProbeAccount, CapTypeOK
  <2>4. UnitsOf(ProbeSpent(d)') <= ProbeCap
    <3>1. CASE d = today
      <4>1. ASSUME NEW q \in ProbeSpent(d)' PROVE q \in ProbeAccount(accounted \cup leases, d)
        <5>1. PICK k \in Keys : q \in spent'[<<d, k>>] /\ q \in Probe BY <4>1 DEF ProbeSpent
        <5>2. q \in Account(accounted \cup leases, d, k) BY <1>11, <3>1, <5>1
        <5>. QED BY <5>1, <5>2 DEF Account, ProbeAccount
      <4>2. ProbeAccount(accounted \cup leases, d) \in SUBSET Requests BY AccountsTyped DEF CapTypeOK
      <4>3. ProbeSpent(d)' \in SUBSET Requests /\ ProbeSpent(d)' \subseteq ProbeAccount(accounted \cup leases, d)
        BY <4>1, <4>2
      <4>4. UnitsOf(ProbeSpent(d)') <= UnitsOf(ProbeAccount(accounted \cup leases, d)) BY <4>2, <4>3, UnitsMonotone
      <4>5. UnitsOf(ProbeAccount(accounted \cup leases, d)) <= ProbeCap BY <1>0, <2>1, <3>1 DEF ProbeInv
      <4>6. UnitsOf(ProbeSpent(d)') \in Nat /\ UnitsOf(ProbeAccount(accounted \cup leases, d)) \in Nat
        BY <4>2, <4>3, UnitsNat
      <4>. QED BY <4>4, <4>5, <4>6, CapAssumption DEF CapAssumption
    <3>2. CASE d # today
      <4>0. \A k \in Keys : spent'[<<d, k>>] = spent[<<d, k>>] BY <1>3, <3>2
      <4>1. ProbeSpent(d)' = ProbeSpent(d)
        <5>1. {spent'[<<d, k>>] : k \in Keys} = {spent[<<d, k>>] : k \in Keys} BY <4>0
        <5>. QED BY <5>1 DEF ProbeSpent
      <4>. QED BY <2>1, <4>1 DEF ProbeInv
    <3>. QED BY <3>1, <3>2
  <2>. QED BY <1>1, <2>1, <2>3, <2>4 DEF ProbeInv, UnitsOf
<1>10. ASSUME NEW d \in Days, NEW k \in Keys PROVE KeyInv(d, k)'
  <2>1. KeyInv(d, k) BY DEF AccountInv
  <2>2. /\ Account(accounted, d, k)' = Account(accounted, d, k)
        /\ Account(accounted \cup leases, d, k)' = Account(accounted \cup leases, d, k)
    BY <1>1, <1>2 DEF Account, CapTypeOK
  <2>3. UnitsOf(spent'[<<d, k>>]) <= KeyCap
    <3>1. CASE d = today /\ k = request[r].key
      <4>1. \A q \in spent'[<<d, k>>] : q \in Account(accounted \cup leases, d, k) BY <1>11, <3>1
      <4>2. Account(accounted \cup leases, d, k) \in SUBSET Requests BY AccountsTyped DEF CapTypeOK
      <4>3. spent'[<<d, k>>] \in SUBSET Requests /\ spent'[<<d, k>>] \subseteq Account(accounted \cup leases, d, k)
        BY <4>1, <4>2
      <4>4. UnitsOf(spent'[<<d, k>>]) <= UnitsOf(Account(accounted \cup leases, d, k)) BY <4>2, <4>3, UnitsMonotone
      <4>5. UnitsOf(Account(accounted \cup leases, d, k)) <= KeyCap BY <1>0, <2>1, <3>1 DEF KeyInv
      <4>6. UnitsOf(spent'[<<d, k>>]) \in Nat /\ UnitsOf(Account(accounted \cup leases, d, k)) \in Nat
        BY <4>2, <4>3, UnitsNat
      <4>. QED BY <4>4, <4>5, <4>6, CapAssumption DEF CapAssumption
    <3>2. CASE ~(d = today /\ k = request[r].key)
      <4>1. spent'[<<d, k>>] = spent[<<d, k>>] BY <1>3, <3>2
      <4>. QED BY <2>1, <4>1 DEF KeyInv
    <3>. QED BY <3>1, <3>2
  <2>. QED BY <1>1, <2>1, <2>2, <2>3 DEF KeyInv, UnitsOf
<1>. QED BY <1>4, <1>8, <1>9, <1>10 DEF AccountInv

\* A charge adds the units of a request that was spent, and takes its lease, if the sweep has
\* not: then its day is over, and no later day counts it.
LEMMA ChargeKeeps ==
  ASSUME CapInv, NEW r \in Requests, NEW known \in BOOLEAN, ChargeCap(r, known), Unaccounted(r)
  PROVE  CapInv'
<1>. USE DEF CapInv
<1>. DEFINE e == request[r].day
            j == request[r].key
<1>0. today \in Nat /\ \A q \in Requests : request[q].day \in Nat BY DEF CapTypeOK, Days
<1>1. /\ At(r, "answered") /\ r \notin accounted
      /\ usage' = [usage EXCEPT ![<<e, j>>] = @ + Units[r]]
      /\ probeUsage' = IF r \in Probe THEN [probeUsage EXCEPT ![e] = @ + Units[r]] ELSE probeUsage
      /\ accounted' = accounted \cup {r} /\ leases' = leases \ {r}
      /\ UNCHANGED <<today, spent>>
  BY DEF ChargeCap, Unaccounted
<1>2. /\ request' \in [Requests -> Place] /\ (request'[r].at = "answered" \/ request'[r].at = "done")
      /\ \A q \in Requests : /\ request'[q].key = request[q].key /\ request'[q].day = request[q].day
                             /\ q # r => request'[q].at = request[q].at
  <2>1. CASE known BY <2>1, MoveKeeps DEF ChargeCap, Places
  <2>2. CASE ~known BY <1>1, <2>2 DEF ChargeCap, CapTypeOK, Place, At
  <2>. QED BY <2>1, <2>2
<1>3. e \in Days /\ j \in Keys /\ Units[r] \in Nat BY CapAssumption DEF CapTypeOK, CapAssumption
<1>4. CapTypeOK' BY <1>1, <1>2, <1>3 DEF CapTypeOK, Place
<1>5. \A q \in Requests : Counted(q)' <=> Counted(q) BY <1>1, <1>2 DEF Counted
<1>6. Counted(r) /\ (e = today => r \in leases) BY <1>1 DEF RequestInv
<1>7. RequestInv' BY <1>0, <1>1, <1>2, <1>5, <1>6 DEF RequestInv, CapTypeOK, At
<1>8. ASSUME NEW d \in Days PROVE ProbeInv(d)'
  <2>1. ProbeInv(d) /\ ProbeAccount(accounted, d) \in SUBSET Requests BY AccountsTyped DEF AccountInv, CapTypeOK
  <2>2. ProbeSpent(d)' = ProbeSpent(d) BY <1>1 DEF ProbeSpent
  <2>3. probeUsage'[d] = UnitsOf(ProbeAccount(accounted, d)')
    <3>1. CASE r \in Probe /\ e = d
      <4>1. ProbeAccount(accounted, d)' = ProbeAccount(accounted, d) \cup {r} /\ r \notin ProbeAccount(accounted, d)
        BY <1>1, <1>2, <3>1 DEF ProbeAccount, CapTypeOK
      <4>2. UnitsOf(ProbeAccount(accounted, d)') = UnitsOf(ProbeAccount(accounted, d)) + Units[r]
        BY <2>1, <4>1, UnitsWith
      <4>. QED BY <1>1, <2>1, <3>1, <4>2 DEF ProbeInv, CapTypeOK
    <3>2. CASE ~(r \in Probe /\ e = d)
      <4>1. ProbeAccount(accounted, d)' = ProbeAccount(accounted, d)
        BY <1>1, <1>2, <3>2 DEF ProbeAccount, CapTypeOK
      <4>2. probeUsage'[d] = probeUsage[d] BY <1>1, <3>2 DEF CapTypeOK
      <4>. QED BY <2>1, <4>1, <4>2 DEF ProbeInv
    <3>. QED BY <3>1, <3>2
  <2>4. ASSUME d >= today
        PROVE  ProbeAccount(accounted \cup leases, d)' = ProbeAccount(accounted \cup leases, d)
    <3>1. e = d => r \in leases BY <1>0, <1>6, <2>4 DEF RequestInv, Days
    <3>. QED BY <1>1, <1>2, <3>1 DEF ProbeAccount, CapTypeOK
  <2>. QED BY <1>1, <2>1, <2>2, <2>3, <2>4 DEF ProbeInv, UnitsOf
<1>9. ASSUME NEW d \in Days, NEW k \in Keys PROVE KeyInv(d, k)'
  <2>1. KeyInv(d, k) /\ Account(accounted, d, k) \in SUBSET Requests BY AccountsTyped DEF AccountInv, CapTypeOK
  <2>3. usage'[<<d, k>>] = UnitsOf(Account(accounted, d, k)')
    <3>1. CASE e = d /\ j = k
      <4>1. Account(accounted, d, k)' = Account(accounted, d, k) \cup {r} /\ r \notin Account(accounted, d, k)
        BY <1>1, <1>2, <3>1 DEF Account, CapTypeOK
      <4>2. UnitsOf(Account(accounted, d, k)') = UnitsOf(Account(accounted, d, k)) + Units[r]
        BY <2>1, <4>1, UnitsWith
      <4>. QED BY <1>1, <2>1, <3>1, <4>2 DEF KeyInv, CapTypeOK
    <3>2. CASE ~(e = d /\ j = k)
      <4>1. Account(accounted, d, k)' = Account(accounted, d, k)
        BY <1>1, <1>2, <3>2 DEF Account, CapTypeOK
      <4>2. usage'[<<d, k>>] = usage[<<d, k>>] BY <1>1, <3>2 DEF CapTypeOK
      <4>. QED BY <2>1, <4>1, <4>2 DEF KeyInv
    <3>. QED BY <3>1, <3>2
  <2>4. ASSUME d >= today
        PROVE  Account(accounted \cup leases, d, k)' = Account(accounted \cup leases, d, k)
    <3>1. e = d => r \in leases BY <1>0, <1>6, <2>4 DEF RequestInv, Days
    <3>. QED BY <1>1, <1>2, <3>1 DEF Account, CapTypeOK
  <2>. QED BY <1>1, <2>1, <2>3, <2>4 DEF KeyInv, UnitsOf
<1>. QED BY <1>4, <1>7, <1>8, <1>9 DEF AccountInv

LEMMA CapStart == CapInit => CapInv
<1>. SUFFICES ASSUME CapInit PROVE CapInv OBVIOUS
<1>0. today \in Days /\ 1 \in Days /\ today = 1 BY DayAssumption DEF CapInit, Days, DayAssumption
<1>1. (CHOOSE k \in Keys : TRUE) \in Keys BY CapAssumption DEF CapAssumption
<1>2. CapTypeOK BY <1>0, <1>1 DEF CapInit, CapTypeOK, Places
<1>3. RequestInv BY <1>0, <1>1 DEF CapInit, RequestInv, At, Counted
<1>4. UnitsOf({}) = 0 BY CapAssumption, SumEmpty DEF CapAssumption, UnitsOf
<1>5. ASSUME NEW d \in Days PROVE ProbeInv(d)
  <2>1. ProbeAccount(accounted, d) = {} /\ ProbeAccount(accounted \cup leases, d) = {}
    BY DEF CapInit, ProbeAccount
  <2>2. ProbeSpent(d) = {}
    <3>1. \A k \in Keys : spent[<<d, k>>] = {} BY DEF CapInit
    <3>. QED BY <3>1 DEF ProbeSpent
  <2>3. probeUsage[d] = 0 BY DEF CapInit
  <2>. QED BY <1>4, <2>1, <2>2, <2>3, CapAssumption DEF ProbeInv, CapAssumption
<1>6. ASSUME NEW d \in Days, NEW k \in Keys PROVE KeyInv(d, k)
  <2>1. Account(accounted, d, k) = {} /\ Account(accounted \cup leases, d, k) = {} BY DEF CapInit, Account
  <2>2. spent[<<d, k>>] = {} /\ usage[<<d, k>>] = 0 BY DEF CapInit
  <2>3. UnitsOf(Account(accounted, d, k)) = 0 /\ UnitsOf(Account(accounted \cup leases, d, k)) = 0
    BY <1>4, <2>1
  <2>4. UnitsOf(spent[<<d, k>>]) = 0 BY <1>4, <2>2
  <2>. QED BY <2>2, <2>3, <2>4, CapAssumption DEF KeyInv, CapAssumption
<1>. QED BY <1>2, <1>3, <1>5, <1>6 DEF CapInv, AccountInv

LEMMA CapStep == CapInv /\ [CapNext]_capVars => CapInv'
<1>. SUFFICES ASSUME CapInv, [CapNext]_capVars PROVE CapInv' OBVIOUS
<1>1. CASE SweepLeases \/ CapMidnight BY <1>1, SettlingKeeps DEF CapSettling
<1>2. ASSUME NEW r \in Requests, ReserveCap(r) PROVE CapInv'
  <2>1. CASE Fits(r) BY <1>2, <2>1, ReserveKeeps
  <2>2. CASE ~Fits(r) BY <1>2, <2>2, SettlingKeeps DEF CapSettling
  <2>. QED BY <2>1, <2>2
<1>3. ASSUME NEW r \in Requests, FailRequest(r) \/ Answer(r) \/ Abandon(r) PROVE CapInv'
  BY <1>3, SettlingKeeps DEF CapSettling
<1>4. ASSUME NEW r \in Requests, Send(r) PROVE CapInv' BY <1>4, SendKeeps
<1>5. ASSUME NEW r \in Requests, NEW ok \in BOOLEAN, Withdraw(r, ok) PROVE CapInv'
  BY <1>5, SettlingKeeps DEF CapSettling
<1>6. ASSUME NEW r \in Requests, NEW ok \in BOOLEAN, ChargeCap(r, ok) PROVE CapInv'
  <2>1. CASE Unaccounted(r) BY <1>6, <2>1, ChargeKeeps
  <2>2. CASE ~Unaccounted(r) BY <1>6, <2>2, SettlingKeeps DEF CapSettling
  <2>. QED BY <2>1, <2>2
<1>7. ASSUME NEW r \in Requests, NEW k \in Keys, Begin(r, k) PROVE CapInv' BY <1>7, BeginKeeps
<1>8. CASE UNCHANGED capVars
  <2>1. UNCHANGED capVars /\ today' \in Days /\ today' >= today BY <1>8 DEF capVars, CapInv, CapTypeOK, Days
  <2>2. AccountInv' BY <2>1, AccountsKept DEF capVars
  <2>. QED BY <2>1, <2>2 DEF capVars, CapInv, CapTypeOK, RequestInv, Counted, At
<1>. QED BY <1>1, <1>2, <1>3, <1>4, <1>5, <1>6, <1>7, <1>8 DEF CapNext

LEMMA CapInvariant == CapSpec => []CapInv
BY CapStart, CapStep, PTL DEF CapSpec

\* Every reachable state of the caps is well typed.
THEOREM CapTypeCorrect == CapSpec => []CapTypeOK
<1>1. CapInv => CapTypeOK BY DEF CapInv
<1>. QED BY <1>1, CapInvariant, PTL

\* Whatever fails, is abandoned, swept, charged again or sent over midnight, no day's spending
\* exceeds the cap of a key or of probe work, and usage counts nothing that was not spent.
THEOREM WithinCaps == CapSpec => []SpendWithinCaps
<1>1. CapInv => SpendWithinCaps
  <2>. SUFFICES ASSUME CapInv, NEW d \in Days PROVE
         /\ \A k \in Keys : usage[<<d, k>>] <= UnitsOf(spent[<<d, k>>]) /\ UnitsOf(spent[<<d, k>>]) <= KeyCap
         /\ UnitsOf(Probe \cap UNION {spent[<<d, k>>] : k \in Keys}) <= ProbeCap
    BY DEF SpendWithinCaps
  <2>1. ProbeInv(d) /\ \A k \in Keys : KeyInv(d, k) BY DEF CapInv, AccountInv
  <2>2. ASSUME NEW k \in Keys PROVE usage[<<d, k>>] <= UnitsOf(spent[<<d, k>>])
    <3>1. Account(accounted, d, k) \subseteq spent[<<d, k>>] BY DEF CapInv, RequestInv, CapTypeOK, Account, Counted
    <3>2. spent[<<d, k>>] \in SUBSET Requests BY DEF CapInv, CapTypeOK
    <3>3. Account(accounted, d, k) \in SUBSET Requests BY <3>1, <3>2
    <3>4. UnitsOf(Account(accounted, d, k)) <= UnitsOf(spent[<<d, k>>]) BY <3>1, <3>2, <3>3, UnitsMonotone
    <3>. QED BY <2>1, <3>4 DEF KeyInv
  <2>. QED BY <2>1, <2>2 DEF ProbeInv, ProbeSpent, KeyInv
<1>. QED BY <1>1, CapInvariant, PTL

(***************************************************************************)
(* The daily budget                                                        *)
(***************************************************************************)
Reservation == [status : {"NONE", "RESERVED", "CONSUMED", "RELEASED", "EXPIRED"}, units : Nat,
                lapsed : BOOLEAN, charged : 0 .. MaxCharges]

\* What the live ones of the reservations res hold, and what they may still use.
Counts(x) == x.status = "RESERVED" /\ ~x.lapsed
HeldOf(res) == [o \in Operations |-> IF Counts(res[o]) THEN res[o].units ELSE 0]
LeftOf(res) == [o \in Operations |-> IF Counts(res[o]) /\ res[o].units > res[o].charged
                                     THEN res[o].units - res[o].charged ELSE 0]
Total(f) == SumFunctionOnSet(f, Operations)

\* No interleaving of admissions holds more than the budget.  That alone keeps the balance
\* when a day starts: what is still held then came from the day before.
LedgerInv ==
  /\ LedgerTypeOK
  /\ Total(HeldOf(reservation)) <= Budget
  /\ tracker.used + Total(LeftOf(reservation)) <= Budget + uncovered

LEMMA TermsTyped ==
  ASSUME NEW res \in [Operations -> Reservation]
  PROVE  /\ HeldOf(res) \in [Operations -> Nat] /\ LeftOf(res) \in [Operations -> Nat]
         /\ \A o \in Operations : LeftOf(res)[o] <= HeldOf(res)[o]
<1>1. \A o \in Operations : res[o].units \in Nat /\ res[o].charged \in Nat
  BY LedgerAssumption DEF Reservation, LedgerAssumption
<1>2. HeldOf(res) \in [Operations -> Nat] BY <1>1 DEF HeldOf
<1>3. LeftOf(res) \in [Operations -> Nat] BY <1>1 DEF LeftOf
<1>4. \A o \in Operations : LeftOf(res)[o] <= HeldOf(res)[o] BY <1>1 DEF LeftOf, HeldOf
<1>. QED BY <1>2, <1>3, <1>4

LEMMA TotalNat == ASSUME NEW f \in [Operations -> Nat] PROVE Total(f) \in Nat
BY LedgerAssumption, SumNat DEF LedgerAssumption, Total

LEMMA TotalAtMost ==
  ASSUME NEW f \in [Operations -> Nat], NEW g \in [Operations -> Nat], \A o \in Operations : f[o] <= g[o]
  PROVE  Total(f) <= Total(g)
BY LedgerAssumption, SumAtMost DEF LedgerAssumption, Total

LEMMA TotalWithout ==
  ASSUME NEW f \in [Operations -> Nat], NEW o \in Operations
  PROVE  /\ Total(f) = f[o] + SumFunctionOnSet(f, Operations \ {o})
         /\ SumFunctionOnSet(f, Operations \ {o}) \in Nat
<1>1. IsFiniteSet(Operations) BY LedgerAssumption DEF LedgerAssumption
<1>. QED BY <1>1, SumSplit, SumNat DEF Total

\* Changing the term of one operation changes the total by as much.
LEMMA TotalChanged ==
  ASSUME NEW f \in [Operations -> Nat], NEW g \in [Operations -> Nat], NEW o \in Operations,
         \A x \in Operations \ {o} : g[x] = f[x]
  PROVE  Total(g) = g[o] + SumFunctionOnSet(f, Operations \ {o})
<1>1. SumFunctionOnSet(g, Operations \ {o}) = SumFunctionOnSet(f, Operations \ {o})
  BY LedgerAssumption, SumSame DEF LedgerAssumption
<1>. QED BY <1>1, TotalWithout

LEMMA HeldIsSum ==
  ASSUME LedgerTypeOK, NEW o \in Operations
  PROVE  Held(Operations \ {o}) = SumFunctionOnSet(HeldOf(reservation), Operations \ {o})
<1>. DEFINE S == Operations \ {o}
            f == [x \in S |-> IF Live(x) THEN reservation[x].units ELSE 0]
<1>1. reservation \in [Operations -> Reservation] BY DEF LedgerTypeOK, Reservation
<1>2. HeldOf(reservation) \in [Operations -> Nat] BY <1>1, TermsTyped
<1>3. \A x \in S : f[x] = HeldOf(reservation)[x] BY DEF HeldOf, Live, Counts
<1>4. f \in [S -> Nat] BY <1>2, <1>3
<1>5. IsFiniteSet(Operations) /\ IsFiniteSet(S) BY LedgerAssumption, FS_Subset DEF LedgerAssumption
<1>. HIDE DEF f, S
<1>6. S \subseteq Operations BY DEF S
<1>7. SumFunctionOnSet(f, S) = SumFunctionOnSet(HeldOf(reservation), S)
  BY <1>2, <1>3, <1>4, <1>5, <1>6, SumSame
<1>. QED BY <1>7 DEF Held, f, S

LEMMA BalanceIsTotal == LedgerInv => AdmissionWithinBudget
<1>1. [o \in Operations |-> Left(o)] = LeftOf(reservation) BY DEF Left, Live, LeftOf, Counts
<1>. QED BY <1>1 DEF LedgerInv, AdmissionWithinBudget, Total

\* The balance of the tracker that a transaction has rolled over.
LEMMA RolledBalance ==
  ASSUME LedgerInv, NEW day \in 0 .. LastDay
  PROVE  /\ Rolled(day) \in [day : 0 .. LastDay, used : Nat]
         /\ Rolled(day).used + Total(LeftOf(reservation))
              <= Budget + (IF Rolled(day).day # tracker.day THEN 0 ELSE uncovered)
<1>1. tracker \in [day : 0 .. LastDay, used : Nat] /\ uncovered \in Nat BY DEF LedgerInv, LedgerTypeOK
<1>2. CASE tracker.day = day BY <1>1, <1>2 DEF Rolled, LedgerInv
<1>3. CASE tracker.day # day
  <2>1. Rolled(day) = [day |-> day, used |-> 0] BY <1>3 DEF Rolled
  <2>2. reservation \in [Operations -> Reservation] BY DEF LedgerInv, LedgerTypeOK, Reservation
  <2>3. /\ Total(LeftOf(reservation)) \in Nat /\ Total(HeldOf(reservation)) \in Nat
        /\ Total(LeftOf(reservation)) <= Total(HeldOf(reservation))
    BY <2>2, TermsTyped, TotalNat, TotalAtMost
  <2>. QED BY <1>3, <2>1, <2>3, LedgerAssumption DEF LedgerInv, LedgerAssumption
<1>. QED BY <1>2, <1>3

RollsOver(day) == /\ tracker' = Rolled(day)
                  /\ uncovered' = IF tracker'.day # tracker.day THEN 0 ELSE uncovered

\* Reservations that hold no more keep the balance, also on a new day.
LEMMA ShrinkingKeeps ==
  ASSUME LedgerInv, LedgerTypeOK',
         \A o \in Operations : /\ HeldOf(reservation')[o] <= HeldOf(reservation)[o]
                               /\ LeftOf(reservation')[o] <= LeftOf(reservation)[o],
         UNCHANGED <<tracker, uncovered>> \/ \E day \in 0 .. LastDay : RollsOver(day)
  PROVE  LedgerInv'
<1>1. reservation \in [Operations -> Reservation] /\ reservation' \in [Operations -> Reservation]
  BY DEF LedgerInv, LedgerTypeOK, Reservation
<1>2. /\ HeldOf(reservation) \in [Operations -> Nat] /\ HeldOf(reservation') \in [Operations -> Nat]
      /\ LeftOf(reservation) \in [Operations -> Nat] /\ LeftOf(reservation') \in [Operations -> Nat]
  BY <1>1, TermsTyped
<1>3. /\ Total(HeldOf(reservation')) <= Total(HeldOf(reservation))
      /\ Total(LeftOf(reservation')) <= Total(LeftOf(reservation))
  BY <1>2, TotalAtMost
<1>4. /\ Total(HeldOf(reservation)) \in Nat /\ Total(HeldOf(reservation')) \in Nat
      /\ Total(LeftOf(reservation)) \in Nat /\ Total(LeftOf(reservation')) \in Nat
  BY <1>2, TotalNat
<1>5. tracker'.used + Total(LeftOf(reservation)) <= Budget + uncovered'
  <2>1. CASE UNCHANGED <<tracker, uncovered>> BY <2>1 DEF LedgerInv
  <2>2. ASSUME NEW day \in 0 .. LastDay, RollsOver(day) PROVE tracker'.used + Total(LeftOf(reservation)) <= Budget + uncovered'
    BY <2>2, RolledBalance DEF RollsOver
  <2>. QED BY <2>1, <2>2
<1>6. tracker'.used \in Nat /\ uncovered' \in Nat BY DEF LedgerTypeOK
<1>. QED BY <1>3, <1>4, <1>5, <1>6, LedgerAssumption DEF LedgerInv, LedgerAssumption

\* What is admitted for one operation fits beside what the others hold.
LEMMA AdmissionKeeps ==
  ASSUME LedgerInv, LedgerTypeOK', NEW o \in Operations, NEW day \in 0 .. LastDay, NEW units \in Nat,
         AdmitsUnits(Rolled(day), o, units), tracker' = Rolled(day),
         \A x \in Operations \ {o} : HeldOf(reservation')[x] = HeldOf(reservation)[x],
         HeldOf(reservation')[o] <= units
  PROVE  LedgerInv'
<1>1. reservation \in [Operations -> Reservation] /\ reservation' \in [Operations -> Reservation]
  BY DEF LedgerInv, LedgerTypeOK, Reservation
<1>2. /\ HeldOf(reservation) \in [Operations -> Nat] /\ HeldOf(reservation') \in [Operations -> Nat]
      /\ LeftOf(reservation') \in [Operations -> Nat]
      /\ \A x \in Operations : LeftOf(reservation')[x] <= HeldOf(reservation')[x]
  BY <1>1, TermsTyped
<1>. DEFINE others == SumFunctionOnSet(HeldOf(reservation), Operations \ {o})
<1>3. Held(Operations \ {o}) = others BY HeldIsSum DEF LedgerInv
<1>4. others \in Nat BY <1>2, TotalWithout
<1>5. Total(HeldOf(reservation')) = HeldOf(reservation')[o] + others BY <1>2, TotalChanged
<1>6. Rolled(day).used + others + units <= Budget BY <1>3 DEF AdmitsUnits
<1>. HIDE DEF others
<1>7. tracker'.used \in Nat /\ uncovered' \in Nat BY DEF LedgerTypeOK
<1>8. Total(HeldOf(reservation')) \in Nat /\ Total(LeftOf(reservation')) \in Nat BY <1>2, TotalNat
<1>9. Total(LeftOf(reservation')) <= Total(HeldOf(reservation')) BY <1>2, TotalAtMost
<1>10. HeldOf(reservation')[o] \in Nat BY <1>2
<1>11. tracker'.used + Total(HeldOf(reservation')) <= Budget
  BY <1>4, <1>5, <1>6, <1>7, <1>10, LedgerAssumption DEF LedgerAssumption
<1>. QED BY <1>7, <1>8, <1>9, <1>11, LedgerAssumption DEF LedgerInv, LedgerAssumption

LEMMA SweptTerms ==
  ASSUME LedgerTypeOK
  PROVE  /\ SweptReservations \in [Operations -> Reservation]
         /\ HeldOf(SweptReservations) = HeldOf(reservation) /\ LeftOf(SweptReservations) = LeftOf(reservation)
         /\ \A o \in Operations : ~Counts(reservation[o]) => ~Counts(SweptReservations[o])
<1>1. ASSUME NEW o \in Operations
      PROVE  /\ SweptReservations[o] \in Reservation
             /\ Counts(SweptReservations[o]) <=> Counts(reservation[o])
             /\ SweptReservations[o].units = reservation[o].units
             /\ SweptReservations[o].charged = reservation[o].charged
  <2>1. reservation[o] \in Reservation BY DEF LedgerTypeOK, Reservation
  <2>2. CASE reservation[o].status = "RESERVED" /\ reservation[o].lapsed
    <3>1. SweptReservations[o] = [reservation[o] EXCEPT !.status = "EXPIRED"] BY <2>2, Zenon DEF SweptReservations
    <3>. QED BY <2>1, <2>2, <3>1 DEF Reservation, Counts
  <2>3. CASE ~(reservation[o].status = "RESERVED" /\ reservation[o].lapsed)
    <3>1. SweptReservations[o] = reservation[o] BY <2>3, Zenon DEF SweptReservations
    <3>. QED BY <2>1, <3>1
  <2>. QED BY <2>2, <2>3
<1>2. SweptReservations \in [Operations -> Reservation] BY <1>1 DEF SweptReservations
<1>3. HeldOf(SweptReservations) = HeldOf(reservation) BY <1>1 DEF HeldOf
<1>4. LeftOf(SweptReservations) = LeftOf(reservation) BY <1>1 DEF LeftOf
<1>. QED BY <1>1, <1>2, <1>3, <1>4

LEMMA ClosesTyped ==
  ASSUME LedgerTypeOK, NEW o \in Operations, NEW kind \in {"reserve", "topUp", "charge", "reconcile"}, Close(o, kind)
  PROVE  /\ transaction' \in [Operations -> [kind : {"none", "reserve", "topUp", "charge", "reconcile"}, day : 0 .. LastDay]]
         /\ today' = today /\ transaction[o].day \in 0 .. LastDay
BY DayAssumption DEF LedgerTypeOK, Close, NoTransaction, DayAssumption

LEMMA ReserveBalance == ASSUME LedgerInv, NEW o \in Operations, TryReserve(o) PROVE LedgerInv'
<1>. DEFINE day == transaction[o].day
<1>1. /\ transaction' \in [Operations -> [kind : {"none", "reserve", "topUp", "charge", "reconcile"}, day : 0 .. LastDay]]
      /\ today' = today /\ day \in 0 .. LastDay
  BY ClosesTyped DEF TryReserve, LedgerInv
<1>2. Rolled(day) \in [day : 0 .. LastDay, used : Nat] BY <1>1, RolledBalance
<1>3. uncovered' = (IF tracker'.day # tracker.day THEN 0 ELSE uncovered) /\ uncovered' \in Nat
  BY DEF TryReserve, LedgerInv, LedgerTypeOK
<1>4. Ask[o] \in Nat BY LedgerAssumption DEF LedgerAssumption
<1>5. CASE tracker' = Rolled(day) /\ reservation' = SweptReservations /\ working' = working \cup {o}
  <2>1. LedgerTypeOK' BY <1>1, <1>2, <1>3, <1>5, SweptTerms DEF LedgerInv, LedgerTypeOK, Reservation
  <2>2. /\ HeldOf(reservation') = HeldOf(reservation) /\ LeftOf(reservation') = LeftOf(reservation)
        /\ HeldOf(reservation) \in [Operations -> Nat] /\ LeftOf(reservation) \in [Operations -> Nat]
    BY <1>5, SweptTerms, TermsTyped DEF LedgerInv, LedgerTypeOK, Reservation
  <2>3. \A x \in Operations : /\ HeldOf(reservation')[x] <= HeldOf(reservation)[x]
                              /\ LeftOf(reservation')[x] <= LeftOf(reservation)[x]
    BY <2>2
  <2>. QED BY <1>1, <1>3, <1>5, <2>1, <2>3, ShrinkingKeeps DEF RollsOver
<1>6. CASE /\ AdmitsUnits(Rolled(day), o, Ask[o]) /\ tracker' = Rolled(day)
           /\ reservation' = [SweptReservations EXCEPT ![o] = [status |-> "RESERVED", units |-> Ask[o],
                               lapsed |-> FALSE, charged |-> IF Live(o) THEN @.charged ELSE 0]]
           /\ working' = working \cup {o}
  <2>1. SweptReservations \in [Operations -> Reservation] BY SweptTerms DEF LedgerInv
  <2>2. SweptReservations[o].charged \in 0 .. MaxCharges /\ 0 \in 0 .. MaxCharges
    BY <2>1, LedgerAssumption DEF Reservation, LedgerAssumption
  <2>3. /\ reservation' \in [Operations -> Reservation]
        /\ Counts(reservation'[o]) /\ reservation'[o].units = Ask[o]
        /\ \A x \in Operations \ {o} : reservation'[x] = SweptReservations[x]
    BY <1>4, <1>6, <2>1, <2>2 DEF Reservation, Counts
  <2>4. LedgerTypeOK' BY <1>1, <1>2, <1>3, <1>6, <2>3 DEF LedgerInv, LedgerTypeOK, Reservation
  <2>5. HeldOf(reservation')[o] = Ask[o] BY <2>3 DEF HeldOf
  <2>6. \A x \in Operations \ {o} : HeldOf(reservation')[x] = HeldOf(SweptReservations)[x]
    BY <2>3 DEF HeldOf
  <2>7. HeldOf(SweptReservations) = HeldOf(reservation) BY SweptTerms DEF LedgerInv
  <2>8. HeldOf(reservation')[o] <= Ask[o] BY <1>4, <2>5
  <2>9. \A x \in Operations \ {o} : HeldOf(reservation')[x] = HeldOf(reservation)[x] BY <2>6, <2>7
  <2>. QED BY <1>1, <1>4, <1>6, <2>4, <2>8, <2>9, AdmissionKeeps
<1>7. CASE UNCHANGED <<tracker, reservation, working>>
  <2>1. uncovered' = uncovered BY <1>3, <1>7
  <2>2. LedgerTypeOK' BY <1>1, <1>7, <2>1 DEF LedgerInv, LedgerTypeOK
  <2>. QED BY <1>7, <2>1, <2>2 DEF LedgerInv
<1>. QED BY <1>5, <1>6, <1>7 DEF TryReserve

LEMMA TopUpBalance == ASSUME LedgerInv, NEW o \in Operations, TopUp(o) PROVE LedgerInv'
<1>. DEFINE day == transaction[o].day
            units == reservation[o].units + 1
<1>1. /\ transaction' \in [Operations -> [kind : {"none", "reserve", "topUp", "charge", "reconcile"}, day : 0 .. LastDay]]
      /\ today' = today /\ day \in 0 .. LastDay
  BY ClosesTyped DEF TopUp, LedgerInv
<1>2. Rolled(day) \in [day : 0 .. LastDay, used : Nat] BY <1>1, RolledBalance
<1>3. uncovered' = (IF tracker'.day # tracker.day THEN 0 ELSE uncovered) /\ uncovered' \in Nat /\ working' = working
  BY DEF TopUp, LedgerInv, LedgerTypeOK
<1>4. reservation \in [Operations -> Reservation] /\ units \in Nat BY DEF LedgerInv, LedgerTypeOK, Reservation
<1>5. CASE AdmitsUnits(Rolled(day), o, units) /\ tracker' = Rolled(day) /\ reservation' = [reservation EXCEPT ![o].units = @ + 1]
  <2>1. /\ reservation' \in [Operations -> Reservation] /\ reservation'[o].units = units
        /\ \A x \in Operations \ {o} : reservation'[x] = reservation[x]
    BY <1>4, <1>5 DEF Reservation
  <2>2. LedgerTypeOK' BY <1>1, <1>2, <1>3, <1>5, <2>1 DEF LedgerInv, LedgerTypeOK, Reservation
  <2>3. HeldOf(reservation')[o] <= units BY <1>4, <2>1 DEF HeldOf
  <2>4. \A x \in Operations \ {o} : HeldOf(reservation')[x] = HeldOf(reservation)[x] BY <2>1 DEF HeldOf
  <2>. QED BY <1>1, <1>4, <1>5, <2>2, <2>3, <2>4, AdmissionKeeps
<1>6. CASE UNCHANGED <<tracker, reservation>>
  <2>1. uncovered' = uncovered BY <1>3, <1>6
  <2>2. LedgerTypeOK' BY <1>1, <1>3, <1>6, <2>1 DEF LedgerInv, LedgerTypeOK
  <2>. QED BY <1>6, <2>1, <2>2 DEF LedgerInv
<1>. QED BY <1>5, <1>6 DEF TopUp

\* A charge takes a unit from what its reservation has left, or is uncovered.
LEMMA ChargeBalance == ASSUME LedgerInv, NEW o \in Operations, Charge(o) PROVE LedgerInv'
<1>. DEFINE day == transaction[o].day
            rolled == Rolled(day)
            base == IF rolled.day # tracker.day THEN 0 ELSE uncovered
<1>1. /\ transaction' \in [Operations -> [kind : {"none", "reserve", "topUp", "charge", "reconcile"}, day : 0 .. LastDay]]
      /\ today' = today /\ day \in 0 .. LastDay
  BY ClosesTyped DEF Charge, LedgerInv
<1>2. rolled \in [day : 0 .. LastDay, used : Nat] /\ rolled.used + Total(LeftOf(reservation)) <= Budget + base
  BY <1>1, RolledBalance
<1>3. base \in Nat BY DEF LedgerInv, LedgerTypeOK
<1>4. /\ reservation[o].charged < MaxCharges /\ tracker' = [rolled EXCEPT !.used = @ + 1]
      /\ reservation' = [reservation EXCEPT ![o].charged = @ + 1]
      /\ uncovered' = base + (IF Left(o) = 0 THEN 1 ELSE 0) /\ working' = working
  BY DEF Charge
<1>. HIDE DEF rolled, base
<1>5. reservation \in [Operations -> Reservation] /\ reservation[o].charged \in Nat /\ reservation[o].units \in Nat
  BY LedgerAssumption DEF LedgerInv, LedgerTypeOK, Reservation, LedgerAssumption
<1>6. reservation[o].charged + 1 \in 0 .. MaxCharges BY <1>4, <1>5, LedgerAssumption DEF LedgerAssumption
<1>7. /\ reservation' \in [Operations -> Reservation] /\ reservation'[o].charged = reservation[o].charged + 1
      /\ reservation'[o].units = reservation[o].units /\ (Counts(reservation'[o]) <=> Counts(reservation[o]))
      /\ \A x \in Operations \ {o} : reservation'[x] = reservation[x]
  BY <1>4, <1>5, <1>6 DEF Reservation, Counts
<1>8. tracker' \in [day : 0 .. LastDay, used : Nat] /\ tracker'.used = rolled.used + 1 BY <1>2, <1>4
<1>9. uncovered' \in Nat BY <1>3, <1>4
<1>10. LedgerTypeOK' BY <1>1, <1>4, <1>7, <1>8, <1>9 DEF LedgerInv, LedgerTypeOK, Reservation
<1>11. /\ HeldOf(reservation) \in [Operations -> Nat] /\ HeldOf(reservation') \in [Operations -> Nat]
       /\ LeftOf(reservation) \in [Operations -> Nat] /\ LeftOf(reservation') \in [Operations -> Nat]
  BY <1>5, <1>7, TermsTyped
<1>12. \A x \in Operations : HeldOf(reservation')[x] <= HeldOf(reservation)[x]
  <2>1. \A x \in Operations : HeldOf(reservation')[x] = HeldOf(reservation)[x] BY <1>7 DEF HeldOf
  <2>. QED BY <1>11, <2>1
<1>13. Total(HeldOf(reservation')) <= Budget
  <2>1. Total(HeldOf(reservation')) <= Total(HeldOf(reservation)) BY <1>11, <1>12, TotalAtMost
  <2>2. Total(HeldOf(reservation')) \in Nat /\ Total(HeldOf(reservation)) \in Nat BY <1>11, TotalNat
  <2>. QED BY <2>1, <2>2, LedgerAssumption DEF LedgerInv, LedgerAssumption
<1>. DEFINE others == SumFunctionOnSet(LeftOf(reservation), Operations \ {o})
<1>14. others \in Nat /\ Total(LeftOf(reservation)) = LeftOf(reservation)[o] + others BY <1>11, TotalWithout
<1>15. Total(LeftOf(reservation')) = LeftOf(reservation')[o] + others
  <2>1. \A x \in Operations \ {o} : LeftOf(reservation')[x] = LeftOf(reservation)[x] BY <1>7 DEF LeftOf
  <2>. QED BY <1>11, <2>1, TotalChanged
<1>. HIDE DEF others
<1>16. Left(o) = LeftOf(reservation)[o] BY DEF Left, Live, LeftOf, Counts
<1>17. LeftOf(reservation')[o] = IF Left(o) = 0 THEN 0 ELSE Left(o) - 1
  <2>1. /\ LeftOf(reservation)[o] = IF Counts(reservation[o]) /\ reservation[o].units > reservation[o].charged
                                    THEN reservation[o].units - reservation[o].charged ELSE 0
        /\ LeftOf(reservation')[o] = IF Counts(reservation'[o]) /\ reservation'[o].units > reservation'[o].charged
                                     THEN reservation'[o].units - reservation'[o].charged ELSE 0
    BY DEF LeftOf
  <2>2. CASE Counts(reservation[o]) BY <1>5, <1>7, <1>16, <2>1, <2>2
  <2>3. CASE ~Counts(reservation[o]) BY <1>7, <1>16, <2>1, <2>3
  <2>. QED BY <2>2, <2>3
<1>18. tracker'.used + Total(LeftOf(reservation')) <= Budget + uncovered'
  <2>1. Left(o) \in Nat /\ rolled.used \in Nat BY <1>2, <1>11, <1>16
  <2>2. rolled.used + (Left(o) + others) <= Budget + base BY <1>2, <1>14, <1>16
  <2>3. CASE Left(o) = 0 BY <1>3, <1>4, <1>8, <1>14, <1>15, <1>17, <2>1, <2>2, <2>3, LedgerAssumption DEF LedgerAssumption
  <2>4. CASE Left(o) # 0 BY <1>3, <1>4, <1>8, <1>14, <1>15, <1>17, <2>1, <2>2, <2>4, LedgerAssumption DEF LedgerAssumption
  <2>. QED BY <2>3, <2>4
<1>. QED BY <1>10, <1>13, <1>18 DEF LedgerInv

\* The steps after which no reservation holds more.
LEMMA OthersBalance ==
  ASSUME LedgerInv, NEW o \in Operations,
         \/ \E kind \in {"reserve", "topUp", "charge", "reconcile"} : Open(o, kind)
         \/ Reconcile(o) \/ WorkerDies(o) \/ Lapse(o)
         \/ \E status \in {"CONSUMED", "RELEASED"} : FinishReservation(o, status)
  PROVE  LedgerInv'
<1>. USE DEF LedgerInv
<1>0. reservation \in [Operations -> Reservation] BY DEF LedgerTypeOK, Reservation
<1>1. HeldOf(reservation) \in [Operations -> Nat] /\ LeftOf(reservation) \in [Operations -> Nat] BY <1>0, TermsTyped
<1>2. ASSUME LedgerTypeOK', UNCHANGED <<tracker, uncovered>>,
             \A x \in Operations : Counts(reservation'[x]) =>
               /\ Counts(reservation[x]) /\ reservation'[x].units = reservation[x].units
               /\ reservation'[x].charged = reservation[x].charged
      PROVE  LedgerInv'
  <2>1. \A x \in Operations : reservation[x].units \in Nat /\ reservation[x].charged \in Nat
    BY <1>0, LedgerAssumption DEF Reservation, LedgerAssumption
  <2>2. \A x \in Operations : HeldOf(reservation')[x] <= HeldOf(reservation)[x] BY <1>2, <2>1 DEF HeldOf
  <2>3. \A x \in Operations : LeftOf(reservation')[x] <= LeftOf(reservation)[x] BY <1>2, <2>1 DEF LeftOf
  <2>. QED BY <1>2, <2>2, <2>3, ShrinkingKeeps
<1>3. CASE Reconcile(o)
  <2>1. /\ transaction' \in [Operations -> [kind : {"none", "reserve", "topUp", "charge", "reconcile"}, day : 0 .. LastDay]]
        /\ today' = today /\ transaction[o].day \in 0 .. LastDay
    BY <1>3, ClosesTyped DEF Reconcile
  <2>2. Rolled(transaction[o].day) \in [day : 0 .. LastDay, used : Nat] BY <2>1, RolledBalance
  <2>3. LedgerTypeOK' BY <1>3, <2>1, <2>2, SweptTerms DEF Reconcile, LedgerTypeOK, Reservation
  <2>4. \A x \in Operations : /\ HeldOf(reservation')[x] <= HeldOf(reservation)[x]
                              /\ LeftOf(reservation')[x] <= LeftOf(reservation)[x]
    BY <1>1, <1>3, SweptTerms DEF Reconcile
  <2>5. RollsOver(transaction[o].day) BY <1>3 DEF Reconcile, RollsOver
  <2>. QED BY <2>1, <2>3, <2>4, <2>5, ShrinkingKeeps
<1>4. ASSUME NEW kind \in {"reserve", "topUp", "charge", "reconcile"}, Open(o, kind) PROVE LedgerInv'
  <2>1. LedgerTypeOK' BY <1>4 DEF Open, LedgerTypeOK
  <2>. QED BY <1>2, <1>4, <2>1 DEF Open
<1>5. CASE WorkerDies(o)
  <2>1. LedgerTypeOK' BY <1>5, DayAssumption DEF WorkerDies, LedgerTypeOK, NoTransaction, DayAssumption
  <2>. QED BY <1>2, <1>5, <2>1 DEF WorkerDies
<1>6. CASE Lapse(o)
  <2>1. /\ reservation' \in [Operations -> Reservation] /\ ~Counts(reservation'[o])
        /\ \A x \in Operations \ {o} : reservation'[x] = reservation[x]
    BY <1>0, <1>6 DEF Lapse, Reservation, Counts
  <2>2. LedgerTypeOK' BY <1>6, <2>1 DEF Lapse, LedgerTypeOK, Reservation
  <2>. QED BY <1>2, <1>6, <2>1, <2>2 DEF Lapse
<1>7. ASSUME NEW status \in {"CONSUMED", "RELEASED"}, FinishReservation(o, status) PROVE LedgerInv'
  <2>1. /\ reservation' \in [Operations -> Reservation] /\ ~Counts(reservation'[o])
        /\ \A x \in Operations \ {o} : reservation'[x] = reservation[x]
    BY <1>0, <1>7 DEF FinishReservation, Reservation, Counts
  <2>2. LedgerTypeOK' BY <1>7, <2>1 DEF FinishReservation, LedgerTypeOK, Reservation
  <2>. QED BY <1>2, <1>7, <2>1, <2>2 DEF FinishReservation
<1>. QED BY <1>3, <1>4, <1>5, <1>6, <1>7

LEMMA LedgerStart == LedgerInit => LedgerInv
<1>. SUFFICES ASSUME LedgerInit PROVE LedgerInv OBVIOUS
<1>1. LedgerTypeOK
  BY DayAssumption, LedgerAssumption DEF LedgerInit, LedgerTypeOK, NoTransaction, DayAssumption, LedgerAssumption
<1>2. HeldOf(reservation) = [o \in Operations |-> 0] /\ LeftOf(reservation) = [o \in Operations |-> 0]
  BY DEF LedgerInit, HeldOf, LeftOf, Counts
<1>3. Total([o \in Operations |-> 0]) = 0
  <2>. DEFINE z == [o \in Operations |-> 0]
  <2>1. z \in [Operations -> Nat] OBVIOUS
  <2>2. IsFiniteSet(Operations) BY LedgerAssumption DEF LedgerAssumption
  <2>3. Tokens(z, Operations) = {} BY DEF Tokens
  <2>. HIDE DEF z
  <2>4. SumFunctionOnSet(z, Operations) = Cardinality(Tokens(z, Operations)) BY <2>1, <2>2, SumCounts
  <2>5. Total(z) = 0 BY <2>3, <2>4, FS_EmptySet DEF Total
  <2>. QED BY <2>5 DEF z
<1>4. Total(HeldOf(reservation)) = 0 /\ Total(LeftOf(reservation)) = 0 BY <1>2, <1>3
<1>5. tracker.used = 0 /\ uncovered = 0 BY DEF LedgerInit
<1>. QED BY <1>1, <1>4, <1>5, LedgerAssumption DEF LedgerInv, LedgerAssumption

LEMMA LedgerStep == LedgerInv /\ [LedgerNext]_ledgerVars => LedgerInv'
<1>. SUFFICES ASSUME LedgerInv, [LedgerNext]_ledgerVars PROVE LedgerInv' OBVIOUS
<1>1. ASSUME NEW o \in Operations, TryReserve(o) PROVE LedgerInv' BY <1>1, ReserveBalance
<1>2. ASSUME NEW o \in Operations, TopUp(o) PROVE LedgerInv' BY <1>2, TopUpBalance
<1>3. ASSUME NEW o \in Operations, Charge(o) PROVE LedgerInv' BY <1>3, ChargeBalance
<1>4. ASSUME NEW o \in Operations,
             \/ \E kind \in {"reserve", "topUp", "charge", "reconcile"} : Open(o, kind)
             \/ Reconcile(o) \/ WorkerDies(o) \/ Lapse(o)
             \/ \E status \in {"CONSUMED", "RELEASED"} : FinishReservation(o, status)
      PROVE  LedgerInv'
  BY <1>4, OthersBalance
<1>5. CASE LedgerMidnight \/ UNCHANGED ledgerVars
  <2>1. UNCHANGED <<tracker, reservation, transaction, working, uncovered>> /\ today' \in 1 .. LastDay
    BY <1>5, DayAssumption DEF LedgerMidnight, NextDay, ledgerVars, LedgerInv, LedgerTypeOK, DayAssumption
  <2>. QED BY <2>1 DEF LedgerInv, LedgerTypeOK
<1>. QED BY <1>1, <1>2, <1>3, <1>4, <1>5 DEF LedgerNext

LEMMA LedgerInvariant == LedgerSpec => []LedgerInv
BY LedgerStart, LedgerStep, PTL DEF LedgerSpec

\* Every reachable state of the ledger is well typed.
THEOREM LedgerTypeCorrect == LedgerSpec => []LedgerTypeOK
<1>1. LedgerInv => LedgerTypeOK BY DEF LedgerInv
<1>. QED BY <1>1, LedgerInvariant, PTL

\* Whatever admissions, top-ups, charges and retries interleave, over any midnight, what is
\* used and what live reservations may still use exceeds the budget by uncovered units only.
THEOREM WithinBudget == LedgerSpec => []AdmissionWithinBudget
BY BalanceIsTotal, LedgerInvariant, PTL

(***************************************************************************)
(* The health of the key pool: MemoryMatchesRows, for any keys, calls and  *)
(* bounds.                                                                 *)
(*                                                                         *)
(* A verdict on a key raises its generation, so that whatever is current   *)
(* was begun after the newest verdict: a call that is current left while   *)
(* its key was in no quarantine, and a clear that is current has no        *)
(* suspension to take back and no persist behind it.  A clear that was     *)
(* overtaken while it deletes has the persist of its successor behind it.  *)
(***************************************************************************)
Suspended(k) == "suspended" \in quarantine[k]
Persisting(k) == \E i \in DOMAIN chain : chain[i].kind = "persist" /\ chain[i].key = k

\* A call that is current was dispatched since the newest verdict on its key.
CallInv == \A c \in Calls : call[c].key # NoKey =>
  /\ call[c].generation <= generation[call[c].key]
  /\ call[c].generation = generation[call[c].key] => quarantine[call[c].key] = {}

\* Only the head of the chain has begun.  A clear that is current was queued since the newest
\* verdict; one that is not, and deletes, makes way for the persist that follows it.
WriteInv(i) ==
  /\ chain[i].kind \in {"deleting", "deleted"} => i = 1
  /\ chain[i].kind = "persist" => chain[i].key \in candidates
  /\ chain[i].kind # "persist" => /\ chain[i].generation <= generation[chain[i].key]
                                  /\ chain[i].key \in candidates \/ rows[chain[i].key] = "none"
  /\ chain[i].kind # "persist" /\ chain[i].generation = generation[chain[i].key] =>
       /\ ~Suspended(chain[i].key)
       /\ \A j \in DOMAIN chain : j > i /\ chain[j].key = chain[i].key => chain[j].kind # "persist"
  /\ chain[i].kind = "deleting" /\ Suspended(chain[i].key) => Persisting(chain[i].key)
  /\ chain[i].kind = "deleted" => rows[chain[i].key] = "none"

ChainInv == \A i \in DOMAIN chain : WriteInv(i)

\* A key whose fresh row must hold it back: it was loaded before its first use, or suspended
\* by this process before anything was loaded.
Bound(k) == (hydrated /\ k \notin blind) \/ (~hydrated /\ k \in candidates)

HealthKeyInv(k) ==
  /\ Suspended(k) => rows[k] # "none" \/ k \in unsaved \/ Persisting(k)
  /\ Bound(k) /\ (rows[k] = "fresh" \/ Persisting(k)) => Suspended(k)
  /\ hydrated /\ rows[k] # "none" => k \in candidates
  /\ ~hydrated /\ (k \in candidates \/ Pending(k) \/ \E c \in Calls : call[c].key = k) => k \in blind

KeyRowInv == \A k \in PoolKeys : HealthKeyInv(k)

HealthInv == HealthTypeOK /\ CallInv /\ ChainInv /\ KeyRowInv

(***************************************************************************)
(* What the chain's operations return                                      *)
(***************************************************************************)
LEMMA RemoveHead ==
  ASSUME NEW S, NEW s \in Seq(S), 1 \in DOMAIN s
  PROVE  /\ RemoveAt(s, 1) \in Seq(S) /\ Len(RemoveAt(s, 1)) = Len(s) - 1
         /\ DOMAIN RemoveAt(s, 1) = 1 .. (Len(s) - 1)
         /\ \A i \in 1 .. (Len(s) - 1) : RemoveAt(s, 1)[i] = s[i + 1]
<1>1. Len(s) \in Nat /\ Len(s) >= 1 /\ DOMAIN s = 1 .. Len(s) OBVIOUS
<1>2. SubSeq(s, 1, 1 - 1) \in Seq(S) /\ Len(SubSeq(s, 1, 1 - 1)) = 0 BY <1>1
<1>3. SubSeq(s, 1 + 1, Len(s)) \in Seq(S) /\ Len(SubSeq(s, 1 + 1, Len(s))) = Len(s) - 1 BY <1>1
<1>4. \A i \in 1 .. (Len(s) - 1) : SubSeq(s, 1 + 1, Len(s))[i] = s[i + 1] BY <1>1
<1>. QED BY <1>1, <1>2, <1>3, <1>4 DEF RemoveAt

LEMMA Appended ==
  ASSUME NEW S, NEW s \in Seq(S), NEW e \in S
  PROVE  /\ Append(s, e) \in Seq(S)
         /\ DOMAIN s = 1 .. Len(s) /\ Len(s) \in Nat
         /\ DOMAIN Append(s, e) = (DOMAIN s) \cup {Len(s) + 1}
         /\ \A i \in DOMAIN s : Append(s, e)[i] = s[i]
         /\ Append(s, e)[Len(s) + 1] = e
OBVIOUS

LEMMA WriteTypes ==
  ASSUME HealthTypeOK, NEW i \in DOMAIN chain
  PROVE  chain[i].key \in PoolKeys /\ chain[i].generation \in Nat /\ chain[i] \in Writes
<1>1. chain \in Seq(Writes) BY DEF HealthTypeOK
<1>2. chain[i] \in Writes BY <1>1
<1>. QED BY <1>2 DEF Writes

LEMMA HealthInitially == HealthInit => HealthInv
<1>. SUFFICES ASSUME HealthInit PROVE HealthInv OBVIOUS
<1>1. chain = <<>> /\ DOMAIN chain = {} BY DEF HealthInit, Fresh
<1>2. chain \in Seq(Writes) BY <1>1
<1>3. quarantine \in [PoolKeys -> SUBSET {"daily", "local", "suspended"}] BY DEF HealthInit, Fresh
<1>4. call \in [Calls -> [key : PoolKeys \cup {NoKey}, generation : Nat]] BY DEF HealthInit, Fresh, NoCall
<1>5. HealthTypeOK BY <1>2, <1>3, <1>4 DEF HealthInit, Fresh, HealthTypeOK
<1>6. CallInv /\ ChainInv BY <1>1 DEF HealthInit, Fresh, CallInv, ChainInv, NoCall
<1>7. KeyRowInv BY <1>1, HealthAssumption
                DEF HealthInit, Fresh, KeyRowInv, HealthKeyInv, Bound, Suspended, Persisting, Pending, NoCall
<1>. QED BY <1>5, <1>6, <1>7 DEF HealthInv

LEMMA ExposesAgreement == HealthInv => MemoryMatchesRows
BY DEF HealthInv, HealthTypeOK, KeyRowInv, HealthKeyInv, MemoryMatchesRows, Bound, Suspended, Persisting, Pending

(***************************************************************************)
(* Calls and verdicts keep the invariant                                   *)
(***************************************************************************)
LEMMA HydrateKeeps == HealthInv /\ Hydrate => HealthInv'
<1>. SUFFICES ASSUME HealthInv, Hydrate PROVE HealthInv' OBVIOUS
<1>. USE DEF HealthInv
<1>1. PICK kept : /\ kept = {k \in PoolKeys : rows[k] # "none"}
                  /\ generation' = [k \in PoolKeys |-> IF k \in kept THEN generation[k] + 1 ELSE generation[k]]
                  /\ candidates' = candidates \cup kept
                  /\ quarantine' = [k \in PoolKeys |-> IF k \notin kept THEN quarantine[k]
                                      ELSE IF rows[k] = "fresh" THEN {"suspended"} ELSE {}]
  BY DEF Hydrate
<1>2. HealthTypeOK' BY <1>1 DEF HealthTypeOK, Hydrate
<1>3. CallInv' BY <1>1 DEF HealthTypeOK, CallInv, Hydrate
<1>4. ASSUME NEW k \in PoolKeys
      PROVE  /\ Persisting(k)' <=> Persisting(k)
             /\ generation'[k] >= generation[k]
             /\ generation'[k] = generation[k] => (Suspended(k)' <=> Suspended(k))
             /\ Suspended(k)' /\ ~Suspended(k) => k \in kept /\ rows[k] = "fresh"
  BY <1>1 DEF HealthTypeOK, Hydrate, Suspended, Persisting
<1>5. ChainInv'
  <2>. SUFFICES ASSUME NEW i \in DOMAIN chain PROVE WriteInv(i)' BY DEF Hydrate, ChainInv
  <2>1. chain[i].key \in PoolKeys /\ chain[i].generation \in Nat BY WriteTypes
  <2>2. WriteInv(i) /\ HealthKeyInv(chain[i].key) BY <2>1 DEF ChainInv, KeyRowInv
  <2>3. generation[chain[i].key] \in Nat /\ generation'[chain[i].key] \in Nat BY <1>2, <2>1 DEF HealthTypeOK
  <2>4. UNCHANGED <<chain, rows>> /\ candidates \subseteq candidates' /\ ~hydrated BY DEF Hydrate
  <2>5. chain[i].kind = "deleting" /\ Suspended(chain[i].key)' => Persisting(chain[i].key)'
    BY <1>1, <1>4, <2>1, <2>2, <2>4 DEF WriteInv, HealthKeyInv, Bound
  <2>. QED BY <1>4, <2>1, <2>2, <2>3, <2>4, <2>5 DEF WriteInv
<1>6. KeyRowInv'
  <2>. SUFFICES ASSUME NEW k \in PoolKeys PROVE HealthKeyInv(k)' BY DEF KeyRowInv
  <2>. QED BY <1>1, <1>4 DEF HealthTypeOK, Hydrate, KeyRowInv, HealthKeyInv, Bound, Persisting, Pending, Suspended
<1>. QED BY <1>2, <1>3, <1>5, <1>6

LEMMA WriteQueued ==
  ASSUME HealthTypeOK, NEW w \in Writes, chain' = Append(chain, w)
  PROVE  /\ chain' \in Seq(Writes) /\ DOMAIN chain \subseteq DOMAIN chain'
         /\ \A i \in DOMAIN chain' : \/ i \in DOMAIN chain /\ chain'[i] = chain[i]
                                     \/ chain'[i] = w /\ \A j \in DOMAIN chain' : ~(j > i)
         /\ \A k : Persisting(k)' <=> Persisting(k) \/ (w.kind = "persist" /\ w.key = k)
         /\ \A k : Pending(k)' <=> Pending(k) \/ w.key = k
<1>1. chain \in Seq(Writes) BY DEF HealthTypeOK
<1>2. DOMAIN chain = 1 .. Len(chain) /\ Len(chain) \in Nat BY <1>1
<1>3. /\ chain' \in Seq(Writes) /\ DOMAIN chain' = DOMAIN chain \cup {Len(chain) + 1}
      /\ \A i \in DOMAIN chain : chain'[i] = chain[i]
      /\ chain'[Len(chain) + 1] = w
  BY <1>1, Appended
<1>. HIDE DEF Writes
<1>4. \A i \in DOMAIN chain' : i \in DOMAIN chain \/ (i = Len(chain) + 1 /\ \A j \in DOMAIN chain' : ~(j > i))
  BY <1>2, <1>3
<1>5. \A k : Persisting(k)' <=> Persisting(k) \/ (w.kind = "persist" /\ w.key = k)
  BY <1>3 DEF Persisting
<1>6. \A k : Pending(k)' <=> Pending(k) \/ w.key = k
  BY <1>3 DEF Pending
<1>. QED BY <1>3, <1>4, <1>5, <1>6

LEMMA HeadGone ==
  ASSUME HealthTypeOK, 1 \in DOMAIN chain, chain' = RemoveAt(chain, 1)
  PROVE  /\ chain' \in Seq(Writes)
         /\ \A j \in DOMAIN chain' : j \in Nat /\ j >= 1 /\ j + 1 \in DOMAIN chain /\ chain'[j] = chain[j + 1]
         /\ \A k : Persisting(k)' => Persisting(k)
         /\ \A k : Persisting(k) /\ ~(chain[1].kind = "persist" /\ chain[1].key = k) => Persisting(k)'
         /\ \A k : Pending(k)' => Pending(k)
<1>1. chain \in Seq(Writes) BY DEF HealthTypeOK
<1>2. DOMAIN chain = 1 .. Len(chain) /\ Len(chain) \in Nat BY <1>1
<1>3. /\ chain' \in Seq(Writes) /\ DOMAIN chain' = 1 .. (Len(chain) - 1)
      /\ \A i \in 1 .. (Len(chain) - 1) : chain'[i] = chain[i + 1]
  BY <1>1, RemoveHead
<1>4. \A j \in DOMAIN chain' : j \in Nat /\ j >= 1 /\ j + 1 \in DOMAIN chain /\ chain'[j] = chain[j + 1]
  BY <1>2, <1>3
<1>5. \A i \in DOMAIN chain : i = 1 \/ (i - 1 \in DOMAIN chain' /\ chain'[i - 1] = chain[i])
  <2>. SUFFICES ASSUME NEW i \in DOMAIN chain, i # 1 PROVE i - 1 \in DOMAIN chain' /\ chain'[i - 1] = chain[i] OBVIOUS
  <2>1. i - 1 \in 1 .. (Len(chain) - 1) /\ (i - 1) + 1 = i BY <1>2
  <2>. QED BY <2>1, <1>3
<1>6. \A k : Persisting(k) /\ ~(chain[1].kind = "persist" /\ chain[1].key = k) => Persisting(k)'
  BY <1>5 DEF Persisting
<1>7. \A k : (Persisting(k)' => Persisting(k)) /\ (Pending(k)' => Pending(k)) BY <1>4 DEF Persisting, Pending
<1>. QED BY <1>3, <1>4, <1>6, <1>7

LEMMA HeadMarked ==
  ASSUME HealthTypeOK, 1 \in DOMAIN chain, chain[1].kind # "persist",
         NEW kind \in {"deleting", "deleted"}, chain' = [chain EXCEPT ![1].kind = kind]
  PROVE  /\ chain' \in Seq(Writes) /\ DOMAIN chain' = DOMAIN chain
         /\ \A i \in DOMAIN chain : chain'[i].key = chain[i].key /\ chain'[i].generation = chain[i].generation
         /\ \A i \in DOMAIN chain : chain'[i].kind = IF i = 1 THEN kind ELSE chain[i].kind
         /\ \A k : Persisting(k)' <=> Persisting(k)
         /\ \A k : Pending(k)' <=> Pending(k)
<1>1. chain \in Seq(Writes) BY DEF HealthTypeOK
<1>2. chain[1] \in Writes BY <1>1
<1>3. [chain[1] EXCEPT !.kind = kind] \in Writes BY <1>2 DEF Writes
<1>4. chain' = [chain EXCEPT ![1] = [chain[1] EXCEPT !.kind = kind]] OBVIOUS
<1>5. chain' \in Seq(Writes) /\ DOMAIN chain' = DOMAIN chain BY <1>1, <1>3, <1>4
<1>6. /\ [chain[1] EXCEPT !.kind = kind].kind = kind
      /\ [chain[1] EXCEPT !.kind = kind].key = chain[1].key
      /\ [chain[1] EXCEPT !.kind = kind].generation = chain[1].generation
  BY <1>2 DEF Writes
<1>7. \A i \in DOMAIN chain : chain'[i] = IF i = 1 THEN [chain[1] EXCEPT !.kind = kind] ELSE chain[i]
  BY <1>4, <1>5
<1>8. /\ \A i \in DOMAIN chain : chain'[i].key = chain[i].key /\ chain'[i].generation = chain[i].generation
      /\ \A i \in DOMAIN chain : chain'[i].kind = IF i = 1 THEN kind ELSE chain[i].kind
  BY <1>6, <1>7
<1>9. \A k : (Persisting(k)' <=> Persisting(k)) /\ (Pending(k)' <=> Pending(k))
  BY <1>5, <1>8 DEF Persisting, Pending
<1>. QED BY <1>5, <1>8, <1>9

LEMMA DispatchKeeps ==
  ASSUME HealthInv, NEW c \in Calls, NEW k \in PoolKeys, Dispatch(c, k) PROVE HealthInv'
<1>. USE DEF HealthInv
<1>1. HealthTypeOK' BY DEF HealthTypeOK, Dispatch
<1>2. call' = [call EXCEPT ![c] = [key |-> k, generation |-> generation[k]]] /\ call \in [Calls -> [key : PoolKeys \cup {NoKey}, generation : Nat]]
  BY DEF Dispatch, HealthTypeOK
<1>3. CallInv' BY <1>2 DEF HealthTypeOK, CallInv, Dispatch, Eligible
<1>4. ChainInv'
  <2>. SUFFICES ASSUME NEW i \in DOMAIN chain PROVE WriteInv(i)' BY DEF Dispatch, ChainInv
  <2>. QED BY DEF Dispatch, ChainInv, WriteInv, Suspended, Persisting
<1>5. KeyRowInv'
  <2>. SUFFICES ASSUME NEW l \in PoolKeys PROVE HealthKeyInv(l)' BY DEF KeyRowInv
  <2>1. HealthKeyInv(l) BY DEF KeyRowInv
  <2>2. (\E d \in Calls : call'[d].key = l) => l = k \/ \E d \in Calls : call[d].key = l BY <1>2
  <2>3. (Suspended(l)' <=> Suspended(l)) /\ (Persisting(l)' <=> Persisting(l)) /\ (Pending(l)' <=> Pending(l))
    BY DEF Dispatch, Suspended, Persisting, Pending
  <2>. QED BY <2>1, <2>2, <2>3 DEF Dispatch, HealthKeyInv, Bound
<1>. QED BY <1>1, <1>3, <1>4, <1>5

LEMMA SucceededKeeps ==
  ASSUME HealthInv, NEW c \in Calls, Succeeded(c) PROVE HealthInv'
<1>. USE DEF HealthInv
<1>. PICK k, g : k = call[c].key /\ g = call[c].generation OBVIOUS
<1>. DEFINE w == Write("clear", k, g)
<1>1. k \in PoolKeys /\ g \in Nat /\ g <= generation[k] /\ call' = [call EXCEPT ![c] = NoCall]
  BY DEF Succeeded, HealthTypeOK, CallInv
<1>2. UNCHANGED <<generation, candidates, hydrated, blind, rows, unsaved, paused>> BY DEF Succeeded
<1>3. call' \in [Calls -> [key : PoolKeys \cup {NoKey}, generation : Nat]] BY <1>1 DEF HealthTypeOK, NoCall
<1>4. \A d \in Calls : call'[d].key # NoKey => call'[d] = call[d] BY <1>1 DEF HealthTypeOK, NoCall
<1>5. CASE ~Current(k, g)
  <2>1. UNCHANGED <<quarantine, confirming, chain>> BY <1>5 DEF Succeeded
  <2>2. HealthTypeOK' BY <1>2, <1>3, <2>1 DEF HealthTypeOK
  <2>3. CallInv' BY <1>2, <1>4, <2>1 DEF CallInv
  <2>4. ChainInv'
    <3>. SUFFICES ASSUME NEW i \in DOMAIN chain PROVE WriteInv(i)' BY <2>1 DEF ChainInv
    <3>. QED BY <1>2, <2>1 DEF ChainInv, WriteInv, Suspended, Persisting
  <2>5. KeyRowInv'
    <3>. SUFFICES ASSUME NEW l \in PoolKeys PROVE HealthKeyInv(l)' BY DEF KeyRowInv
    <3>1. HealthKeyInv(l) BY DEF KeyRowInv
    <3>2. (\E d \in Calls : call'[d].key = l) => \E d \in Calls : call[d].key = l
      BY <1>1, HealthAssumption DEF HealthTypeOK, NoCall
    <3>3. (Suspended(l)' <=> Suspended(l)) /\ (Persisting(l)' <=> Persisting(l)) /\ (Pending(l)' <=> Pending(l))
      BY <2>1 DEF Suspended, Persisting, Pending
    <3>. QED BY <1>2, <3>1, <3>2, <3>3 DEF HealthKeyInv, Bound
  <2>. QED BY <2>2, <2>3, <2>4, <2>5
<1>6. CASE Current(k, g)
  <2>1. quarantine[k] = {} BY <1>1, <1>6, HealthAssumption DEF CallInv, Current
  <2>2. /\ quarantine' = [quarantine EXCEPT ![k] = {}] /\ confirming' = confirming \ {k}
        /\ chain' = chain \/ (k \in candidates /\ chain' = Append(chain, w))
    BY <1>6, <2>1 DEF Succeeded
  <2>3. quarantine' = quarantine BY <2>1, <2>2 DEF HealthTypeOK
  <2>4. w \in Writes /\ w.kind = "clear" /\ w.key = k /\ w.generation = g BY <1>1 DEF Writes, Write
  <2>. HIDE DEF w
  <2>5. /\ chain' \in Seq(Writes)
        /\ \A i \in DOMAIN chain' : \/ i \in DOMAIN chain /\ chain'[i] = chain[i]
                                    \/ /\ chain'[i] = w /\ k \in candidates
                                       /\ \A j \in DOMAIN chain' : ~(j > i)
        /\ \A l : Persisting(l)' <=> Persisting(l)
        /\ \A l : Pending(l)' => Pending(l) \/ l = k
    <3>1. CASE chain' = chain BY <3>1 DEF HealthTypeOK, Persisting, Pending
    <3>2. CASE k \in candidates /\ chain' = Append(chain, w) BY <3>2, <2>4, WriteQueued
    <3>. QED BY <2>2, <3>1, <3>2
  <2>6. HealthTypeOK' BY <1>2, <1>3, <2>2, <2>3, <2>5 DEF HealthTypeOK
  <2>7. CallInv' BY <1>2, <1>4, <2>3 DEF CallInv
  <2>8. ChainInv'
    <3>. SUFFICES ASSUME NEW i \in DOMAIN chain' PROVE WriteInv(i)' BY DEF ChainInv
    <3>0. \A l : Suspended(l)' <=> Suspended(l) BY <2>3 DEF Suspended
    <3>1. CASE i \in DOMAIN chain /\ chain'[i] = chain[i]
      <4>1. WriteInv(i) BY <3>1 DEF ChainInv
      <4>2. ASSUME NEW j \in DOMAIN chain', j > i, chain'[j].key = chain[i].key, chain'[j].kind = "persist"
            PROVE  j \in DOMAIN chain /\ chain[j].key = chain[i].key /\ chain[j].kind = "persist"
        BY <4>2, <2>4, <2>5
      <4>. QED BY <1>2, <2>5, <3>0, <3>1, <4>1, <4>2 DEF WriteInv
    <3>2. CASE chain'[i] = w /\ k \in candidates /\ \A j \in DOMAIN chain' : ~(j > i)
      <4>1. ~Suspended(k)' BY <2>1, <2>3 DEF Suspended
      <4>. QED BY <1>1, <1>2, <2>4, <3>2, <4>1 DEF WriteInv
    <3>. QED BY <2>5, <3>1, <3>2
  <2>9. KeyRowInv'
    <3>. SUFFICES ASSUME NEW l \in PoolKeys PROVE HealthKeyInv(l)' BY DEF KeyRowInv
    <3>1. HealthKeyInv(l) BY DEF KeyRowInv
    <3>2. (\E d \in Calls : call'[d].key = l) => \E d \in Calls : call[d].key = l
      BY <1>1, HealthAssumption DEF HealthTypeOK, NoCall
    <3>3. (Suspended(l)' <=> Suspended(l)) /\ (Persisting(l)' <=> Persisting(l))
      BY <2>3, <2>5 DEF Suspended
    <3>4. Pending(l)' => Pending(l) \/ \E d \in Calls : call[d].key = l BY <2>5
    <3>. QED BY <1>2, <3>1, <3>2, <3>3, <3>4 DEF HealthKeyInv, Bound
  <2>. QED BY <2>6, <2>7, <2>8, <2>9
<1>. QED BY <1>5, <1>6

LEMMA FailedKeeps ==
  ASSUME HealthInv, NEW c \in Calls, NEW kind \in {"daily", "local", "suspended"}, Failed(c, kind)
  PROVE  HealthInv'
<1>. USE DEF HealthInv
<1>. PICK k : k = call[c].key OBVIOUS
<1>. DEFINE w == Write("persist", k, 0)
<1>1. /\ k \in PoolKeys /\ call' = [call EXCEPT ![c] = NoCall]
      /\ generation' = [generation EXCEPT ![k] = @ + 1]
      /\ quarantine' = [quarantine EXCEPT ![k] = FailureQuarantine(k, kind)]
      /\ UNCHANGED <<hydrated, blind, rows, unsaved>>
      /\ IF kind = "suspended" THEN candidates' = candidates \cup {k} /\ chain' = Append(chain, w)
                               ELSE UNCHANGED <<candidates, chain>>
  BY DEF Failed, HealthTypeOK
<1>2. w \in Writes /\ w.kind = "persist" /\ w.key = k BY <1>1 DEF Writes, Write
<1>. HIDE DEF w
<1>3. /\ call' \in [Calls -> [key : PoolKeys \cup {NoKey}, generation : Nat]]
      /\ \A d \in Calls : call'[d].key # NoKey => call'[d] = call[d]
  BY <1>1 DEF HealthTypeOK, NoCall
<1>4. FailureQuarantine(k, kind) \in SUBSET {"daily", "local", "suspended"}
  BY <1>1 DEF FailureQuarantine, HealthTypeOK
<1>5. /\ chain' \in Seq(Writes)
      /\ \A i \in DOMAIN chain' : \/ i \in DOMAIN chain /\ chain'[i] = chain[i]
                                  \/ /\ chain'[i] = w /\ k \in candidates'
                                     /\ \A j \in DOMAIN chain' : ~(j > i)
      /\ \A l : Persisting(l)' <=> Persisting(l) \/ (l = k /\ kind = "suspended")
      /\ \A l : Pending(l)' => Pending(l) \/ l = k
  <2>1. CASE kind # "suspended" BY <1>1, <2>1 DEF HealthTypeOK, Persisting, Pending
  <2>2. CASE kind = "suspended"
    <3>1. chain' = Append(chain, w) /\ k \in candidates' BY <1>1, <2>2
    <3>. QED BY <1>2, <2>2, <3>1, WriteQueued
  <2>. QED BY <2>1, <2>2
<1>6. HealthTypeOK' 
  <2>1. generation' \in [PoolKeys -> Nat] BY <1>1 DEF HealthTypeOK
  <2>2. quarantine' \in [PoolKeys -> SUBSET {"daily", "local", "suspended"}] BY <1>1, <1>4 DEF HealthTypeOK
  <2>3. candidates' \in SUBSET PoolKeys /\ confirming' \in SUBSET PoolKeys /\ paused' \in BOOLEAN
    BY <1>1 DEF HealthTypeOK, Failed
  <2>. QED BY <1>1, <1>3, <1>5, <2>1, <2>2, <2>3 DEF HealthTypeOK
<1>7. ASSUME NEW l \in PoolKeys
      PROVE  /\ generation[l] \in Nat /\ generation'[l] = IF l = k THEN generation[l] + 1 ELSE generation[l]
             /\ l # k => quarantine'[l] = quarantine[l]
  BY <1>1 DEF HealthTypeOK
<1>8. \A l \in PoolKeys : Suspended(l)' <=> Suspended(l) \/ (l = k /\ kind = "suspended")
  BY <1>1, <1>7 DEF HealthTypeOK, Suspended, FailureQuarantine
<1>9. CallInv'
  <2>. SUFFICES ASSUME NEW d \in Calls, call'[d].key # NoKey
                PROVE  /\ call'[d].generation <= generation'[call'[d].key]
                       /\ call'[d].generation = generation'[call'[d].key] => quarantine'[call'[d].key] = {}
    BY DEF CallInv
  <2>1. call'[d] = call[d] /\ call[d].key \in PoolKeys /\ call[d].generation \in Nat BY <1>3 DEF HealthTypeOK
  <2>. QED BY <1>7, <2>1 DEF CallInv
<1>10. ChainInv'
  <2>. SUFFICES ASSUME NEW i \in DOMAIN chain' PROVE WriteInv(i)' BY DEF ChainInv
  <2>1. CASE i \in DOMAIN chain /\ chain'[i] = chain[i]
    <3>1. WriteInv(i) BY <2>1 DEF ChainInv
    <3>2. chain[i].key \in PoolKeys /\ chain[i].generation \in Nat BY <2>1, WriteTypes
    <3>3. candidates \subseteq candidates' /\ rows' = rows BY <1>1
    <3>4. ASSUME NEW j \in DOMAIN chain', j > i, chain'[j].key = chain[i].key, chain'[j].kind = "persist"
          PROVE  chain[i].key = k \/ (j \in DOMAIN chain /\ chain[j].key = chain[i].key /\ chain[j].kind = "persist")
      BY <3>4, <1>2, <1>5
    <3>. QED BY <1>5, <1>7, <1>8, <2>1, <3>1, <3>2, <3>3, <3>4 DEF WriteInv
  <2>2. CASE chain'[i] = w /\ k \in candidates' /\ \A j \in DOMAIN chain' : ~(j > i)
    BY <1>2, <2>2 DEF WriteInv
  <2>. QED BY <1>5, <2>1, <2>2
<1>11. KeyRowInv'
  <2>. SUFFICES ASSUME NEW l \in PoolKeys PROVE HealthKeyInv(l)' BY DEF KeyRowInv
  <2>1. HealthKeyInv(l) BY DEF KeyRowInv
  <2>2. (\E d \in Calls : call'[d].key = l) => \E d \in Calls : call[d].key = l
    BY <1>1, HealthAssumption DEF HealthTypeOK, NoCall
  <2>3. l \in candidates' => l \in candidates \/ (l = k /\ kind = "suspended") BY <1>1
  <2>4. Pending(l)' \/ l \in candidates' => l \in candidates \/ Pending(l) \/ \E d \in Calls : call[d].key = l
    BY <1>5, <2>3
  <2>5. candidates \subseteq candidates' BY <1>1
  <2>. QED BY <1>1, <1>5, <1>8, <2>1, <2>2, <2>3, <2>4, <2>5 DEF HealthKeyInv, Bound
<1>. QED BY <1>6, <1>9, <1>10, <1>11

LEMMA SuspensionElapsesKeeps ==
  ASSUME HealthInv, NEW k \in PoolKeys, SuspensionElapses(k) PROVE HealthInv'
<1>. USE DEF HealthInv
<1>1. HealthTypeOK' BY DEF HealthTypeOK, SuspensionElapses
<1>2. UNCHANGED <<generation, candidates, hydrated, blind, unsaved, chain, call>> /\ ~Pending(k) BY DEF SuspensionElapses
<1>3. \A l \in PoolKeys : /\ quarantine'[l] \subseteq quarantine[l]
                          /\ l # k => quarantine'[l] = quarantine[l] /\ rows'[l] = rows[l]
                          /\ rows'[l] = "none" <=> rows[l] = "none"
  BY DEF SuspensionElapses, HealthTypeOK
<1>4. ~Suspended(k)' /\ rows'[k] # "fresh" BY DEF SuspensionElapses, HealthTypeOK, Suspended
<1>5. \A l : (Persisting(l)' <=> Persisting(l)) /\ (Pending(l)' <=> Pending(l)) BY <1>2 DEF Persisting, Pending
<1>6. \A l \in PoolKeys : Suspended(l)' => Suspended(l) BY <1>3 DEF Suspended
<1>7. CallInv' BY <1>2, <1>3 DEF CallInv, HealthTypeOK
<1>8. ChainInv'
  <2>. SUFFICES ASSUME NEW i \in DOMAIN chain PROVE WriteInv(i)' BY <1>2 DEF ChainInv
  <2>1. WriteInv(i) /\ chain[i].key \in PoolKeys BY WriteTypes DEF ChainInv
  <2>. QED BY <1>2, <1>3, <1>5, <1>6, <2>1 DEF WriteInv
<1>9. KeyRowInv'
  <2>. SUFFICES ASSUME NEW l \in PoolKeys PROVE HealthKeyInv(l)' BY DEF KeyRowInv
  <2>1. HealthKeyInv(l) BY DEF KeyRowInv
  <2>2. Persisting(k) => Pending(k) BY DEF Persisting, Pending
  <2>3. l # k => (Suspended(l)' <=> Suspended(l)) BY <1>3 DEF Suspended
  <2>. QED BY <1>2, <1>3, <1>4, <1>5, <2>1, <2>2, <2>3 DEF HealthKeyInv, Bound
<1>. QED BY <1>1, <1>7, <1>8, <1>9

LEMMA OtherElapsesKeeps ==
  ASSUME HealthInv, WindowElapses \/ \E k \in PoolKeys, kind \in {"daily", "local"} : CooldownElapses(k, kind)
  PROVE  HealthInv'
<1>. USE DEF HealthInv
<1>1. UNCHANGED <<generation, candidates, hydrated, blind, rows, unsaved, chain, call>> BY DEF WindowElapses, CooldownElapses
<1>2. HealthTypeOK'
  <2>1. CASE WindowElapses BY <2>1 DEF WindowElapses, HealthTypeOK
  <2>2. CASE \E k \in PoolKeys, kind \in {"daily", "local"} : CooldownElapses(k, kind)
    BY <2>2 DEF CooldownElapses, HealthTypeOK
  <2>. QED BY <2>1, <2>2
<1>3. \A l \in PoolKeys : quarantine'[l] \subseteq quarantine[l] /\ (Suspended(l)' <=> Suspended(l))
  <2>1. CASE WindowElapses BY <2>1 DEF WindowElapses, Suspended
  <2>2. CASE \E k \in PoolKeys, kind \in {"daily", "local"} : CooldownElapses(k, kind)
    BY <2>2 DEF CooldownElapses, HealthTypeOK, Suspended
  <2>. QED BY <2>1, <2>2
<1>4. \A l : (Persisting(l)' <=> Persisting(l)) /\ (Pending(l)' <=> Pending(l)) BY <1>1 DEF Persisting, Pending
<1>5. CallInv' BY <1>1, <1>3 DEF CallInv, HealthTypeOK
<1>6. ChainInv'
  <2>. SUFFICES ASSUME NEW i \in DOMAIN chain PROVE WriteInv(i)' BY <1>1 DEF ChainInv
  <2>1. WriteInv(i) /\ chain[i].key \in PoolKeys BY WriteTypes DEF ChainInv
  <2>. QED BY <1>1, <1>3, <1>4, <2>1 DEF WriteInv
<1>7. KeyRowInv' BY <1>1, <1>3, <1>4 DEF KeyRowInv, HealthKeyInv, Bound
<1>. QED BY <1>2, <1>5, <1>6, <1>7

LEMMA RestartKeeps == ASSUME HealthInv, Restart PROVE HealthInv'
<1>. USE DEF HealthInv
<1>1. chain' = <<>> /\ DOMAIN chain' = {} BY DEF Restart
<1>2. chain' \in Seq(Writes) BY <1>1
<1>3. quarantine' \in [PoolKeys -> SUBSET {"daily", "local", "suspended"}] BY DEF Restart
<1>4. call' \in [Calls -> [key : PoolKeys \cup {NoKey}, generation : Nat]] BY DEF Restart, NoCall
<1>5. HealthTypeOK' BY <1>2, <1>3, <1>4 DEF Restart, HealthTypeOK
<1>6. CallInv' /\ ChainInv' BY <1>1 DEF Restart, CallInv, ChainInv, NoCall
<1>7. KeyRowInv' BY <1>1, HealthAssumption
                 DEF Restart, KeyRowInv, HealthKeyInv, Bound, Suspended, Persisting, Pending, NoCall
<1>. QED BY <1>5, <1>6, <1>7

(***************************************************************************)
(* Writes keep the invariant                                               *)
(***************************************************************************)
\* A suspension that is written, or that could not be: either way its key answers for it.
LEMMA PersistKeeps ==
  ASSUME HealthInv, 1 \in DOMAIN chain, NEW saved \in BOOLEAN, Persist(1, saved) PROVE HealthInv'
<1>. USE DEF HealthInv
<1>. PICK k : k = chain[1].key OBVIOUS
<1>1. /\ chain[1].kind = "persist" /\ chain' = RemoveAt(chain, 1)
      /\ UNCHANGED <<generation, quarantine, confirming, paused, candidates, hydrated, blind, call>>
      /\ \/ rows' = [rows EXCEPT ![k] = "fresh"] /\ unsaved' = unsaved \ {k}
         \/ rows' = rows /\ unsaved' = unsaved \cup {k}
  BY DEF Persist
<1>2. k \in PoolKeys BY WriteTypes
<1>3. k \in candidates /\ Persisting(k) BY <1>1 DEF ChainInv, WriteInv, Persisting
<1>4. HealthTypeOK' BY <1>1, <1>2, HeadGone DEF HealthTypeOK
<1>5. CallInv' BY <1>1 DEF CallInv
<1>6. \A l \in PoolKeys : l # k => rows'[l] = rows[l] /\ (l \in unsaved' <=> l \in unsaved)
  BY <1>1 DEF HealthTypeOK
<1>7. rows'[k] = "fresh" \/ (rows'[k] = rows[k] /\ k \in unsaved') BY <1>1, <1>2 DEF HealthTypeOK
<1>8. \A l : Suspended(l)' <=> Suspended(l) BY <1>1 DEF Suspended
<1>9. ChainInv'
  <2>. SUFFICES ASSUME NEW i \in DOMAIN chain' PROVE WriteInv(i)' BY DEF ChainInv
  <2>1. i \in Nat /\ i >= 1 /\ i + 1 \in DOMAIN chain /\ chain'[i] = chain[i + 1] BY <1>1, HeadGone
  <2>2. WriteInv(i + 1) /\ chain[i + 1].key \in PoolKeys BY <2>1, WriteTypes DEF ChainInv
  <2>3. chain[i + 1].kind \notin {"deleting", "deleted"} BY <2>1, <2>2 DEF WriteInv
  <2>4. ASSUME NEW j \in DOMAIN chain', j > i, chain'[j].key = chain'[i].key, chain'[j].kind = "persist"
        PROVE  j + 1 \in DOMAIN chain /\ j + 1 > i + 1 /\ chain[j + 1].key = chain[i + 1].key /\ chain[j + 1].kind = "persist"
    BY <1>1, <2>1, <2>4, HeadGone
  <2>. QED BY <1>1, <1>3, <1>6, <1>8, <2>1, <2>2, <2>3, <2>4 DEF WriteInv
<1>10. KeyRowInv'
  <2>. SUFFICES ASSUME NEW l \in PoolKeys PROVE HealthKeyInv(l)' BY DEF KeyRowInv
  <2>1. HealthKeyInv(l) BY DEF KeyRowInv
  <2>2. (Persisting(l)' => Persisting(l)) /\ (l # k => (Persisting(l) => Persisting(l)')) /\ (Pending(l)' => Pending(l))
    BY <1>1, HeadGone
  <2>. QED BY <1>1, <1>3, <1>6, <1>7, <1>8, <2>1, <2>2 DEF HealthKeyInv, Bound
<1>. QED BY <1>4, <1>5, <1>9, <1>10

\* A clear leaves the chain: overtaken, its delete failed, or the key resolved.
LEMMA LeavingKeeps ==
  ASSUME HealthInv, 1 \in DOMAIN chain, chain[1].kind # "persist", chain' = RemoveAt(chain, 1),
         UNCHANGED <<generation, quarantine, confirming, paused, hydrated, blind, rows, unsaved, call>>,
         \/ UNCHANGED candidates
         \/ /\ candidates' = candidates \ {chain[1].key} /\ chain[1].kind = "deleted"
            /\ chain[1].generation = generation[chain[1].key]
  PROVE  HealthInv'
<1>. USE DEF HealthInv
<1>. PICK k : k = chain[1].key OBVIOUS
<1>1. k \in PoolKeys BY WriteTypes
<1>2. WriteInv(1) BY DEF ChainInv
<1>3. candidates' \subseteq candidates /\ \A l : l \in candidates /\ l \notin candidates' => l = k OBVIOUS
<1>4. candidates' # candidates =>
        /\ rows[k] = "none"
        /\ \A j \in DOMAIN chain : j > 1 /\ chain[j].key = k => chain[j].kind # "persist"
  BY <1>2 DEF WriteInv
<1>5. HealthTypeOK' BY <1>3, HeadGone DEF HealthTypeOK
<1>6. CallInv' BY DEF CallInv
<1>7. \A l : Suspended(l)' <=> Suspended(l) BY DEF Suspended
<1>8. \A l : Persisting(l)' <=> Persisting(l) BY HeadGone
<1>9. ChainInv'
  <2>. SUFFICES ASSUME NEW i \in DOMAIN chain' PROVE WriteInv(i)' BY DEF ChainInv
  <2>1. i \in Nat /\ i >= 1 /\ i + 1 \in DOMAIN chain /\ chain'[i] = chain[i + 1] /\ i + 1 > 1 BY HeadGone
  <2>2. WriteInv(i + 1) /\ chain[i + 1].key \in PoolKeys BY <2>1, WriteTypes DEF ChainInv
  <2>3. chain[i + 1].kind \notin {"deleting", "deleted"} BY <2>1, <2>2 DEF WriteInv
  <2>4. ASSUME NEW j \in DOMAIN chain', j > i, chain'[j].key = chain'[i].key, chain'[j].kind = "persist"
        PROVE  j + 1 \in DOMAIN chain /\ j + 1 > i + 1 /\ chain[j + 1].key = chain[i + 1].key /\ chain[j + 1].kind = "persist"
    BY <2>1, <2>4, HeadGone
  <2>5. chain[i + 1].kind = "persist" => chain[i + 1].key \in candidates' BY <1>3, <1>4, <2>1, <2>2 DEF WriteInv
  <2>6. chain[i + 1].kind # "persist" => chain[i + 1].key \in candidates' \/ rows[chain[i + 1].key] = "none"
    BY <1>3, <1>4, <2>1, <2>2 DEF WriteInv
  <2>. QED BY <1>7, <2>1, <2>2, <2>3, <2>4, <2>5, <2>6 DEF WriteInv
<1>10. KeyRowInv'
  <2>. SUFFICES ASSUME NEW l \in PoolKeys PROVE HealthKeyInv(l)' BY DEF KeyRowInv
  <2>1. HealthKeyInv(l) BY DEF KeyRowInv
  <2>2. Pending(l)' => Pending(l) BY HeadGone
  <2>. QED BY <1>3, <1>4, <1>7, <1>8, <2>1, <2>2 DEF HealthKeyInv, Bound
<1>. QED BY <1>5, <1>6, <1>9, <1>10

LEMMA ClearStartKeeps == ASSUME HealthInv, 1 \in DOMAIN chain, ClearStart(1) PROVE HealthInv'
<1>. USE DEF HealthInv
<1>1. /\ chain[1].kind = "clear"
      /\ UNCHANGED <<generation, quarantine, confirming, paused, candidates, hydrated, blind, rows, unsaved, call>>
  BY DEF ClearStart
<1>2. CASE ~Current(chain[1].key, chain[1].generation)
  <2>1. chain' = RemoveAt(chain, 1) BY <1>2 DEF ClearStart
  <2>. QED BY <1>1, <2>1, LeavingKeeps
<1>3. CASE Current(chain[1].key, chain[1].generation)
  <2>1. chain' = [chain EXCEPT ![1].kind = "deleting"] BY <1>3 DEF ClearStart
  <2>2. HealthTypeOK' BY <1>1, <2>1, HeadMarked DEF HealthTypeOK
  <2>3. CallInv' BY <1>1 DEF CallInv
  <2>4. \A l : (Suspended(l)' <=> Suspended(l)) /\ (Persisting(l)' <=> Persisting(l)) /\ (Pending(l)' <=> Pending(l))
    BY <1>1, <2>1, HeadMarked DEF Suspended
  <2>5. /\ DOMAIN chain' = DOMAIN chain
        /\ \A i \in DOMAIN chain : chain'[i].key = chain[i].key /\ chain'[i].generation = chain[i].generation
        /\ \A i \in DOMAIN chain : chain'[i].kind = IF i = 1 THEN "deleting" ELSE chain[i].kind
    BY <1>1, <2>1, HeadMarked
  <2>6. ChainInv'
    <3>. SUFFICES ASSUME NEW i \in DOMAIN chain PROVE WriteInv(i)' BY <2>5 DEF ChainInv
    <3>1. WriteInv(i) BY DEF ChainInv
    <3>2. \A j \in DOMAIN chain : chain'[j].kind = "persist" <=> chain[j].kind = "persist" BY <1>1, <2>5
    <3>3. i = 1 => ~Suspended(chain[i].key) BY <1>1, <1>3, <3>1 DEF WriteInv, Current
    <3>. QED BY <1>1, <2>4, <2>5, <3>1, <3>2, <3>3 DEF WriteInv
  <2>7. KeyRowInv' BY <1>1, <2>4 DEF KeyRowInv, HealthKeyInv, Bound
  <2>. QED BY <2>2, <2>3, <2>6, <2>7
<1>. QED BY <1>2, <1>3

LEMMA ClearDeleteKeeps ==
  ASSUME HealthInv, 1 \in DOMAIN chain, NEW deleted \in BOOLEAN, ClearDelete(1, deleted) PROVE HealthInv'
<1>. USE DEF HealthInv
<1>. PICK k : k = chain[1].key OBVIOUS
<1>1. /\ chain[1].kind = "deleting"
      /\ UNCHANGED <<generation, quarantine, confirming, paused, candidates, hydrated, blind, unsaved, call>>
  BY DEF ClearDelete
<1>2. CASE ~deleted
  <2>1. chain' = RemoveAt(chain, 1) /\ rows' = rows BY <1>2 DEF ClearDelete
  <2>. QED BY <1>1, <2>1, LeavingKeeps
<1>3. CASE deleted
  <2>0. k \in PoolKeys BY WriteTypes
  <2>1. chain' = [chain EXCEPT ![1].kind = "deleted"] /\ rows' = [rows EXCEPT ![k] = "none"] BY <1>3 DEF ClearDelete
  <2>2. HealthTypeOK' BY <1>1, <2>1, HeadMarked DEF HealthTypeOK
  <2>3. CallInv' BY <1>1 DEF CallInv
  <2>4. \A l : (Suspended(l)' <=> Suspended(l)) /\ (Persisting(l)' <=> Persisting(l)) /\ (Pending(l)' <=> Pending(l))
    BY <1>1, <2>1, HeadMarked DEF Suspended
  <2>5. /\ DOMAIN chain' = DOMAIN chain
        /\ \A i \in DOMAIN chain : chain'[i].key = chain[i].key /\ chain'[i].generation = chain[i].generation
        /\ \A i \in DOMAIN chain : chain'[i].kind = IF i = 1 THEN "deleted" ELSE chain[i].kind
    BY <1>1, <2>1, HeadMarked
  <2>6. rows'[k] = "none" /\ \A l \in PoolKeys : l # k => rows'[l] = rows[l] BY <2>0, <2>1 DEF HealthTypeOK
  <2>7. ChainInv'
    <3>. SUFFICES ASSUME NEW i \in DOMAIN chain PROVE WriteInv(i)' BY <2>5 DEF ChainInv
    <3>1. WriteInv(i) /\ chain[i].key \in PoolKeys BY WriteTypes DEF ChainInv
    <3>2. \A j \in DOMAIN chain : chain'[j].kind = "persist" <=> chain[j].kind = "persist" BY <1>1, <2>5
    <3>. QED BY <1>1, <2>4, <2>5, <2>6, <3>1, <3>2 DEF WriteInv
  <2>8. KeyRowInv'
    <3>. SUFFICES ASSUME NEW l \in PoolKeys PROVE HealthKeyInv(l)' BY DEF KeyRowInv
    <3>1. HealthKeyInv(l) BY DEF KeyRowInv
    <3>2. Suspended(k) => Persisting(k) BY <1>1 DEF ChainInv, WriteInv
    <3>. QED BY <1>1, <2>4, <2>6, <3>1, <3>2 DEF HealthKeyInv, Bound
  <2>. QED BY <2>2, <2>3, <2>7, <2>8
<1>. QED BY <1>2, <1>3

LEMMA ClearResolveKeeps == ASSUME HealthInv, 1 \in DOMAIN chain, ClearResolve(1) PROVE HealthInv'
<1>1. /\ chain[1].kind = "deleted" /\ chain' = RemoveAt(chain, 1)
      /\ UNCHANGED <<generation, quarantine, confirming, paused, hydrated, blind, rows, unsaved, call>>
      /\ \/ UNCHANGED candidates
         \/ /\ candidates' = candidates \ {chain[1].key}
            /\ chain[1].generation = generation[chain[1].key]
  BY DEF ClearResolve, Resolves, Current
<1>. QED BY <1>1, LeavingKeeps

(***************************************************************************)
(* The theorems                                                            *)
(***************************************************************************)
LEMMA HealthKept == HealthInv /\ [HealthNext]_healthVars => HealthInv'
<1>. SUFFICES ASSUME HealthInv, [HealthNext]_healthVars PROVE HealthInv' OBVIOUS
<1>1. CASE Hydrate BY <1>1, HydrateKeeps
<1>2. CASE WriteStep
  <2>1. PICK i \in DOMAIN chain : ClearStart(i) \/ ClearResolve(i) \/ \E done \in BOOLEAN : Persist(i, done) \/ ClearDelete(i, done)
    BY <1>2 DEF WriteStep
  <2>2. i = 1 BY <2>1 DEF ClearStart, ClearResolve, Persist, ClearDelete, Runnable
  <2>. QED BY <2>1, <2>2, ClearStartKeeps, ClearResolveKeeps, PersistKeeps, ClearDeleteKeeps
<1>3. CASE Restart BY <1>3, RestartKeeps
<1>4. CASE WindowElapses \/ \E k \in PoolKeys, kind \in {"daily", "local"} : CooldownElapses(k, kind)
  BY <1>4, OtherElapsesKeeps
<1>5. CASE \E c \in Calls : Succeeded(c) BY <1>5, SucceededKeeps
<1>6. CASE \E c \in Calls, k \in PoolKeys : Dispatch(c, k) BY <1>6, DispatchKeeps
<1>7. CASE \E c \in Calls, kind \in {"daily", "local", "suspended"} : Failed(c, kind) BY <1>7, FailedKeeps
<1>8. CASE \E k \in PoolKeys : SuspensionElapses(k) BY <1>8, SuspensionElapsesKeeps
<1>9. CASE UNCHANGED healthVars
  BY <1>9 DEF healthVars, HealthInv, HealthTypeOK, CallInv, ChainInv, WriteInv, KeyRowInv, HealthKeyInv, Bound, Suspended, Persisting, Pending
<1>. QED BY <1>1, <1>2, <1>3, <1>4, <1>5, <1>6, <1>7, <1>8, <1>9 DEF HealthNext

LEMMA HealthAlways == HealthSpec => []HealthInv
<1>1. HealthInit => HealthInv BY HealthInitially
<1>2. HealthInv /\ [HealthNext]_healthVars => HealthInv' BY HealthKept
<1>. QED BY <1>1, <1>2, PTL DEF HealthSpec

\* The variables of the pool keep their types: youtubeProviderCooldown.ts, youtubeKeyHealth.ts.
THEOREM HealthTypeCorrect == HealthSpec => []HealthTypeOK
<1>1. HealthInv => HealthTypeOK BY DEF HealthInv
<1>. QED BY <1>1, HealthAlways, PTL

\* Once the chained writes of a key are done, its suspension in memory and its durable row agree,
\* and the row belongs to a candidate (serializeYouTubeSuspensionWrite, clearYouTubeSuspensionIfCurrent).
THEOREM MemoryAgrees == HealthSpec => []MemoryMatchesRows
<1>1. HealthInv => MemoryMatchesRows BY ExposesAgreement
<1>. QED BY <1>1, HealthAlways, PTL

(***************************************************************************)
(* The instance                                                            *)
(***************************************************************************)
\* Only its midnight moves the day in either account.
LEMMA CapDay == CapNext => CapMidnight \/ UNCHANGED today
<1>1. SweepLeases => UNCHANGED today BY DEF SweepLeases
<1>2. ASSUME NEW r \in Requests, ReserveCap(r) \/ Send(r) \/ FailRequest(r) \/ Answer(r) \/ Abandon(r)
      PROVE  UNCHANGED today
  BY <1>2 DEF ReserveCap, Send, FailRequest, Answer, Abandon
<1>3. ASSUME NEW r \in Requests, NEW ok \in BOOLEAN, Withdraw(r, ok) \/ ChargeCap(r, ok)
      PROVE  UNCHANGED today
  BY <1>3 DEF Withdraw, ChargeCap
<1>4. ASSUME NEW r \in Requests, NEW k \in Keys, Begin(r, k) PROVE UNCHANGED today BY <1>4 DEF Begin
<1>. QED BY <1>1, <1>2, <1>3, <1>4 DEF CapNext

LEMMA LedgerDay == LedgerNext => LedgerMidnight \/ UNCHANGED today
<1>1. ASSUME NEW o \in Operations, TryReserve(o) \/ TopUp(o) \/ Charge(o) \/ Reconcile(o)
      PROVE  UNCHANGED today
  BY <1>1 DEF TryReserve, TopUp, Charge, Reconcile, Close
<1>2. ASSUME NEW o \in Operations, WorkerDies(o) \/ Lapse(o) PROVE UNCHANGED today
  BY <1>2 DEF WorkerDies, Lapse
<1>3. ASSUME NEW o \in Operations, NEW kind, Open(o, kind) PROVE UNCHANGED today BY <1>3 DEF Open
<1>4. ASSUME NEW o \in Operations, NEW status, FinishReservation(o, status) PROVE UNCHANGED today
  BY <1>4 DEF FinishReservation
<1>. QED BY <1>1, <1>2, <1>3, <1>4 DEF LedgerNext

\* A step of the instance is a step of one part, and leaves the others alone but for the
\* Pacific day: the midnight of the caps is that of the budget.
LEMMA ServicesParts ==
  [ServicesNext]_<<subject, healthVars, capVars, ledgerVars, siteVars, bootstrapVars, vocabularyVars>> =>
    /\ [HealthNext]_healthVars /\ [CapNext]_capVars /\ [LedgerNext]_ledgerVars
    /\ [SiteNext]_siteVars /\ [BootstrapNext]_bootstrapVars /\ [VocabularyNext]_vocabularyVars
<1>. DEFINE all == <<subject, healthVars, capVars, ledgerVars, siteVars, bootstrapVars, vocabularyVars>>
<1>. SUFFICES ASSUME ServicesNext \/ UNCHANGED all
             PROVE  /\ [HealthNext]_healthVars /\ [CapNext]_capVars /\ [LedgerNext]_ledgerVars
                    /\ [SiteNext]_siteVars /\ [BootstrapNext]_bootstrapVars /\ [VocabularyNext]_vocabularyVars
  OBVIOUS
<1>1. CASE UNCHANGED all BY <1>1
<1>2. CASE ServicesNext
  <2>1. [HealthNext]_healthVars BY <1>2 DEF ServicesNext
  <2>2. [SiteNext]_siteVars BY <1>2 DEF ServicesNext
  <2>3. [BootstrapNext]_bootstrapVars BY <1>2 DEF ServicesNext
  <2>4. [VocabularyNext]_vocabularyVars BY <1>2 DEF ServicesNext
  <2>5. CASE subject = "cap" /\ CapNext /\ UNCHANGED ledgerOnly
    <3>1. CASE CapMidnight
      <4>1. LedgerMidnight BY <2>5, <3>1 DEF CapMidnight, LedgerMidnight, ledgerOnly
      <4>. QED BY <2>1, <2>2, <2>3, <2>4, <2>5, <4>1 DEF LedgerNext
    <3>2. CASE UNCHANGED today
      <4>1. UNCHANGED ledgerVars BY <2>5, <3>2 DEF ledgerOnly, ledgerVars
      <4>. QED BY <2>1, <2>2, <2>3, <2>4, <2>5, <4>1
    <3>. QED BY <2>5, <3>1, <3>2, CapDay
  <2>6. CASE subject = "ledger" /\ LedgerNext /\ UNCHANGED capOnly
    <3>1. CASE LedgerMidnight
      <4>1. CapMidnight BY <2>6, <3>1 DEF CapMidnight, LedgerMidnight, capOnly
      <4>. QED BY <2>1, <2>2, <2>3, <2>4, <2>6, <4>1 DEF CapNext
    <3>2. CASE UNCHANGED today
      <4>1. UNCHANGED capVars BY <2>6, <3>2 DEF capOnly, capVars
      <4>. QED BY <2>1, <2>2, <2>3, <2>4, <2>6, <4>1
    <3>. QED BY <2>6, <3>1, <3>2, LedgerDay
  <2>7. CASE subject \notin {"cap", "ledger"} /\ UNCHANGED <<today, capOnly, ledgerOnly>>
    <3>1. UNCHANGED capVars /\ UNCHANGED ledgerVars BY <2>7 DEF capOnly, ledgerOnly, capVars, ledgerVars
    <3>. QED BY <2>1, <2>2, <2>3, <2>4, <3>1
  <2>. QED BY <1>2, <2>5, <2>6, <2>7 DEF ServicesNext
<1>. QED BY <1>1, <1>2

\* What is proved of a part holds of the instance: it is a behaviour of each of the six.
THEOREM ServicesImplementsParts ==
  ServicesSpec =>
    /\ HealthSpec /\ CapSpec /\ LedgerSpec
    /\ SiteSpec /\ BootstrapSpec /\ VocabularySpec
<1>1. ServicesInit => HealthInit /\ CapInit /\ LedgerInit /\ SiteInit /\ BootstrapInit /\ VocabularyInit
  BY DEF ServicesInit
<1>. QED
  BY <1>1, ServicesParts, PTL
  DEF ServicesSpec, HealthSpec, CapSpec, LedgerSpec, SiteSpec, BootstrapSpec, VocabularySpec

\* The rows and accounts of the six parts, and the places of those that use them, have
\* their types.
THEOREM ServicesTypeCorrect == ServicesSpec => []ServicesTypeOK
<1>1. ServicesTypeOK <=> /\ HealthTypeOK /\ CapTypeOK /\ LedgerTypeOK
                         /\ SiteTypeOK /\ BootstrapTypeOK /\ VocabularyTypeOK
  BY DEF ServicesTypeOK
<1>. QED
  BY <1>1, ServicesImplementsParts, HealthTypeCorrect, CapTypeCorrect, LedgerTypeCorrect,
     SiteTypeCorrect, BootstrapTypeCorrect, VocabularyTypeCorrect, PTL
=============================================================================
