---------------------------- MODULE WebAppProofs ----------------------------
(***************************************************************************)
(* What the pages of the web application show, for every selection of the  *)
(* network page's data, every range of the sliders, every number of        *)
(* services on chain and every order of clicks, timers and answers.        *)
(***************************************************************************)
EXTENDS WebApp, NetworkAnalysisProofs

-----------------------------------------------------------------------------
\* The chain and the queries

\* The ids a look at n services on chain finds.
FoundOf(n) == {i \in 0 .. (MaxServiceId - 1) : i < n}

\* The registered services are counted, and a query's data, if it has any, are
\* those of a moment when there were no more services than now.
ChainInv ==
    /\ onChain \in [initialized : BOOLEAN, services : Nat]
    /\ onChain.services > 0 => onChain.initialized
    /\ \/ servicesQuery.data \in {Undefined, Failed}
       \/ \E n \in 0 .. onChain.services : servicesQuery.data = FoundOf(n)

LEMMA ChainInit ==
    ASSUME Init
    PROVE  ChainInv
BY DEF Init, ChainDataInit, ChainInv, Mounted, Fetch, NoData

\* A fetch asks again; it brings no data.
LEMMA FetchKeeps ==
    ASSUME ChainInv, onChain' = onChain,
           \/ servicesQuery'.data = servicesQuery.data
           \/ servicesQuery'.data \in {Undefined, Failed}
    PROVE  ChainInv'
BY DEF ChainInv, FoundOf

LEMMA ChainStep ==
    ASSUME ChainInv, [Next]_vars
    PROVE  ChainInv'
<1>1. ASSUME NEW to \in Pages, Navigate(to)
      PROVE  ChainInv'
  <2>1. /\ onChain' = onChain
        /\ \/ servicesQuery' = Mounted(servicesQuery, TRUE)
           \/ servicesQuery' = NoData
    BY <1>1 DEF Navigate, ChainDataMount
  <2>2. \/ servicesQuery'.data = servicesQuery.data
        \/ servicesQuery'.data \in {Undefined, Failed}
    BY <2>1 DEF Mounted, Fetch, NoData
  <2>3. QED
    BY <2>1, <2>2, FetchKeeps
<1>2. ASSUME ChainDataNext(page)
      PROVE  ChainInv'
  <2>1. CASE RefetchServices(page)
    BY <2>1, FetchKeeps DEF RefetchServices, Fetch
  <2>2. CASE UseServices
    <3>1. servicesQuery'.data = FoundOf(onChain.services) /\ onChain' = onChain
      BY <2>2 DEF UseServices, Answered, FoundIds, FoundOf
    <3>2. onChain.services \in 0 .. onChain.services
      BY DEF ChainInv
    <3>3. QED
      BY <3>1, <3>2 DEF ChainInv, FoundOf
  <2>3. CASE ServicesFail
    BY <2>3, FetchKeeps DEF ServicesFail, FetchFailed, Answered
  <2>4. CASE RegisterOnChain
    <3>1. /\ onChain.initialized /\ servicesQuery' = servicesQuery
          /\ onChain' = [onChain EXCEPT !.services = @ + 1]
      BY <2>4 DEF RegisterOnChain
    <3>2. onChain'.services \in {onChain.services, onChain.services + 1}
      BY <3>1
    <3>3. QED
      BY <3>1, <3>2 DEF ChainInv, FoundOf
  <2>5. CASE InitializeOnChain
    BY <2>5 DEF InitializeOnChain, ChainInv, FoundOf
  <2>6. CASE RefetchConfig(page) \/ UseNetworkConfig \/ ConfigFails \/ ToggleWallet
    BY <2>6, FetchKeeps DEF RefetchConfig, UseNetworkConfig, ConfigFails, ToggleWallet
  <2>7. QED
    BY <1>2, <2>1, <2>2, <2>3, <2>4, <2>5, <2>6 DEF ChainDataNext
<1>3. CASE OnNetworkPage \/ OnAnalyzerPage \/ UNCHANGED vars
  BY <1>3, FetchKeeps DEF OnNetworkPage, OnAnalyzerPage, vars, chainDataVars
<1>4. QED
  BY <1>1, <1>2, <1>3 DEF Next, OnAnyPage

\* What was found are the first ids, as many as there were services.
LEMMA FoundCount ==
    ASSUME NEW n \in Nat
    PROVE  Cardinality(FoundOf(n)) = IF n <= MaxServiceId THEN n ELSE MaxServiceId
<1> DEFINE m == IF n <= MaxServiceId THEN n ELSE MaxServiceId
<1>1. m \in Nat /\ MaxServiceId \in Nat
  BY ChainDataAssumption
<1>2. FoundOf(n) = 0 .. (m - 1)
  BY <1>1 DEF FoundOf
<1> HIDE DEF m
<1>3. Cardinality(0 .. (m - 1)) = m
  BY <1>1, FS_Interval
<1>4. QED
  BY <1>2, <1>3 DEF m

(***************************************************************************)
(* ShownExist: a query's data are ids of registered services, from the     *)
(* first on, because nothing closes the account of a service.              *)
(***************************************************************************)
LEMMA ChainShown ==
    ASSUME ChainInv
    PROVE  ShownExist
<1>1. PICK n \in 0 .. onChain.services : ServicesFound \in {{}, FoundOf(n)}
  <2>1. CASE servicesQuery.data \in {Undefined, Failed}
    BY <2>1 DEF ChainInv, ServicesFound
  <2>2. CASE servicesQuery.data \notin {Undefined, Failed}
    BY <2>2 DEF ChainInv, ServicesFound
  <2>3. QED
    BY <2>1, <2>2
<1>2. n \in Nat /\ onChain.services \in Nat /\ n <= onChain.services
  BY DEF ChainInv
<1>3. OnChainCount <= onChain.services /\ OnChainCount <= MaxServiceId
  <2>1. Cardinality(FoundOf(n)) <= n /\ Cardinality(FoundOf(n)) <= MaxServiceId
    BY <1>2, FoundCount, ChainDataAssumption
  <2>2. OnChainCount \in {0, Cardinality(FoundOf(n))}
    BY <1>1, FS_EmptySet DEF OnChainCount
  <2>3. QED
    BY <1>2, <2>1, <2>2, FoundCount, ChainDataAssumption
<1>4. ASSUME NEW row \in MockServices, OnChainAddress(row) # NoAddress
      PROVE  /\ \E i \in 0 .. (onChain.services - 1) : OnChainAddress(row) = ServicePda(i)
             /\ \A above \in 1 .. (row - 1) : OnChainAddress(above) = ServicePda(above - 1)
  <2>1. row \in Nat /\ row - 1 \in FoundOf(n) /\ ServicesFound = FoundOf(n)
    BY <1>1, <1>4 DEF OnChainAddress, MockServices
  <2>2. OnChainAddress(row) = ServicePda(row - 1) /\ row - 1 \in 0 .. (onChain.services - 1)
    BY <1>2, <2>1 DEF OnChainAddress, FoundOf
  <2>3. ASSUME NEW above \in 1 .. (row - 1)
        PROVE  OnChainAddress(above) = ServicePda(above - 1)
    <3>1. above - 1 \in ServicesFound
      BY <1>2, <2>1, ChainDataAssumption DEF FoundOf
    <3>2. QED
      BY <3>1 DEF OnChainAddress
  <2>4. QED
    BY <2>2, <2>3
<1>5. ActiveServicesStat # MockActiveServices => ActiveServicesStat = DisplayTotal
  BY DEF ActiveServicesStat, DisplayTotal, DashboardIsLive, RegistryIsLive
<1>6. QED
  BY <1>3, <1>4, <1>5 DEF ShownExist

-----------------------------------------------------------------------------
\* The analyzer page

AnalyzerPageInv ==
    /\ params \in Settings
    /\ results \in Settings \cup {NoResults}
    /\ computing \subseteq Settings
    /\ isComputing \in BOOLEAN
    /\ isComputing <=> computing # {}
    /\ \A p, q \in computing : p = q
    /\ page # "analyzer" => computing = {}

LEMMA NothingComputed ==
    ASSUME params = DefaultParams, results = NoResults, isComputing = FALSE, computing = {}
    PROVE  AnalyzerPageInv
BY AnalyzerPageAssumption DEF AnalyzerPageInv

LEMMA AnalyzerPageStep ==
    ASSUME AnalyzerPageInv, [Next]_vars
    PROVE  AnalyzerPageInv'
<1>1. ASSUME NEW to \in Pages, Navigate(to)
      PROVE  AnalyzerPageInv'
  <2>1. /\ params' = DefaultParams /\ results' = NoResults
        /\ isComputing' = FALSE /\ computing' = {}
    BY <1>1 DEF Navigate, AnalyzerPageUnmount
  <2>2. QED
    BY <2>1, AnalyzerPageAssumption DEF AnalyzerPageInv
<1>2. CASE OnAnalyzerPage
  <2>1. ASSUME NEW key \in DOMAIN SliderValues, NEW value \in SliderValues[key],
               MoveSlider(key, value)
        PROVE  params' \in Settings
    <3>1. params' = [params EXCEPT ![key] = value]
      BY <2>1 DEF MoveSlider
    <3>2. value \in UNION {SliderValues[k] : k \in DOMAIN SliderValues}
      OBVIOUS
    <3>3. QED
      BY <3>1, <3>2 DEF AnalyzerPageInv, Settings
  <2>2. ASSUME NEW key \in DOMAIN SliderValues, NEW value \in SliderValues[key],
               MoveSlider(key, value)
        PROVE  AnalyzerPageInv'
    BY <1>2, <2>1, <2>2
       DEF OnAnalyzerPage, MoveSlider, AnalyzerPageInv
  <2>3. CASE HandleCompute
    <3>1. /\ isComputing' = TRUE /\ computing' = {params}
          /\ params' = params /\ results' = results /\ page = "analyzer" /\ page' = page
      BY <1>2, <2>3 DEF HandleCompute, ComputeEnabled, OnAnalyzerPage, AnalyzerPageInv
    <3>2. QED
      BY <3>1 DEF AnalyzerPageInv
  <2>4. ASSUME NEW p \in computing, ComputeTimeout(p)
        PROVE  AnalyzerPageInv'
    <3>1. computing = {p}
      BY <2>4 DEF AnalyzerPageInv
    <3>2. /\ isComputing' = FALSE /\ computing' = {} /\ results' = p /\ params' = params
      BY <2>4, <3>1 DEF ComputeTimeout, ButtonAfter
    <3>3. QED
      BY <2>4, <3>2 DEF AnalyzerPageInv
  <2>5. CASE HandleResetDefaults \/ \E fig \in Figures : ShowFigure(fig)
    BY <1>2, <2>5, AnalyzerPageAssumption
       DEF HandleResetDefaults, ShowFigure, OnAnalyzerPage, AnalyzerPageInv
  <2>6. QED
    BY <1>2, <2>2, <2>3, <2>4, <2>5 DEF OnAnalyzerPage, AnalyzerPageNext
<1>3. CASE OnNetworkPage \/ OnAnyPage \/ UNCHANGED vars
  BY <1>3 DEF OnNetworkPage, OnAnyPage, vars, analyzerPageVars, AnalyzerPageInv
<1>4. QED
  BY <1>1, <1>2, <1>3 DEF Next

LEMMA AtMostOne ==
    ASSUME AnalyzerPageInv
    PROVE  OneComputation
<1>1. Cardinality({}) = 0 /\ \A p : Cardinality({p}) = 1
  BY FS_EmptySet, FS_Singleton
<1>2. computing = {} \/ \E p \in computing : computing = {p}
  BY DEF AnalyzerPageInv
<1>3. Cardinality(computing) <= 1
  <2>1. CASE computing = {}
    BY <1>1, <2>1
  <2>2. ASSUME NEW p \in computing, computing = {p}
        PROVE  Cardinality(computing) <= 1
    <3>1. Cardinality({p}) = 1
      BY <1>1
    <3>2. QED
      BY <2>2, <3>1
  <2>3. QED
    BY <1>2, <2>1, <2>2
<1>4. QED
  BY <1>3 DEF AnalyzerPageInv, OneComputation

-----------------------------------------------------------------------------
\* The data of the network page

ActiveAtFirst(s) == INITIAL_SERVICES[s].status = "active"

\* The edges of a validator that carry stake at first.
Live(v) == {a \in INITIAL_ALLOCATIONS : a.validator = v /\ ActiveAtFirst(a.service)}

LEMMA ServicesAtFirst ==
    ASSUME NEW s \in Services
    PROVE  /\ ActiveAtFirst(s) <=> s # "s2"
           /\ ~ActiveAtFirst(s) => INITIAL_SERVICES[s] = [status |-> "slashed", allocated |-> 0]
           /\ ActiveAtFirst(s) => INITIAL_SERVICES[s].allocated \in Nat \ {0}
BY NetworkPageAssumption DEF INITIAL_SERVICES, ActiveAtFirst

\* An edge carries the effective stake of its validator, or nothing.
LEMMA EdgesAtFirst ==
    ASSUME NEW a \in INITIAL_ALLOCATIONS
    PROVE  /\ a.validator \in Validators /\ a.service \in Services
           /\ a = Allocation(a.validator, a.service, a.amount, a.effective)
           /\ a.amount \in {4, 5}
           /\ INITIAL_VALIDATORS[a.validator] \in {1, 5}
           /\ a.effective = IF ActiveAtFirst(a.service)
                            THEN INITIAL_VALIDATORS[a.validator] ELSE 0
<1>1. a.validator \in Validators /\ a.service \in Services
  BY DEF INITIAL_ALLOCATIONS
<1>2. ActiveAtFirst(a.service) <=> a.service # "s2"
  BY <1>1, ServicesAtFirst
<1>3. INITIAL_VALIDATORS[a.validator] = IF a.validator = "v2" THEN 1 ELSE 5
  BY <1>1 DEF INITIAL_VALIDATORS, Stake
<1>4. QED
  BY <1>1, <1>2, <1>3 DEF INITIAL_ALLOCATIONS, Allocation

LEMMA OneEdgePerPair ==
    ASSUME NEW a \in INITIAL_ALLOCATIONS, NEW b \in INITIAL_ALLOCATIONS,
           a.validator = b.validator, a.service = b.service
    PROVE  a = b
BY DEF INITIAL_ALLOCATIONS, Allocation

\* A validator has two edges.
LEMMA TwoEdges ==
    ASSUME NEW a \in INITIAL_ALLOCATIONS, NEW b \in INITIAL_ALLOCATIONS,
           NEW c \in INITIAL_ALLOCATIONS, a.validator = b.validator, b.validator = c.validator
    PROVE  a = b \/ b = c \/ a = c
BY DEF INITIAL_ALLOCATIONS, Allocation

LEMMA DataFinite ==
    IsFiniteSet(Validators) /\ IsFiniteSet(Services) /\ IsFiniteSet(INITIAL_ALLOCATIONS)
<1> DEFINE number == [v \in Validators |->
                CASE v = "v0" -> 0 [] v = "v1" -> 1 [] v = "v2" -> 2
                  [] v = "v3" -> 3 [] v = "v4" -> 4 [] v = "v5" -> 5]
           index == [s \in Services |->
                CASE s = "s0" -> 0 [] s = "s1" -> 1 [] s = "s2" -> 2 [] s = "s3" -> 3]
           ends == [a \in INITIAL_ALLOCATIONS |-> <<a.validator, a.service>>]
<1>1. IsFiniteSet(0 .. 5)
  BY FS_Interval, 0 \in Int, 5 \in Int, Zenon
<1>2. number \in Injection(Validators, 0 .. 5) /\ index \in Injection(Services, 0 .. 5)
  BY NetworkPageAssumption DEF Injection, IsInjective
<1>3. IsFiniteSet(Validators) /\ IsFiniteSet(Services)
  <2> HIDE DEF number, index
  <2>1. QED
    BY <1>1, <1>2, FS_Injection
<1>4. ends \in Injection(INITIAL_ALLOCATIONS, Validators \X Services)
  <2>1. ends \in [INITIAL_ALLOCATIONS -> Validators \X Services]
    BY EdgesAtFirst
  <2>2. \A a, b \in INITIAL_ALLOCATIONS : ends[a] = ends[b] => a = b
    BY OneEdgePerPair
  <2> HIDE DEF ends
  <2>3. QED
    BY <2>1, <2>2 DEF Injection, IsInjective
<1>5. IsFiniteSet(Validators \X Services)
  BY <1>3, FS_Product
<1>6. IsFiniteSet(INITIAL_ALLOCATIONS)
  <2> HIDE DEF ends
  <2>1. QED
    BY <1>4, <1>5, FS_Injection
<1>7. QED
  BY <1>3, <1>6

-----------------------------------------------------------------------------
\* Sums over edges

LEMMA EffectiveUnfolds ==
    ASSUME NEW A, IsFiniteSet(A), NEW f, \A a \in A : f[a] = a.effective
    PROVE  SumEffective(A) = SumFunctionOnSet(f, A)
<1> DEFINE iter == CHOOSE g : g = [s \in SUBSET A |->
                IF s = {} THEN 0 ELSE Next1(s).effective + g[s \ {Next1(s)}]]
<1>1. SumEffective(A) = iter[A]
  BY Zenon DEF SumEffective, MapThenSumSet, MapThenFoldSet, Next1
<1>2. PICK g : Unfolds(g, f, A)
  BY UnfoldsExists
<1>3. ASSUME NEW h
      PROVE  [s \in SUBSET A |-> IF s = {} THEN 0 ELSE Next1(s).effective + h[s \ {Next1(s)}]]
             = [s \in SUBSET A |-> IF s = {} THEN 0 ELSE f[Next1(s)] + h[s \ {Next1(s)}]]
  <2>1. \A s \in SUBSET A : s # {} => f[Next1(s)] = Next1(s).effective
    BY Next1In
  <2>2. QED
    BY <2>1
<1>4. g = [s \in SUBSET A |-> IF s = {} THEN 0 ELSE Next1(s).effective + g[s \ {Next1(s)}]]
  BY <1>2, <1>3, Zenon DEF Unfolds
<1>5. iter = [s \in SUBSET A |->
                IF s = {} THEN 0 ELSE Next1(s).effective + iter[s \ {Next1(s)}]]
  BY <1>4, Zenon
<1>6. Unfolds(iter, f, A)
  BY <1>3, <1>5, Zenon DEF Unfolds
<1>7. PICK h : Unfolds(h, f, A) /\ SumFunctionOnSet(f, A) = h[A]
  BY SumUnfolds
<1>8. iter[A] = h[A]
  <2> HIDE DEF iter
  <2>1. QED
    BY <1>6, <1>7, UnfoldsUnique
<1>9. QED
  BY <1>1, <1>7, <1>8, Zenon

\* Edges without stake may be left out of the sum.
LEMMA SumOfNone ==
    ASSUME NEW A, IsFiniteSet(A), \A a \in A : a.effective = 0
    PROVE  SumEffective(A) = 0
<1> DEFINE f == [a \in A |-> a.effective]
<1>1. SumEffective(A) = SumFunctionOnSet(f, A)
  BY EffectiveUnfolds
<1>2. SumFunctionOnSet(f, A) = SumFunctionOnSet(f, {})
  BY SumPart
<1>3. QED
  BY <1>1, <1>2, SumEmpty

LEMMA SumOfOne ==
    ASSUME NEW A, IsFiniteSet(A), NEW b \in A, b.effective \in Int,
           \A a \in A \ {b} : a.effective = 0
    PROVE  SumEffective(A) = b.effective
<1> DEFINE f == [a \in A |-> a.effective]
<1>1. \A a \in A : f[a] \in Int
  OBVIOUS
<1>2. SumEffective(A) = SumFunctionOnSet(f, A)
  BY EffectiveUnfolds
<1>3. SumFunctionOnSet(f, A) = f[b] + SumFunctionOnSet(f, A \ {b})
  <2> HIDE DEF f
  <2>1. QED
    BY <1>1, SumRemove
<1>4. SumFunctionOnSet(f, A \ {b}) = 0
  <2>1. IsFiniteSet(A \ {b})
    BY FS_RemoveElement
  <2>2. SumFunctionOnSet(f, A \ {b}) = SumFunctionOnSet(f, {})
    BY <2>1, SumPart
  <2>3. QED
    BY <2>2, SumEmpty
<1>5. QED
  BY <1>2, <1>3, <1>4

LEMMA SumOfSome ==
    ASSUME NEW A, IsFiniteSet(A), \A a \in A : a.effective \in Nat,
           NEW b \in A, b.effective > 0
    PROVE  SumEffective(A) > 0
<1> DEFINE f == [a \in A |-> a.effective]
<1>1. f \in [A -> Nat] /\ f[b] > 0
  OBVIOUS
<1>2. SumEffective(A) = SumFunctionOnSet(f, A)
  BY EffectiveUnfolds
<1>3. SumFunctionOnSet(f, A) = SumFunction(f)
  BY DEF SumFunction
<1>4. SumFunction(f) \in Nat /\ f[b] <= SumFunction(f)
  <2> HIDE DEF f
  <2>1. QED
    BY <1>1, TotalNat
<1> HIDE DEF f
<1>5. QED
  BY <1>1, <1>2, <1>3, <1>4

-----------------------------------------------------------------------------
\* The graph: the data, less what has been slashed since

SlashedIn(svc) == {s \in Services : svc[s].status = "slashed"}

Carried(svc, a) == IF a.service \in SlashedIn(svc) THEN [a EXCEPT !.effective = 0] ELSE a

\* The effective stake of a validator that was slashed, once or more often.
LeftAfter(v) == IF \E a, b \in Live(v) : a # b THEN INITIAL_VALIDATORS[v] ELSE 0

Hit(svc, v) == \E a \in Live(v) : a.service \in SlashedIn(svc)

GraphInv(eff, svc, alloc) ==
    /\ svc = [s \in Services |-> IF s \in SlashedIn(svc)
                                 THEN [status |-> "slashed", allocated |-> 0]
                                 ELSE INITIAL_SERVICES[s]]
    /\ \A s \in Services \ SlashedIn(svc) : ActiveAtFirst(s)
    /\ alloc = {Carried(svc, a) : a \in INITIAL_ALLOCATIONS}
    /\ eff = [v \in Validators |-> IF Hit(svc, v) THEN LeftAfter(v) ELSE INITIAL_VALIDATORS[v]]

LEMMA GraphAtFirst ==
    GraphInv(INITIAL_VALIDATORS, INITIAL_SERVICES, INITIAL_ALLOCATIONS)
<1> DEFINE svc == INITIAL_SERVICES
<1>1. \A s \in Services : s \in SlashedIn(svc) <=> ~ActiveAtFirst(s)
  BY NetworkPageAssumption DEF SlashedIn, ActiveAtFirst, INITIAL_SERVICES
<1>2. svc = [s \in Services |-> IF s \in SlashedIn(svc)
                                THEN [status |-> "slashed", allocated |-> 0]
                                ELSE INITIAL_SERVICES[s]]
  <2>1. \A s \in SlashedIn(svc) : INITIAL_SERVICES[s] = [status |-> "slashed", allocated |-> 0]
    BY <1>1, ServicesAtFirst DEF SlashedIn
  <2>2. INITIAL_SERVICES \in [Services -> [status : {"active", "slashed"}, allocated : Nat]]
    BY NetworkPageAssumption DEF INITIAL_SERVICES
  <2>3. INITIAL_SERVICES = [s \in Services |-> INITIAL_SERVICES[s]]
    BY <2>2
  <2>4. QED
    BY <2>1, <2>3
<1>3. \A a \in INITIAL_ALLOCATIONS : Carried(svc, a) = a
  <2>1. ASSUME NEW a \in INITIAL_ALLOCATIONS, a.service \in SlashedIn(svc)
        PROVE  [a EXCEPT !.effective = 0] = a
    <3>1. a.effective = 0
      BY <1>1, <2>1, EdgesAtFirst
    <3>2. a = Allocation(a.validator, a.service, a.amount, a.effective)
      BY EdgesAtFirst
    <3>3. QED
      BY <3>1, <3>2 DEF Allocation
  <2>2. QED
    BY <2>1 DEF Carried
<1>4. \A v \in Validators : ~Hit(svc, v)
  BY <1>1, EdgesAtFirst DEF Hit, Live
<1>5. INITIAL_VALIDATORS = [v \in Validators |->
         IF Hit(svc, v) THEN LeftAfter(v) ELSE INITIAL_VALIDATORS[v]]
  BY <1>4 DEF INITIAL_VALIDATORS
<1>6. QED
  BY <1>1, <1>2, <1>3, <1>5 DEF GraphInv

\* What HandleSlash computes, from the data, for a validator it affects.
LEMMA RemainingIsLeft ==
    ASSUME NEW v \in Validators, NEW a \in Live(v)
    PROVE  Remaining(v, a.service) = LeftAfter(v)
<1> DEFINE t == a.service
           A == OfValidator(v, INITIAL_ALLOCATIONS) \ OfService(t, INITIAL_ALLOCATIONS)
<1>1. IsFiniteSet(A)
  BY DataFinite, FS_Subset DEF OfValidator, OfService
<1>2. \A b \in A : b \in INITIAL_ALLOCATIONS /\ b.validator = v /\ b # a
  BY DEF OfValidator, OfService
<1>3. \A b \in A : b \notin Live(v) => b.effective = 0
  BY <1>2, EdgesAtFirst DEF Live
<1>4. CASE \E b \in Live(v) : b # a
  <2>1. PICK b \in Live(v) : b # a
    BY <1>4
  <2>2. b \in A
    BY <2>1, OneEdgePerPair DEF Live, OfValidator, OfService
  <2>3. A \subseteq {b}
    <3>1. ASSUME NEW c \in A
          PROVE  c = b
      BY <1>2, <2>1, TwoEdges DEF Live
    <3>2. QED
      BY <3>1
  <2>4. b.effective = INITIAL_VALIDATORS[v] /\ b.effective \in Int
    BY EdgesAtFirst DEF Live
  <2>5. SumEffective(A) = b.effective
    <3> HIDE DEF A
    <3>1. QED
      BY <1>1, <2>2, <2>3, <2>4, SumOfOne
  <2>6. LeftAfter(v) = INITIAL_VALIDATORS[v]
    BY <2>1 DEF LeftAfter
  <2>7. QED
    BY <2>4, <2>5, <2>6 DEF Remaining
<1>5. CASE ~\E b \in Live(v) : b # a
  <2>1. \A b \in A : b.effective = 0
    BY <1>2, <1>3, <1>5
  <2>2. SumEffective(A) = 0
    <3> HIDE DEF A
    <3>1. QED
      BY <1>1, <2>1, SumOfNone
  <2>3. LeftAfter(v) = 0
    BY <1>5 DEF LeftAfter
  <2>4. QED
    BY <2>2, <2>3 DEF Remaining
<1>6. QED
  BY <1>4, <1>5

\* A slash of a service that the data call active.
LEMMA SlashKeeps ==
    ASSUME NEW eff, NEW svc, NEW alloc, GraphInv(eff, svc, alloc),
           NEW t \in Services, ActiveAtFirst(t), NEW svc2, NEW eff2,
           svc2 = [svc EXCEPT ![t] = [status |-> "slashed", allocated |-> 0]],
           eff2 = [v \in Validators |->
               IF v \in {a.validator : a \in OfService(t, INITIAL_ALLOCATIONS)}
               THEN Remaining(v, t) ELSE eff[v]]
    PROVE  GraphInv(eff2, svc2, Slashed(alloc, t))
<1>1. SlashedIn(svc2) = SlashedIn(svc) \cup {t}
  BY DEF GraphInv, SlashedIn
<1>2. svc2 = [s \in Services |-> IF s \in SlashedIn(svc2)
                                 THEN [status |-> "slashed", allocated |-> 0]
                                 ELSE INITIAL_SERVICES[s]]
  BY <1>1 DEF GraphInv
<1>3. \A s \in Services \ SlashedIn(svc2) : ActiveAtFirst(s)
  BY <1>1 DEF GraphInv
<1>4. Slashed(alloc, t) = {Carried(svc2, a) : a \in INITIAL_ALLOCATIONS}
  <2> DEFINE Zero(a) == IF a.service = t THEN [a EXCEPT !.effective = 0] ELSE a
  <2>1. ASSUME NEW a \in INITIAL_ALLOCATIONS
        PROVE  Zero(Carried(svc, a)) = Carried(svc2, a)
    <3>1. a = Allocation(a.validator, a.service, a.amount, a.effective)
      BY EdgesAtFirst
    <3>2. QED
      BY <1>1, <3>1 DEF Carried, Allocation
  <2>2. Slashed(alloc, t) = {Zero(b) : b \in alloc}
    BY DEF Slashed
  <2>3. alloc = {Carried(svc, a) : a \in INITIAL_ALLOCATIONS}
    BY DEF GraphInv
  <2> HIDE DEF Zero
  <2>4. {Zero(b) : b \in alloc} = {Carried(svc2, a) : a \in INITIAL_ALLOCATIONS}
    BY <2>1, <2>3
  <2>5. QED
    BY <2>2, <2>4
<1>5. ASSUME NEW v \in Validators
      PROVE  eff2[v] = IF Hit(svc2, v) THEN LeftAfter(v) ELSE INITIAL_VALIDATORS[v]
  <2>1. CASE \E a \in Live(v) : a.service = t
    <3>1. PICK a \in Live(v) : a.service = t
      BY <2>1
    <3>2. v \in {b.validator : b \in OfService(t, INITIAL_ALLOCATIONS)}
      BY <3>1 DEF Live, OfService
    <3>3. eff2[v] = LeftAfter(v)
      BY <3>1, <3>2, RemainingIsLeft
    <3>4. Hit(svc2, v)
      BY <1>1, <3>1 DEF Hit
    <3>5. QED
      BY <3>3, <3>4
  <2>2. CASE ~\E a \in Live(v) : a.service = t
    <3>1. v \notin {b.validator : b \in OfService(t, INITIAL_ALLOCATIONS)}
      BY <2>2 DEF Live, OfService
    <3>2. eff2[v] = eff[v]
      BY <3>1
    <3>3. Hit(svc2, v) <=> Hit(svc, v)
      BY <1>1, <2>2 DEF Hit
    <3>4. QED
      BY <3>2, <3>3 DEF GraphInv
  <2>3. QED
    BY <2>1, <2>2
<1>6. QED
  BY <1>2, <1>3, <1>4, <1>5 DEF GraphInv

LEMMA AllocationsFinite ==
    ASSUME NEW eff, NEW svc, NEW alloc, GraphInv(eff, svc, alloc)
    PROVE  IsFiniteSet(alloc)
<1> DEFINE f == [y \in INITIAL_ALLOCATIONS |-> Carried(svc, y)]
<1>1. f \in Surjection(INITIAL_ALLOCATIONS, alloc)
  BY DEF Surjection, GraphInv
<1> HIDE DEF f
<1>2. QED
  BY <1>1, DataFinite, FS_Surjection

\* What a validator's edges carry together.
LEMMA CarriedSum ==
    ASSUME NEW eff, NEW svc, NEW alloc, GraphInv(eff, svc, alloc),
           NEW v \in Validators, NEW a \in Live(v), a.service \in SlashedIn(svc)
    PROVE  /\ (\A b \in Live(v) : b.service \in SlashedIn(svc) => b = a)
                 => SumEffective(OfValidator(v, alloc)) = LeftAfter(v)
           /\ (\E b \in Live(v) : b.service \in SlashedIn(svc) /\ b # a)
                 => SumEffective(OfValidator(v, alloc)) = 0
<1> DEFINE A == OfValidator(v, alloc)
           Spared(y) == y \in Live(v) /\ y.service \notin SlashedIn(svc)
<1>1. IsFiniteSet(A)
  BY AllocationsFinite, FS_Subset DEF OfValidator
<1>2. ASSUME NEW x \in A
      PROVE  x.effective = 0 \/ Spared(x)
  <2>1. PICK y \in INITIAL_ALLOCATIONS : x = Carried(svc, y)
    BY DEF GraphInv, OfValidator
  <2>2. y = Allocation(y.validator, y.service, y.amount, y.effective)
    BY EdgesAtFirst
  <2>3. x.validator = v
    BY DEF OfValidator
  <2>4. CASE y.service \in SlashedIn(svc)
    BY <2>1, <2>2, <2>4 DEF Carried, Allocation
  <2>5. CASE y.service \notin SlashedIn(svc)
    BY <2>1, <2>3, <2>5, EdgesAtFirst DEF Carried, Live, GraphInv
  <2>6. QED
    BY <2>4, <2>5
<1>3. ASSUME NEW b \in Live(v), b # a
      PROVE  \A y \in Live(v) : y = a \/ y = b
  BY <1>3, TwoEdges DEF Live
<1>4. ASSUME NEW b \in Live(v), b.service \in SlashedIn(svc), b # a
      PROVE  SumEffective(A) = 0
  <2>1. \A x \in A : x.effective = 0
    BY <1>2, <1>3, <1>4
  <2> HIDE DEF A
  <2>2. QED
    BY <1>1, <2>1, SumOfNone
<1>5. ASSUME \A b \in Live(v) : b.service \in SlashedIn(svc) => b = a
      PROVE  SumEffective(A) = LeftAfter(v)
  <2>1. CASE \E b \in Live(v) : b # a
    <3>1. PICK b \in Live(v) : b # a
      BY <2>1
    <3>2. Spared(b)
      BY <1>5, <3>1
    <3>3. b \in A
      BY <3>2 DEF GraphInv, Carried, OfValidator, Live
    <3>4. \A x \in A \ {b} : x.effective = 0
      BY <1>2, <1>3, <3>1
    <3>5. b.effective = INITIAL_VALIDATORS[v] /\ b.effective \in Int
      BY EdgesAtFirst DEF Live
    <3>6. SumEffective(A) = b.effective
      <4> HIDE DEF A
      <4>1. QED
        BY <1>1, <3>3, <3>4, <3>5, SumOfOne
    <3>7. QED
      BY <3>1, <3>5, <3>6 DEF LeftAfter
  <2>2. CASE ~\E b \in Live(v) : b # a
    <3>1. \A x \in A : x.effective = 0
      BY <1>2, <2>2
    <3>2. SumEffective(A) = 0
      <4> HIDE DEF A
      <4>1. QED
        BY <1>1, <3>1, SumOfNone
    <3>3. QED
      BY <2>2, <3>2 DEF LeftAfter
  <2>3. QED
    BY <2>1, <2>2
<1>6. QED
  BY <1>4, <1>5

(***************************************************************************)
(* EffectiveExactAtFirst: the stake shown is what the edges carry after    *)
(* the first hit, and no less after a second.                              *)
(***************************************************************************)
LEMMA GraphExact ==
    ASSUME GraphInv(effectiveStake, services, allocations)
    PROVE  EffectiveExactAtFirst
<1> SUFFICES ASSUME NEW v \in Validators
             PROVE  LET carried == SumEffective(OfValidator(v, allocations))
                        hit     == Cardinality(HitSince(v))
                    IN  /\ hit = 0 => effectiveStake[v] = INITIAL_VALIDATORS[v]
                        /\ hit = 1 => effectiveStake[v] = carried
                        /\ hit > 1 => effectiveStake[v] >= carried
  BY DEF EffectiveExactAtFirst
<1> DEFINE carried == SumEffective(OfValidator(v, allocations))
           hit     == Cardinality(HitSince(v))
           stake   == IF Hit(services, v) THEN LeftAfter(v) ELSE INITIAL_VALIDATORS[v]
<1>1. effectiveStake[v] = stake
  BY DEF GraphInv
<1>2. HitSince(v) = {a.service : a \in {b \in Live(v) : b.service \in SlashedIn(services)}}
  <2>1. \A a \in INITIAL_ALLOCATIONS : a.service \in Services
    BY EdgesAtFirst
  <2>2. QED
    BY <2>1 DEF HitSince, Live, OfValidator, ActiveAtFirst, SlashedIn
<1>3. IsFiniteSet(HitSince(v))
  <2>1. HitSince(v) \in SUBSET Services
    BY <1>2 DEF SlashedIn
  <2>2. QED
    BY <2>1, DataFinite, FS_Subset
<1>4. CASE ~Hit(services, v)
  <2>1. HitSince(v) = {}
    BY <1>2, <1>4 DEF Hit
  <2>2. hit = 0
    BY <2>1, FS_EmptySet
  <2>3. QED
    BY <1>1, <1>4, <2>2
<1>5. CASE Hit(services, v)
  <2>1. PICK a \in Live(v) : a.service \in SlashedIn(services)
    BY <1>5 DEF Hit
  <2>2. a.service \in HitSince(v)
    BY <1>2, <2>1
  <2>3. hit # 0
    BY <1>3, <2>2, FS_EmptySet
  <2>4. CASE \A b \in Live(v) : b.service \in SlashedIn(services) => b = a
    <3>1. carried = LeftAfter(v)
      BY <2>1, <2>4, CarriedSum
    <3>2. LeftAfter(v) \in Int
      BY EdgesAtFirst DEF LeftAfter, Live
    <3>3. QED
      BY <1>1, <1>5, <2>3, <3>1, <3>2
  <2>5. CASE \E b \in Live(v) : b.service \in SlashedIn(services) /\ b # a
    <3>1. PICK b \in Live(v) : b.service \in SlashedIn(services) /\ b # a
      BY <2>5
    <3>2. carried = 0
      BY <2>1, <2>5, CarriedSum
    <3>3. b.service # a.service
      BY <3>1, OneEdgePerPair DEF Live
    <3>4. b.service \in HitSince(v)
      BY <1>2, <3>1
    <3>5. hit # 1
      <4>1. ~\E x : HitSince(v) = {x}
        BY <2>2, <3>3, <3>4
      <4>2. QED
        BY <1>3, <4>1, FS_Singleton
    <3>6. LeftAfter(v) \in Nat
      BY EdgesAtFirst DEF LeftAfter, Live
    <3>7. QED
      BY <1>1, <1>5, <2>3, <3>2, <3>5, <3>6
  <2>6. QED
    BY <2>4, <2>5
<1>6. QED
  BY <1>4, <1>5

LEMMA EdgesNow ==
    ASSUME NEW eff, NEW svc, NEW alloc, GraphInv(eff, svc, alloc), NEW x \in alloc
    PROVE  /\ x.validator \in Validators /\ x.service \in Services
           /\ x.amount \in {4, 5} /\ x.effective \in {0, 1, 5}
           /\ x.effective > 0 <=> x.service \notin SlashedIn(svc)
           /\ \A y \in alloc : y.validator = x.validator /\ y.service = x.service => y = x
<1>1. PICK a \in INITIAL_ALLOCATIONS : x = Carried(svc, a)
  BY DEF GraphInv
<1>2. a = Allocation(a.validator, a.service, a.amount, a.effective)
  BY EdgesAtFirst
<1>3. /\ a.validator \in Validators /\ a.service \in Services /\ a.amount \in {4, 5}
      /\ a.service \notin SlashedIn(svc) => a.effective \in {1, 5}
  BY EdgesAtFirst DEF GraphInv
<1>4. /\ x.validator = a.validator /\ x.service = a.service /\ x.amount = a.amount
      /\ x.effective = IF a.service \in SlashedIn(svc) THEN 0 ELSE a.effective
  BY <1>1, <1>2 DEF Carried, Allocation
<1>5. ASSUME NEW y \in alloc, y.validator = x.validator, y.service = x.service
      PROVE  y = x
  <2>1. PICK b \in INITIAL_ALLOCATIONS : y = Carried(svc, b)
    BY DEF GraphInv
  <2>2. b = Allocation(b.validator, b.service, b.amount, b.effective)
    BY EdgesAtFirst
  <2>3. y.validator = b.validator /\ y.service = b.service
    BY <2>1, <2>2 DEF Carried, Allocation
  <2>4. b = a
    BY <1>4, <1>5, <2>3, OneEdgePerPair
  <2>5. QED
    BY <1>1, <2>1, <2>4
<1>6. QED
  BY <1>3, <1>4, <1>5

(***************************************************************************)
(* ViewsAgree: the service list, the graph, the panels and the select are  *)
(* drawn from the same slashes.                                            *)
(***************************************************************************)
LEMMA GraphViews ==
    ASSUME GraphInv(effectiveStake, services, allocations)
    PROVE  ViewsAgree
<1>1. ASSUME NEW s \in Services
      PROVE  /\ services[s].status \in {"active", "slashed"}
             /\ s \in Offered <=> s \notin SlashedIn(services)
             /\ s \in Offered <=> services[s].allocated > 0
  <2>1. INITIAL_SERVICES[s].status \in {"active", "slashed"}
    BY NetworkPageAssumption DEF INITIAL_SERVICES
  <2>2. CASE s \in SlashedIn(services)
    BY <2>2 DEF GraphInv, SlashedIn, Offered
  <2>3. CASE s \notin SlashedIn(services)
    <3>1. services[s] = INITIAL_SERVICES[s] /\ ActiveAtFirst(s)
      BY <2>3 DEF GraphInv
    <3>2. QED
      BY <2>1, <2>3, <3>1, ServicesAtFirst DEF ActiveAtFirst, Offered
  <2>4. QED
    BY <2>2, <2>3
<1>2. ASSUME NEW s \in Services
      PROVE  s \in Offered <=> SumEffective(OfService(s, allocations)) > 0
  <2> DEFINE A == OfService(s, allocations)
  <2>1. IsFiniteSet(A)
    BY AllocationsFinite, FS_Subset DEF OfService
  <2>2. \A x \in A : x \in allocations /\ x.service = s
    BY DEF OfService
  <2>3. CASE s \in SlashedIn(services)
    <3>1. \A x \in A : x.effective = 0
      BY <2>2, <2>3, EdgesNow
    <3>2. SumEffective(A) = 0
      <4> HIDE DEF A
      <4>1. QED
        BY <2>1, <3>1, SumOfNone
    <3>3. QED
      BY <1>1, <2>3, <3>2
  <2>4. CASE s \notin SlashedIn(services)
    <3>1. PICK a \in INITIAL_ALLOCATIONS : a.service = s
      BY EveryNodeHasAnEdge
    <3>2. a \in A
      BY <2>4, <3>1 DEF GraphInv, Carried, OfService
    <3>3. a.effective > 0 /\ \A x \in A : x.effective \in Nat
      BY <2>2, <2>4, <3>1, <3>2, EdgesNow
    <3>4. SumEffective(A) > 0
      <4> HIDE DEF A
      <4>1. QED
        BY <2>1, <3>2, <3>3, SumOfSome
    <3>5. QED
      BY <1>1, <2>4, <3>4
  <2>5. QED
    BY <2>3, <2>4
<1>3. ASSUME NEW s \in Services
      PROVE  LET detail == ServiceDetail(s) IN
             /\ s \in Offered <=> ServiceView(s).active
             /\ s \in Offered <=> detail.totalAllocated > 0
             /\ s \in Offered <=> ServiceView(s).tooltip > 0
  BY <1>1, <1>2 DEF ServiceDetail, ServiceView, Offered
<1>4. ASSUME NEW a \in allocations
      PROVE  /\ a.service \in Offered <=> a.effective > 0
             /\ EdgeDetail(a.validator, a.service) # {}
             /\ EdgeView(a).slashed <=>
                   \A shown \in EdgeDetail(a.validator, a.service) : shown.effectiveness = 0
  <2>1. /\ a.service \in Services /\ a.amount \in {4, 5} /\ a.effective \in {0, 1, 5}
        /\ a.effective > 0 <=> a.service \notin SlashedIn(services)
    BY EdgesNow
  <2>2. EdgeDetail(a.validator, a.service)
          = {[amount |-> a.amount, effective |-> a.effective,
              effectiveness |-> Percent(a.effective, a.amount)]}
    <3>1. {x \in allocations : x.validator = a.validator /\ x.service = a.service} = {a}
      BY EdgesNow
    <3>2. QED
      BY <3>1 DEF EdgeDetail
  <2>3. Percent(a.effective, a.amount) = 0 <=> a.effective = 0
    BY <2>1 DEF Percent
  <2>4. EdgeView(a).slashed <=> (services[a.service].status = "slashed" \/ a.effective = 0)
    BY DEF EdgeView
  <2>5. EdgeView(a).slashed <=> a.effective = 0
    BY <2>1, <2>4 DEF SlashedIn
  <2>6. QED
    BY <1>1, <2>1, <2>2, <2>3, <2>5
<1>5. ASSUME NEW a \in allocations, EdgeView(a).highlighted
      PROVE  ~ValidatorView(a.validator).dimmed /\ ~ServiceView(a.service).node.dimmed
  <2>1. <<a.validator, a.service>> \in ConnectedEdges.edges
    BY <1>5 DEF EdgeView
  <2>2. a.validator \in ConnectedEdges.nodes /\ a.service \in ConnectedEdges.nodes
    BY <2>1 DEF ConnectedEdges
  <2>3. QED
    BY <2>2 DEF ValidatorView, ServiceView, NodeView
<1>6. ASSUME NEW v \in Validators, ValidatorView(v).hovered
      PROVE  ~ValidatorView(v).dimmed
  <2>1. hoveredNode = v
    BY <1>6 DEF ValidatorView, NodeView
  <2>2. PICK a \in INITIAL_ALLOCATIONS : a.validator = v
    BY EveryNodeHasAnEdge
  <2>3. Carried(services, a) \in allocations /\ Carried(services, a).validator = v
    <3>1. a = Allocation(a.validator, a.service, a.amount, a.effective)
      BY EdgesAtFirst
    <3>2. QED
      BY <2>2, <3>1 DEF GraphInv, Carried, Allocation
  <2>4. v \in ConnectedEdges.nodes
    BY <2>1, <2>3 DEF ConnectedEdges
  <2>5. QED
    BY <2>4 DEF ValidatorView, NodeView
<1>7. ASSUME NEW v \in Validators
      PROVE  /\ ValidatorRow(v).degree = ValidatorDetail(v).degree
             /\ ValidatorRow(v).ratio = ValidatorDetail(v).utilization
  BY DEF ValidatorRow, ValidatorDetail
<1>8. QED
  BY <1>3, <1>4, <1>5, <1>6, <1>7 DEF ViewsAgree

-----------------------------------------------------------------------------
\* The network page

NetworkInv ==
    /\ GraphInv(effectiveStake, services, allocations)
    /\ slashTarget \in Services \cup {None}
    /\ slashTarget # None => ActiveAtFirst(slashTarget)
    /\ hoveredNode \in Validators \cup Services \cup {None}
    /\ timers \in 0 .. MaxTimers
    /\ page # "network" => timers = 0

LEMMA OfferedActive ==
    ASSUME NetworkInv, NEW s \in Offered
    PROVE  s \in Services /\ ActiveAtFirst(s)
BY DEF NetworkInv, GraphInv, Offered, SlashedIn

LEMMA HandleSlashGraph ==
    ASSUME NetworkInv, HandleSlash
    PROVE  /\ slashTarget \in Services /\ ActiveAtFirst(slashTarget)
           /\ GraphInv(effectiveStake', services', allocations')
<1>1. slashTarget \in Services /\ ActiveAtFirst(slashTarget)
  BY DEF NetworkInv, HandleSlash
<1>2. /\ services' = [services EXCEPT ![slashTarget] = [status |-> "slashed", allocated |-> 0]]
      /\ allocations' = Slashed(allocations, slashTarget)
      /\ effectiveStake' = [v \in Validators |->
             IF v \in {a.validator : a \in OfService(slashTarget, INITIAL_ALLOCATIONS)}
             THEN Remaining(v, slashTarget) ELSE effectiveStake[v]]
  BY DEF HandleSlash
<1>3. GraphInv(effectiveStake, services, allocations)
  BY DEF NetworkInv
<1>4. GraphInv(effectiveStake', services', Slashed(allocations, slashTarget))
  BY <1>1, <1>2, <1>3, SlashKeeps
<1>5. QED
  BY <1>1, <1>2, <1>4

LEMMA NetworkInit ==
    ASSUME Init
    PROVE  NetworkInv
BY GraphAtFirst, NetworkPageAssumption DEF Init, NetworkPageInit, NetworkInv, Graph0

LEMMA NetworkStep ==
    ASSUME NetworkInv, [Next]_vars
    PROVE  NetworkInv'
<1>1. ASSUME NEW to \in Pages, Navigate(to)
      PROVE  NetworkInv'
  BY <1>1, GraphAtFirst, NetworkPageAssumption
     DEF Navigate, NetworkPageUnmount, NetworkInv, Graph0
<1>2. CASE OnNetworkPage
  <2>1. CASE HandleSlash
    <3>1. timers' = timers + 1 /\ timers < MaxTimers
      BY <2>1 DEF HandleSlash, TimersAfterSlash
    <3>2. timers' \in 0 .. MaxTimers
      BY <3>1, NetworkPageAssumption DEF NetworkInv
    <3>3. slashTarget' = slashTarget /\ hoveredNode' = hoveredNode /\ page' = page
          /\ page = "network"
      BY <1>2, <2>1 DEF HandleSlash, OnNetworkPage, viewVars
    <3>4. GraphInv(effectiveStake', services', allocations')
      BY <2>1, HandleSlashGraph
    <3>5. QED
      BY <3>2, <3>3, <3>4 DEF NetworkInv
  <2>2. CASE HandleReset
    BY <1>2, <2>2, GraphAtFirst DEF HandleReset, OnNetworkPage, NetworkInv, Graph0
  <2>3. CASE SlashTimeout
    <3>1. timers' \in 0 .. MaxTimers
      BY <2>3, NetworkPageAssumption DEF SlashTimeout, NetworkInv
    <3>2. QED
      BY <1>2, <2>3, <3>1 DEF SlashTimeout, OnNetworkPage, NetworkInv, graphVars, viewVars
  <2>4. ASSUME NEW target \in Offered \cup {None}, SelectTarget(target)
        PROVE  NetworkInv'
    <3>1. target # None => target \in Services /\ ActiveAtFirst(target)
      BY OfferedActive
    <3>2. QED
      BY <1>2, <2>4, <3>1 DEF SelectTarget, OnNetworkPage, NetworkInv, graphVars, viewVars
  <2>5. ASSUME NEW node \in Validators \cup Services \cup {None}, Hover(node)
        PROVE  NetworkInv'
    BY <1>2, <2>5 DEF Hover, OnNetworkPage, NetworkInv, graphVars, slashVars
  <2>6. ASSUME ClosePanel \/ \E what : Click(what)
        PROVE  NetworkInv'
    BY <1>2, <2>6 DEF ClosePanel, Click, OnNetworkPage, NetworkInv, graphVars, slashVars
  <2>7. QED
    BY <1>2, <2>1, <2>2, <2>3, <2>4, <2>5, <2>6 DEF OnNetworkPage, NetworkPageNext
<1>3. CASE OnAnalyzerPage \/ OnAnyPage \/ UNCHANGED vars
  BY <1>3 DEF OnAnalyzerPage, OnAnyPage, vars, networkVars, graphVars, viewVars, slashVars,
              NetworkInv
<1>4. QED
  BY <1>1, <1>2, <1>3 DEF Next

-----------------------------------------------------------------------------
\* The score

LEMMA QuotientMonotone ==
    ASSUME NEW m \in Nat, NEW n \in Nat, m <= n, NEW k \in Nat, k > 0
    PROVE  m \div k <= n \div k
<1> DEFINE q == m \div k
           r == n \div k
<1>1. /\ q \in Int /\ k * q <= m
      /\ r \in Int /\ n < k * r + k
  OBVIOUS
<1> HIDE DEF q, r
<1>2. SUFFICES ASSUME r + 1 <= q
               PROVE  FALSE
  BY <1>1 DEF q, r
<1>3. k * (r + 1) <= k * q
  BY <1>1, <1>2
<1>4. k * (r + 1) = k * r + k
  BY <1>1
<1>5. QED
  BY <1>1, <1>3, <1>4

\* A larger part is no smaller a percentage.
LEMMA PercentMonotone ==
    ASSUME NEW part \in Nat, NEW more \in Nat, part <= more, NEW whole \in Nat
    PROVE  Percent(part, whole) <= Percent(more, whole)
<1>1. CASE whole = 0
  BY <1>1 DEF Percent
<1>2. CASE whole > 0
  <2> DEFINE m == 200 * part + whole
             n == 200 * more + whole
             k == 2 * whole
  <2>1. m \in Nat /\ n \in Nat /\ m <= n /\ k \in Nat /\ k > 0
    BY <1>2
  <2>2. m \div k <= n \div k
    <3> HIDE DEF m, n, k
    <3>1. QED
      BY <2>1, QuotientMonotone
  <2>3. QED
    BY <1>2, <2>2 DEF Percent
<1>3. QED
  BY <1>1, <1>2

LEMMA StakesNow ==
    ASSUME NEW eff, NEW svc, NEW alloc, GraphInv(eff, svc, alloc)
    PROVE  /\ eff \in [Validators -> Nat]
           /\ \A v \in Validators : LeftAfter(v) <= INITIAL_VALIDATORS[v] /\ eff[v] <= Stake
<1>1. \A v \in Validators : INITIAL_VALIDATORS[v] \in {1, Stake}
  BY DEF INITIAL_VALIDATORS
<1>2. \A v \in Validators : LeftAfter(v) \in {0, INITIAL_VALIDATORS[v]}
  BY DEF LeftAfter
<1>3. eff = [v \in Validators |-> IF Hit(svc, v) THEN LeftAfter(v) ELSE INITIAL_VALIDATORS[v]]
  BY DEF GraphInv
<1>4. QED
  BY <1>1, <1>2, <1>3 DEF Stake

LEMMA ScoreFalls ==
    ASSUME GraphInv(effectiveStake, services, allocations),
           GraphInv(effectiveStake', services', allocations'),
           \A v \in Validators : effectiveStake'[v] <= effectiveStake[v]
    PROVE  GraphScore' <= GraphScore
<1>1. PICK eff, eff2 : eff = effectiveStake /\ eff2 = effectiveStake'
  OBVIOUS
<1>2. /\ GraphScore = Percent(SumFunctionOnSet(effectiveStake, Validators),
                              Stake * Cardinality(Validators))
      /\ GraphScore' = Percent(SumFunctionOnSet(effectiveStake', Validators),
                               Stake * Cardinality(Validators))
  BY Zenon DEF GraphScore, MapThenSumSet, SumFunctionOnSet, FoldFunctionOnSet, MapThenFoldSet
<1>3. eff \in [Validators -> Nat] /\ eff2 \in [Validators -> Nat]
  BY <1>1, StakesNow
<1>4. \A v \in Validators : eff2[v] <= eff[v]
  BY <1>1
<1>5. /\ SumFunctionOnSet(eff2, Validators) <= SumFunctionOnSet(eff, Validators)
      /\ SumFunctionOnSet(eff2, Validators) \in Nat
      /\ SumFunctionOnSet(eff, Validators) \in Nat
  <2>1. SumFunctionOnSet(eff2, Validators) <= SumFunctionOnSet(eff, Validators)
    BY <1>3, <1>4, DataFinite, SumMonotone
  <2>2. SumFunction(eff) \in Nat /\ SumFunction(eff2) \in Nat
    BY <1>3, DataFinite, TotalNat
  <2>3. QED
    BY <1>3, <2>1, <2>2 DEF SumFunction
<1>6. Stake * Cardinality(Validators) \in Nat
  <2>1. Cardinality(Validators) \in Nat
    BY DataFinite, FS_CardinalityType
  <2>2. QED
    BY <2>1 DEF Stake
<1>7. PICK more, part, whole :
         /\ more = SumFunctionOnSet(eff, Validators)
         /\ part = SumFunctionOnSet(eff2, Validators)
         /\ whole = Stake * Cardinality(Validators)
  OBVIOUS
<1>8. Percent(part, whole) <= Percent(more, whole)
  BY <1>5, <1>6, <1>7, PercentMonotone
<1>9. QED
  BY <1>1, <1>2, <1>7, <1>8

(***************************************************************************)
(* SlashNeverRaises: what a slash leaves a validator does not depend on    *)
(* which of its services was slashed, nor on how many were before.         *)
(***************************************************************************)
LEMMA SlashLowers ==
    ASSUME NetworkInv, HandleSlash
    PROVE  /\ \A v \in Validators : effectiveStake'[v] <= effectiveStake[v]
           /\ GraphScore' <= GraphScore
           /\ services[slashTarget].status = "slashed" => UNCHANGED graphVars
<1> DEFINE t == slashTarget
           out == [status |-> "slashed", allocated |-> 0]
<1>1. /\ t \in Services /\ ActiveAtFirst(t)
      /\ GraphInv(effectiveStake, services, allocations)
      /\ GraphInv(effectiveStake', services', allocations')
  BY HandleSlashGraph DEF NetworkInv
<1>2. services' = [services EXCEPT ![t] = out]
  BY DEF HandleSlash
<1>3. SlashedIn(services') = SlashedIn(services) \cup {t}
  BY <1>1, <1>2 DEF GraphInv, SlashedIn
<1>4. ASSUME NEW v \in Validators
      PROVE  effectiveStake'[v] <= effectiveStake[v]
  <2>1. /\ effectiveStake[v] =
             IF Hit(services, v) THEN LeftAfter(v) ELSE INITIAL_VALIDATORS[v]
        /\ effectiveStake'[v] =
             IF Hit(services', v) THEN LeftAfter(v) ELSE INITIAL_VALIDATORS[v]
    BY <1>1 DEF GraphInv
  <2>2. Hit(services, v) => Hit(services', v)
    BY <1>3 DEF Hit
  <2>3. LeftAfter(v) <= INITIAL_VALIDATORS[v] /\ effectiveStake[v] \in Nat
    BY <1>1, StakesNow
  <2>4. QED
    BY <2>1, <2>2, <2>3
<1>5. GraphScore' <= GraphScore
  BY <1>1, <1>4, ScoreFalls
<1>6. ASSUME services[t].status = "slashed"
      PROVE  UNCHANGED graphVars
  <2>1. SlashedIn(services') = SlashedIn(services)
    BY <1>1, <1>3, <1>6 DEF SlashedIn
  <2>2. \A v \in Validators : Hit(services', v) <=> Hit(services, v)
    BY <2>1 DEF Hit
  <2>3. effectiveStake' = effectiveStake
    BY <1>1, <2>2 DEF GraphInv
  <2>4. services' = services
    BY <1>1, <2>1 DEF GraphInv
  <2>5. allocations' = allocations
    BY <1>1, <2>4 DEF GraphInv
  <2>6. QED
    BY <2>3, <2>4, <2>5 DEF graphVars
<1>7. QED
  BY <1>4, <1>5, <1>6

-----------------------------------------------------------------------------
\* The optimal degree

LEMMA SettingsPositive ==
    ASSUME NEW p \in Settings
    PROVE  {p.numValidators, p.numServices, p.stakePerValidator, p.attackPrize, p.maxDegree}
              \subseteq Nat \ {0}
BY AnalyzerPageAssumption DEF Settings

LEMMA AnyDegree ==
    ASSUME NEW p \in Settings, NEW d \in 1 .. p.maxDegree
    PROVE  /\ SymmetricOf(p, d) \in Symmetric
           /\ RobustnessAt(p, d).num \in Int /\ RobustnessAt(p, d).den \in Nat \ {0}
<1> DEFINE q == SymmetricOf(p, d)
<1>1. q \in Symmetric /\ q.sigma \in Int
  BY SettingsPositive DEF SymmetricOf, Symmetric
<1> HIDE DEF q
<1>2. ValidatorsHit(q, WorstSize(q)) \in Int /\ ScaleOf(q) \in Nat \ {0}
  BY <1>1, WorstIs, HitBounds, ScalePositive
<1>3. MinAttackCost(q).num \in Int /\ MinAttackCost(q).den \in Nat \ {0}
  BY <1>1, <1>2 DEF MinAttackCost
<1>4. QED
  BY <1>1, <1>3 DEF q, RobustnessAt

\* The sweep finds a degree, the first of those that none does better than.
LEMMA OptimalIs ==
    ASSUME NEW p \in Settings
    PROVE  /\ OptimalDegree(p) \in 1 .. p.maxDegree
           /\ \A e \in (1 .. p.maxDegree) \ {OptimalDegree(p)} : Beats(p, OptimalDegree(p), e)
<1> DEFINE n == p.maxDegree
           r(d) == RobustnessAt(p, d)
           R == {z \in (1 .. n) \X (1 .. n) : AtLeast(r(z[1]), r(z[2]))}
<1>1. \A d \in 1 .. n : r(d).num \in Int /\ r(d).den \in Nat \ {0}
  BY AnyDegree
<1>2. n \in Nat /\ n > 0
  BY SettingsPositive
<1>3. \A i, j \in 1 .. n : <<i, j>> \in R <=> AtLeast(r(i), r(j))
  OBVIOUS
<1>4. \A i, j \in 1 .. n : /\ AtLeast(r(i), r(j)) \/ AtLeast(r(j), r(i))
                           /\ Above(r(i), r(j)) <=> ~AtLeast(r(j), r(i))
  <2>1. ASSUME NEW i \in 1 .. n, NEW j \in 1 .. n
        PROVE  /\ AtLeast(r(i), r(j)) \/ AtLeast(r(j), r(i))
               /\ Above(r(i), r(j)) <=> ~AtLeast(r(j), r(i))
    <3>1. PICK x, y : x = r(i).num * r(j).den /\ y = r(j).num * r(i).den
      OBVIOUS
    <3>2. x \in Int /\ y \in Int
      <4> HIDE DEF r
      <4>1. QED
        BY <1>1, <3>1
    <3> HIDE DEF r
    <3>3. QED
      BY <3>1, <3>2 DEF AtLeast, Above
  <2>2. QED
    BY <2>1
<1>5. \A i, j, k \in 1 .. n : AtLeast(r(i), r(j)) /\ AtLeast(r(j), r(k)) => AtLeast(r(i), r(k))
  <2> HIDE DEF r
  <2>1. QED
    BY <1>1, RatioTransitive DEF AtLeast
<1>6. /\ \A i, j \in 1 .. n : <<i, j>> \in R \/ <<j, i>> \in R
      /\ \A i, j, k \in 1 .. n : <<i, j>> \in R /\ <<j, k>> \in R => <<i, k>> \in R
  <2> HIDE DEF r, R
  <2>1. QED
    BY <1>3, <1>4, <1>5
<1>7. PICK d \in 1 .. n : \A j \in 1 .. n : <<d, j>> \in R /\ (j < d => <<j, d>> \notin R)
  <2> HIDE DEF R, n
  <2>1. QED
    BY <1>2, <1>6, FirstBest
<1>8. ASSUME NEW e \in (1 .. n) \ {d}
      PROVE  Beats(p, d, e)
  <2>1. <<d, e>> \in R /\ (e < d => <<e, d>> \notin R)
    BY <1>7
  <2>2. AtLeast(r(d), r(e)) /\ (e < d => Above(r(d), r(e)))
    <3> HIDE DEF r, R
    <3>1. QED
      BY <1>3, <1>4, <2>1
  <2>3. d < e \/ e < d
    BY <1>2
  <2>4. QED
    BY <2>2, <2>3, <1>2 DEF Beats
<1>9. \E x \in 1 .. p.maxDegree : \A e \in (1 .. p.maxDegree) \ {x} : Beats(p, x, e)
  BY <1>8, Zenon
<1>10. QED
  BY <1>9, Zenon DEF OptimalDegree

\* Degrees beyond the number of services are worth what that number is.
LEMMA OptimalWithinServices ==
    ASSUME NEW p \in Settings
    PROVE  OptimalDegree(p) <= p.numServices
<1> DEFINE d == OptimalDegree(p)
           S == p.numServices
<1>1. d \in 1 .. p.maxDegree /\ S \in Nat \ {0} /\ p.maxDegree \in Nat
  BY OptimalIs, SettingsPositive
<1>2. SUFFICES ASSUME d > S
               PROVE  FALSE
  BY <1>1
<1>3. S \in (1 .. p.maxDegree) \ {d}
  <2> HIDE DEF d, S
  <2>1. QED
    BY <1>1, <1>2
<1>4. Beats(p, d, S)
  BY <1>3, OptimalIs
<1>5. Above(RobustnessAt(p, d), RobustnessAt(p, S))
  BY <1>1, <1>2, <1>4 DEF Beats
<1>6. ASSUME NEW e \in 1 .. p.maxDegree, e >= S
      PROVE  RobustnessAt(p, e) = [num |-> p.numValidators * 1 * p.stakePerValidator, den |-> 1]
  <2>1. ScaleOf(SymmetricOf(p, e)) = 1
    BY <1>6 DEF ScaleOf, SymmetricOf
  <2>2. \A k : ValidatorsHit(SymmetricOf(p, e), k) = p.numValidators * 1
    BY <1>6, <2>1 DEF ValidatorsHit, SymmetricOf
  <2>3. QED
    BY <2>1, <2>2 DEF RobustnessAt, MinAttackCost, SymmetricOf
<1>7. RobustnessAt(p, d) = RobustnessAt(p, S)
  BY <1>1, <1>2, <1>3, <1>6
<1>8. RobustnessAt(p, S).num \in Int /\ RobustnessAt(p, S).den \in Nat
  BY <1>3, AnyDegree
<1>9. QED
  BY <1>5, <1>7, <1>8 DEF Above

(***************************************************************************)
(* VerdictSound: a cost above the total prize is above the prize of every  *)
(* attack at the degree it is the cost of.                                 *)
(***************************************************************************)
LEMMA VerdictsSound ==
    ASSUME AnalyzerPageInv
    PROVE  VerdictSound
<1> SUFFICES ASSUME results # NoResults
             PROVE  LET best == OptimalDegree(results) IN
                    /\ best <= results.numServices
                    /\ results = params =>
                          /\ InsightUnprofitable <=> NetworkSecurity = "all subsets"
                          /\ InsightUnprofitable =>
                                SymmetricSecure(SymmetricOf(results, best))
  BY DEF VerdictSound
<1> DEFINE best == OptimalDegree(results)
           q    == SymmetricOf(results, best)
<1>1. results \in Settings
  BY DEF AnalyzerPageInv
<1>2. best <= results.numServices
  BY <1>1, OptimalWithinServices
<1>3. InsightUnprofitable <=> NetworkSecurity = "all subsets"
  BY DEF InsightUnprofitable, NetworkSecurity
<1>4. ASSUME results = params, InsightUnprofitable
      PROVE  SymmetricSecure(q)
  <2>1. q \in Symmetric
    BY <1>1, OptimalIs, AnyDegree
  <2>2. RobustnessAt(results, best).num
           > (results.attackPrize * results.numServices) * RobustnessAt(results, best).den
    BY <1>4 DEF InsightUnprofitable, MoreThan, TotalPrize
  <2>3. MinAttackCost(q).num > q.pi * q.S * MinAttackCost(q).den
    BY <2>2 DEF RobustnessAt, SymmetricOf
  <2> HIDE DEF q
  <2>4. QED
    BY <2>1, <2>3, CostlyIsSecure
<1>5. QED
  BY <1>2, <1>3, <1>4

-----------------------------------------------------------------------------
\* The invariant of the application

Inv == page \in Pages /\ ChainInv /\ AnalyzerPageInv /\ NetworkInv

LEMMA Invariance == Spec => []Inv
<1>1. Init => Inv
  BY ChainInit, NetworkInit, NothingComputed DEF Init, AnalyzerPageInit, Inv
<1>2. ASSUME Inv, [Next]_vars
      PROVE  Inv'
  <2>1. ChainInv' /\ AnalyzerPageInv' /\ NetworkInv'
    BY <1>2, ChainStep, AnalyzerPageStep, NetworkStep DEF Inv
  <2>2. page' \in Pages
    BY <1>2 DEF Inv, Next, Navigate, OnNetworkPage, OnAnalyzerPage, OnAnyPage, vars
  <2>3. QED
    BY <2>1, <2>2 DEF Inv
<1>3. QED
  BY <1>1, <1>2, PTL DEF Spec

(***************************************************************************)
(* TypeOK: no stake beyond the validator's own, no target that is not a    *)
(* service, parameters where the sliders can be, and no timer of a page    *)
(* that was left.                                                          *)
(***************************************************************************)
THEOREM TypeCorrect == Spec => []TypeOK
<1>1. ASSUME Inv
      PROVE  TypeOK
  <2>1. effectiveStake \in [Validators -> 0 .. Stake]
    <3>1. effectiveStake \in [Validators -> Nat]
          /\ \A v \in Validators : effectiveStake[v] <= Stake
      BY <1>1, StakesNow DEF Inv, NetworkInv
    <3>2. QED
      BY <3>1 DEF Stake
  <2>2. QED
    BY <1>1, <2>1 DEF Inv, ChainInv, AnalyzerPageInv, NetworkInv, TypeOK
<1>2. QED
  BY <1>1, Invariance, PTL

(***************************************************************************)
(* The dashboard and the registry show no service that is not on chain     *)
(* (services/page.tsx:152).                                                *)
(***************************************************************************)
THEOREM ServicesShownExist == Spec => []ShownExist
<1>1. Inv => ShownExist
  BY ChainShown DEF Inv
<1>2. QED
  BY <1>1, Invariance, PTL

(***************************************************************************)
(* The stake the network page shows for a validator is what its edges      *)
(* carry until it is hit a second time (network/page.tsx:189).             *)
(***************************************************************************)
THEOREM EffectiveStakeExact == Spec => []EffectiveExactAtFirst
<1>1. Inv => EffectiveExactAtFirst
  BY GraphExact DEF Inv, NetworkInv
<1>2. QED
  BY <1>1, Invariance, PTL

(***************************************************************************)
(* Graph, panels and select of the network page agree after any sequence   *)
(* of slashes and resets (network/page.tsx:164).                           *)
(***************************************************************************)
THEOREM ViewsAlwaysAgree == Spec => []ViewsAgree
<1>1. Inv => ViewsAgree
  BY GraphViews DEF Inv, NetworkInv
<1>2. QED
  BY <1>1, Invariance, PTL

(***************************************************************************)
(* A simulated slash raises nothing, and repeating it changes nothing      *)
(* (network/page.tsx:164).                                                 *)
(***************************************************************************)
THEOREM SlashesNeverRaise == Spec => SlashNeverRaises
<1>1. ASSUME Inv, HandleSlash
      PROVE  /\ \A v \in Validators : effectiveStake'[v] <= effectiveStake[v]
             /\ GraphScore' <= GraphScore
             /\ services[slashTarget].status = "slashed" => UNCHANGED graphVars
  BY <1>1, SlashLowers DEF Inv
<1>2. QED
  BY <1>1, Invariance, PTL DEF SlashNeverRaises

(***************************************************************************)
(* What the analyzer page calls secure is secure, for every position of    *)
(* its sliders (analyzer/page.tsx:382).                                    *)
(***************************************************************************)
THEOREM VerdictsAreSound == Spec => []VerdictSound
<1>1. Inv => VerdictSound
  BY VerdictsSound DEF Inv
<1>2. QED
  BY <1>1, Invariance, PTL

(***************************************************************************)
(* The "Computing..." button says whether a computation is under way, and  *)
(* there is never a second one (analyzer/page.tsx:183), resets in between  *)
(* or not.                                                                 *)
(***************************************************************************)
THEOREM OneComputationAtATime == Spec => []OneComputation
<1>1. Inv => OneComputation
  BY AtMostOne DEF Inv
<1>2. QED
  BY <1>1, Invariance, PTL

=============================================================================
