----------------------------- MODULE NetworkPage -----------------------------
(***************************************************************************)
(* apps/web/app/network/page.tsx: the graph of validators and services     *)
(* with its slash simulator.  The data are the page's own, in units of     *)
(* 20 SOL; an instance shows some of its validators and services.          *)
(*                                                                         *)
(* A simulated slash is three state updates and a timer of 600 ms that     *)
(* gives the button back; the reset does not cancel the timer.             *)
(***************************************************************************)
EXTENDS Integers, FiniteSets, FiniteSetsExt

CONSTANTS
    Validators, Services,   \* those of the page's that the instance shows
    None,                   \* null, and the empty string of the select
    MaxTimers               \* bound on the timers that run

VARIABLES
    effectiveStake,   \* of each validator
    services,         \* status and allocated of each service
    allocations,      \* the edges
    hoveredNode, selection,
    slashTarget, isSlashing,
    timers            \* number of running timers

graphVars   == <<effectiveStake, services, allocations>>
viewVars    == <<hoveredNode, selection>>
slashVars   == <<slashTarget, isSlashing, timers>>
networkVars == <<graphVars, viewVars, slashVars>>

ASSUME NetworkPageAssumption ==
    /\ Validators \subseteq {"v0", "v1", "v2", "v3", "v4", "v5"}
    /\ Services \subseteq {"s0", "s1", "s2", "s3"}
    /\ MaxTimers \in Nat

Stake == 5

INITIAL_VALIDATORS == [v \in Validators |-> IF v = "v2" THEN 1 ELSE Stake]

INITIAL_SERVICES == [s \in Services |->
    CASE s = "s0" -> [status |-> "active",  allocated |-> 15]
      [] s = "s1" -> [status |-> "active",  allocated |-> 14]
      [] s = "s2" -> [status |-> "slashed", allocated |-> 0]
      [] s = "s3" -> [status |-> "active",  allocated |-> 10]]

Allocation(v, s, amount, effective) ==
    [validator |-> v, service |-> s, amount |-> amount, effective |-> effective]

INITIAL_ALLOCATIONS ==
    {a \in {Allocation("v0", "s0", 5, 5), Allocation("v0", "s2", 4, 0),
            Allocation("v1", "s0", 5, 5), Allocation("v1", "s1", 5, 5),
            Allocation("v2", "s1", 4, 1), Allocation("v2", "s2", 4, 0),
            Allocation("v3", "s1", 5, 5), Allocation("v3", "s3", 5, 5),
            Allocation("v4", "s3", 5, 5), Allocation("v4", "s0", 5, 5),
            Allocation("v5", "s2", 4, 0), Allocation("v5", "s3", 5, 5)} :
        a.validator \in Validators /\ a.service \in Services}

\* As in the page's data.
ASSUME EveryNodeHasAnEdge ==
    /\ \A v \in Validators : \E a \in INITIAL_ALLOCATIONS : a.validator = v
    /\ \A s \in Services : \E a \in INITIAL_ALLOCATIONS : a.service = s

Graph0 ==
    [effectiveStake |-> INITIAL_VALIDATORS, services |-> INITIAL_SERVICES,
     allocations |-> INITIAL_ALLOCATIONS]

NetworkPageInit ==
    /\ effectiveStake = Graph0.effectiveStake
    /\ services = Graph0.services
    /\ allocations = Graph0.allocations
    /\ hoveredNode = None /\ selection = None
    /\ slashTarget = None /\ isSlashing = FALSE
    /\ timers = 0

\* Leaving the page: its state is gone, and its timers find nobody to tell.
NetworkPageUnmount ==
    /\ effectiveStake' = Graph0.effectiveStake
    /\ services' = Graph0.services
    /\ allocations' = Graph0.allocations
    /\ hoveredNode' = None /\ selection' = None
    /\ slashTarget' = None /\ isSlashing' = FALSE
    /\ timers' = 0

-----------------------------------------------------------------------------
\* What is shown

SumEffective(A) == MapThenSumSet(LAMBDA a : a.effective, A)

OfValidator(v, A) == {a \in A : a.validator = v}
OfService(s, A)   == {a \in A : a.service = s}

Percent(part, whole) == IF whole > 0 THEN (200 * part + whole) \div (2 * whole) ELSE 0

GraphScore ==
    Percent(MapThenSumSet(LAMBDA v : effectiveStake[v], Validators),
            Stake * Cardinality(Validators))

ConnectedEdges ==
    LET lit == {a \in allocations : hoveredNode \in {a.validator, a.service}} IN
    [edges |-> {<<a.validator, a.service>> : a \in lit},
     nodes |-> {a.validator : a \in lit} \cup {a.service : a \in lit}]

SelectValidator(v) == [type |-> "validator", validator |-> v, service |-> None]
SelectService(s)   == [type |-> "service", validator |-> None, service |-> s]
SelectEdge(a)      == [type |-> "edge", validator |-> a.validator, service |-> a.service]

NodeView(node, what) ==
    [hovered  |-> hoveredNode = node,
     dimmed   |-> hoveredNode # None /\ node \notin ConnectedEdges.nodes,
     selected |-> selection = what]

ValidatorView(v) == NodeView(v, SelectValidator(v))

ServiceView(s) ==
    [node |-> NodeView(s, SelectService(s)), active |-> services[s].status = "active",
     tooltip |-> services[s].allocated]

EdgeView(a) ==
    LET lit == <<a.validator, a.service>> \in ConnectedEdges.edges IN
    [slashed     |-> services[a.service].status = "slashed" \/ a.effective = 0,
     highlighted |-> hoveredNode # None /\ lit,
     dimmed      |-> hoveredNode # None /\ ~lit,
     selected    |-> selection = SelectEdge(a)]

\* A row of the list under the graph.
ValidatorRow(v) ==
    [degree |-> Cardinality(OfValidator(v, allocations)),
     ratio  |-> Percent(effectiveStake[v], Stake)]

ValidatorDetail(v) ==
    [effective   |-> effectiveStake[v],
     degree      |-> Cardinality(OfValidator(v, allocations)),
     utilization |-> Percent(effectiveStake[v], Stake),
     rows        |-> OfValidator(v, allocations)]

ServiceDetail(s) ==
    [status         |-> services[s].status,
     totalAllocated |-> SumEffective(OfService(s, allocations)),
     rows           |-> OfService(s, allocations)]

EdgeDetail(v, s) ==
    LET found == {a \in allocations : a.validator = v /\ a.service = s} IN
    {[amount |-> a.amount, effective |-> a.effective,
      effectiveness |-> Percent(a.effective, a.amount)] : a \in found}

\* Mutant: slashed services remain in the list.
Offered_all == Services

\* The options of the select.
Offered == {s \in Services : services[s].status = "active"}

-----------------------------------------------------------------------------
\* Pointer, select and buttons

\* Entering an edge is entering its validator.
Hover(node) ==
    /\ hoveredNode' = node
    /\ UNCHANGED <<graphVars, selection, slashVars>>

\* On the graph, or in the list of validators.
Click(what) ==
    /\ selection' = what
    /\ UNCHANGED <<graphVars, hoveredNode, slashVars>>

ClosePanel ==
    /\ selection # None
    /\ selection' = None
    /\ UNCHANGED <<graphVars, hoveredNode, slashVars>>

SelectTarget(target) ==
    /\ slashTarget' = target
    /\ UNCHANGED <<graphVars, viewVars, isSlashing, timers>>

\* Mutant: the edges keep their effective stake.
Slashed_edgesKept(A, target) == A

Slashed(A, target) == {IF a.service = target THEN [a EXCEPT !.effective = 0] ELSE a : a \in A}

\* Mutant: the slashed service still counts.
Remaining_targetCounted(v, target) == SumEffective(OfValidator(v, INITIAL_ALLOCATIONS))

\* The initial allocations, whatever has been slashed since.
Remaining(v, target) ==
    SumEffective(OfValidator(v, INITIAL_ALLOCATIONS) \ OfService(target, INITIAL_ALLOCATIONS))

\* Mutant: nobody gives the button back.
TimersAfterSlash_none == timers

TimersAfterSlash == timers + 1

HandleSlash ==
    LET affected == {a.validator : a \in OfService(slashTarget, INITIAL_ALLOCATIONS)} IN
    /\ slashTarget # None
    /\ ~isSlashing
    /\ timers < MaxTimers
    /\ isSlashing' = TRUE
    /\ services' = [services EXCEPT ![slashTarget] = [status |-> "slashed", allocated |-> 0]]
    /\ allocations' = Slashed(allocations, slashTarget)
    /\ effectiveStake' = [v \in Validators |->
           IF v \in affected THEN Remaining(v, slashTarget) ELSE effectiveStake[v]]
    /\ timers' = TimersAfterSlash
    /\ UNCHANGED <<viewVars, slashTarget>>

SlashTimeout ==
    /\ timers > 0
    /\ timers' = timers - 1
    /\ isSlashing' = FALSE
    /\ UNCHANGED <<graphVars, viewVars, slashTarget>>

HandleReset ==
    /\ effectiveStake' = Graph0.effectiveStake
    /\ services' = Graph0.services
    /\ allocations' = Graph0.allocations
    /\ selection' = None
    /\ slashTarget' = None
    /\ isSlashing' = FALSE
    /\ UNCHANGED <<hoveredNode, timers>>

NetworkPageNext ==
    \/ \E node \in Validators \cup Services \cup {None} : Hover(node)
    \/ \E v \in Validators : Click(SelectValidator(v))
    \/ \E s \in Services : Click(SelectService(s))
    \/ \E a \in allocations : Click(SelectEdge(a))
    \/ ClosePanel
    \/ \E target \in Offered \cup {None} : SelectTarget(target)
    \/ HandleSlash
    \/ SlashTimeout
    \/ HandleReset

NetworkPageFairness == WF_networkVars(SlashTimeout)

-----------------------------------------------------------------------------
HitSince(v) ==
    {a.service : a \in {b \in OfValidator(v, INITIAL_ALLOCATIONS) :
        INITIAL_SERVICES[b.service].status = "active" /\ services[b.service].status = "slashed"}}

(***************************************************************************)
(* network/page.tsx:189 sums the initial allocations.  That is what the    *)
(* edges still carry after the first slash that hits a validator; after a  *)
(* second one the page shows too much, by the services slashed before the  *)
(* last, and never too little.                                             *)
(***************************************************************************)
EffectiveExactAtFirst ==
    \A v \in Validators :
        LET carried == SumEffective(OfValidator(v, allocations))
            hit     == Cardinality(HitSince(v))
        IN  /\ hit = 0 => effectiveStake[v] = INITIAL_VALIDATORS[v]
            /\ hit = 1 => effectiveStake[v] = carried
            /\ hit > 1 => effectiveStake[v] >= carried

(***************************************************************************)
(* No simulated slash raises a validator's effective stake or the graph's  *)
(* score, although stakes are computed from the initial data and the       *)
(* target stays selected after its slash: slashing it again changes        *)
(* nothing (network/page.tsx:164).                                         *)
(***************************************************************************)
SlashNeverRaises ==
    [][HandleSlash =>
        /\ \A v \in Validators : effectiveStake'[v] <= effectiveStake[v]
        /\ GraphScore' <= GraphScore
        /\ services[slashTarget].status = "slashed" => UNCHANGED graphVars]_networkVars

(***************************************************************************)
(* The three updates of network/page.tsx:164 go together, whatever order   *)
(* services are slashed in and however slashes and resets alternate, and   *)
(* the panel, the graph and the select say the same.  A service is offered *)
(* exactly when its node is green, its tooltip and its panel count stake   *)
(* allocated to it, and its edges carry some; an edge is drawn as slashed  *)
(* exactly when its panel, which it has, shows no effectiveness; the       *)
(* hovered node is never dimmed and a highlighted edge has two bright ends.*)
(***************************************************************************)
ViewsAgree ==
    /\ \A s \in Services :
          LET detail == ServiceDetail(s) IN
          /\ s \in Offered <=> ServiceView(s).active
          /\ s \in Offered <=> detail.totalAllocated > 0
          /\ s \in Offered <=> ServiceView(s).tooltip > 0
    /\ \A a \in allocations :
          /\ a.service \in Offered <=> a.effective > 0
          /\ EdgeDetail(a.validator, a.service) # {}
          /\ EdgeView(a).slashed <=>
                \A shown \in EdgeDetail(a.validator, a.service) : shown.effectiveness = 0
          /\ EdgeView(a).highlighted =>
                ~ValidatorView(a.validator).dimmed /\ ~ServiceView(a.service).node.dimmed
    /\ \A v \in Validators :
          /\ ValidatorView(v).hovered => ~ValidatorView(v).dimmed
          /\ ValidatorRow(v).degree = ValidatorDetail(v).degree
          /\ ValidatorRow(v).ratio = ValidatorDetail(v).utilization

=============================================================================
