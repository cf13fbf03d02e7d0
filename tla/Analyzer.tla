------------------------------- MODULE Analyzer -------------------------------
(***************************************************************************)
(* The loops of the analyzer, one step per iteration: the enumeration of   *)
(* the service subsets (checkNetworkSecurity), the bisection of the budget *)
(* (checkRobustness), the sweep of the degrees (computeOptimalDegree,      *)
(* Figures 5 and 6) and, per degree, the bisection of the stake (Figure 3).*)
(*                                                                         *)
(* An explicit network goes through the first two.  A symmetric one goes   *)
(* through all four: its network is the one the closed form stands for,    *)
(* with one validator per choice of d services out of S.                   *)
(*                                                                         *)
(* The code bisects 50 times; a point of a bisection is kept in units of   *)
(* the interval's length over 2^Iterations.                                *)
(***************************************************************************)
EXTENDS NetworkAnalysis, FiniteSetsExt, Sequences

CONSTANTS
    Networks,     \* explicit networks to analyze
    Parameters,   \* parameters of symmetric ones
    Iterations,   \* 50
    NoParameters, \* an explicit network has none
    NoMargin      \* Infinity

VARIABLES
    network, params,   \* the inputs
    phase,             \* the loop that runs: "subsets", "budget", "degrees", "stakes", "done"
    mask, worst,       \* subsets: the next one, the least margin so far
    low, high, iter,   \* a bisection
    robust,            \* budget: no attack found so far
    degree, best,      \* degrees: the next one, the best so far
    figures, minStake  \* per degree, the points of figures 4, 5, 6, and of figure 3

inputs     == <<network, params>>
subsetVars == <<mask, worst>>
bisection  == <<low, high, iter>>
sweepVars  == <<degree, best, figures>>
vars == <<inputs, phase, subsetVars, bisection, robust, sweepVars, minStake>>

Whole == 2 ^ Iterations

IsNetwork(net) ==
    /\ net.size \in Nat \ {0}
    /\ IsFiniteSet(DOMAIN net.stake)
    /\ net.stake \in [DOMAIN net.stake -> Nat]
    /\ net.allocation \in [DOMAIN net.stake -> [ServicesOf(net) -> Nat]]
    /\ net.prize \in [ServicesOf(net) -> Nat]

ASSUME AnalyzerAssumption ==
    /\ Iterations \in Nat \ {0}
    /\ \A net \in Networks : IsNetwork(net)
    /\ Parameters \subseteq
           [n : Nat \ {0}, S : Nat \ {0}, d : Nat \ {0}, sigma : Nat, pi : Nat]
    /\ \A p \in Parameters : p.d <= p.S
    /\ NoParameters \notin Parameters
    /\ NoMargin \notin Int \cup [num : Int, den : Int]

\* One validator for each way to choose its d services, allocating sigma to each.
DesignOf(p) ==
    LET choices == kSubset(p.d, 0 .. (p.S - 1)) IN
    [size       |-> p.S,
     stake      |-> [D \in choices |-> p.sigma],
     allocation |-> [D \in choices |-> [i \in 0 .. (p.S - 1) |-> IF i \in D THEN p.sigma ELSE 0]],
     prize      |-> [i \in 0 .. (p.S - 1) |-> p.pi]]

Init ==
    /\ \/ network \in Networks /\ params = NoParameters
       \/ params \in Parameters /\ network = DesignOf(params)
    /\ phase = "subsets"
    /\ mask = 1
    /\ worst = [subset |-> 0, margin |-> NoMargin]
    /\ low = 0 /\ high = Whole /\ iter = 0
    /\ robust = TRUE
    /\ degree = 1
    /\ best = [degree |-> 1, robustness |-> NoMargin]
    /\ figures = <<>>
    /\ minStake = <<>>

Margin(net, m) == AttackCost(net, m) - AttackPrize(net, m)

Improves(margin, than) == than = NoMargin \/ margin < than

CheckSubset ==
    /\ phase = "subsets"
    /\ mask < ShiftOne(network.size)
    /\ LET margin == Margin(network, mask) IN
       worst' = IF Improves(margin, worst.margin)
                THEN [subset |-> mask, margin |-> margin] ELSE worst
    /\ mask' = mask + 1
    /\ UNCHANGED <<inputs, phase, bisection, robust, sweepVars, minStake>>

SubsetsChecked ==
    /\ phase = "subsets"
    /\ mask >= ShiftOne(network.size)
    /\ phase' = "budget"
    /\ UNCHANGED <<inputs, subsetVars, bisection, robust, sweepVars, minStake>>

NetworkSecure == worst.margin = NoMargin \/ worst.margin >= 0

Mid == (low + high) \div 2

\* Mutant: an attack at break-even counts.
AttackPossible_breakEven(net, budget) ==
    \E m \in Masks(net) :
        /\ AttackCost(net, m) * Whole <= budget * TotalStake(net)
        /\ AttackPrize(net, m) >= AttackCost(net, m)

\* With the fraction budget/Whole of the total stake.
AttackPossible(net, budget) ==
    \E m \in Masks(net) :
        /\ AttackCost(net, m) * Whole <= budget * TotalStake(net)
        /\ AttackPrize(net, m) > AttackCost(net, m)

\* Mutants: the point that failed is left out; the wrong half is kept.
Half_offByOne(found) ==
    IF found THEN [low |-> low, high |-> Mid] ELSE [low |-> Mid + 1, high |-> high]
Half_wrong(found) == IF found THEN [low |-> Mid, high |-> high] ELSE [low |-> low, high |-> Mid]

Half(found) == IF found THEN [low |-> low, high |-> Mid] ELSE [low |-> Mid, high |-> high]

Bisect(found) == low' = Half(found).low /\ high' = Half(found).high

BisectBudget ==
    LET found == AttackPossible(network, Mid) IN
    /\ phase = "budget"
    /\ iter < Iterations
    /\ Bisect(found)
    /\ robust' = (robust /\ ~found)
    /\ iter' = iter + 1
    /\ UNCHANGED <<inputs, phase, subsetVars, sweepVars, minStake>>

BudgetFound ==
    /\ phase = "budget"
    /\ iter = Iterations
    /\ phase' = IF params = NoParameters THEN "done" ELSE "degrees"
    /\ UNCHANGED <<inputs, subsetVars, bisection, robust, sweepVars, minStake>>

\* Mutant: equal robustness takes the larger degree.
BetterDegree_orEqual(r) == best.robustness = NoMargin \/ AtLeast(r, best.robustness)

BetterDegree(r) == best.robustness = NoMargin \/ Above(r, best.robustness)

SweepDegree ==
    LET p == AtDegree(params, degree)
        r == MinAttackCost(p)
    IN
    /\ phase = "degrees"
    /\ degree <= params.S
    /\ best' = IF BetterDegree(r) THEN [degree |-> degree, robustness |-> r] ELSE best
    /\ figures' = Append(figures, [figure4 |-> Figure4Points(p), figure5 |-> Figure5Point(p),
                                 figure6 |-> Figure6Point(p)])
    /\ degree' = degree + 1
    /\ UNCHANGED <<inputs, phase, subsetVars, bisection, robust, minStake>>

DegreesSwept ==
    /\ phase = "degrees"
    /\ degree > params.S
    /\ phase' = "stakes"
    /\ low' = 0 /\ high' = Whole /\ iter' = 0
    /\ UNCHANGED <<inputs, subsetVars, robust, sweepVars, minStake>>

\* The stake x/Whole of the upper bound, 10 S pi, at the degree under search.
SecureWithStake(x) ==
    LET p == AtDegree(params, Len(minStake) + 1) IN
    \A k \in 1 .. p.S :
        ValidatorsHit(p, k) * x * (p.pi * p.S * 10) >= k * p.pi * ScaleOf(p) * Whole

BisectStake ==
    /\ phase = "stakes"
    /\ iter < Iterations
    /\ Bisect(SecureWithStake(Mid))
    /\ iter' = iter + 1
    /\ UNCHANGED <<inputs, phase, subsetVars, robust, sweepVars, minStake>>

StakeFound ==
    /\ phase = "stakes"
    /\ iter = Iterations
    /\ minStake' = Append(minStake, high)
    /\ low' = 0 /\ high' = Whole /\ iter' = 0
    /\ phase' = IF Len(minStake') = params.S THEN "done" ELSE "stakes"
    /\ UNCHANGED <<inputs, subsetVars, robust, sweepVars>>

Next ==
    \/ CheckSubset \/ SubsetsChecked
    \/ BisectBudget \/ BudgetFound
    \/ SweepDegree \/ DegreesSwept
    \/ BisectStake \/ StakeFound

Spec == Init /\ [][Next]_vars

-----------------------------------------------------------------------------
(***************************************************************************)
(* Type: the mask runs over the subsets, the bisection stays in its        *)
(* interval, the figures grow with the degree.                             *)
(***************************************************************************)
TypeOK ==
    /\ phase \in {"subsets", "budget", "degrees", "stakes", "done"}
    /\ mask \in 1 .. (2 ^ network.size)
    /\ worst.subset \in 0 .. (mask - 1)
    /\ iter \in 0 .. Iterations
    /\ low \in 0 .. Whole /\ high \in 0 .. Whole
    /\ low + 2 ^ (Iterations - iter) = high
    /\ robust \in BOOLEAN
    /\ params # NoParameters =>
          /\ degree = Len(figures) + 1
          /\ Len(minStake) <= params.S

-----------------------------------------------------------------------------
(***************************************************************************)
(* What an attack takes, without an order of slashes: each validator loses *)
(* its allocations to the attacked services or its stake, the lesser.      *)
(***************************************************************************)
StakeAtRisk(net, T) ==
    SumFunction([v \in DOMAIN net.stake |->
        Lesser(net.stake[v],
               SumFunction([i \in T |-> Greater(0, net.allocation[v][i])]))])

PrizeOf(net, T) == SumFunction([i \in T |-> net.prize[i]])

Profitable(net, T) == PrizeOf(net, T) > StakeAtRisk(net, T)

Attacks(net) == (SUBSET ServicesOf(net)) \ {{}}

(***************************************************************************)
(* The enumeration of network-model.ts:124, which slashes service after    *)
(* service, calls a network secure exactly when no set of services yields  *)
(* more than the stake at risk in it; the subset it reports is one of the  *)
(* least margin, and an insecure network scores 0.                         *)
(***************************************************************************)
VerdictIsExact ==
    phase # "subsets" =>
        /\ NetworkSecure <=> \A T \in Attacks(network) : ~Profitable(network, T)
        /\ LET reported == {i \in ServicesOf(network) : InMask(worst.subset, i)} IN
           \A T \in Attacks(network) :
               StakeAtRisk(network, reported) - PrizeOf(network, reported)
                   <= StakeAtRisk(network, T) - PrizeOf(network, T)
        /\ ~NetworkSecure => SecurityScore(network, worst.subset) = 0

BudgetSearched == phase = "budget" /\ iter = Iterations

Affordable(net, T, budget) == StakeAtRisk(net, T) * Whole <= budget * TotalStake(net)

(***************************************************************************)
(* The bisection of robustness.ts:37 ends on the least budget, of those    *)
(* below the whole stake, that pays for a profitable attack, and calls the *)
(* network robust when there is none.  The two verdicts shown for a        *)
(* network agree: a secure one is robust, and one that is robust without   *)
(* being secure falls only to attacks on (nearly) the whole stake.         *)
(***************************************************************************)
BudgetIsLeast ==
    BudgetSearched =>
        /\ \A b \in 1 .. (Whole - 1) :
               b >= high <=> \E T \in Attacks(network) :
                                 Profitable(network, T) /\ Affordable(network, T, b)
        /\ robust <=> high = Whole
        /\ NetworkSecure => robust
        /\ robust => \A T \in Attacks(network) :
                        Profitable(network, T) => ~Affordable(network, T, Whole - 1)

(***************************************************************************)
(* The closed form of symmetric-network.ts is that of the network with one *)
(* validator per choice of d services: the same verdict, the same least    *)
(* margin, and a worst attack of the same size.                            *)
(***************************************************************************)
ClosedFormIsExact ==
    params # NoParameters /\ phase # "subsets" =>
        /\ NetworkSecure <=> SymmetricSecure(params)
        /\ worst.margin * ScaleOf(params) = SymmetricMargin(params, WorstSize(params))
        /\ Cardinality({i \in ServicesOf(network) : InMask(worst.subset, i)})
               = WorstSize(params)

(***************************************************************************)
(* optimal-degree.ts:29: no degree does better than the reported one, and  *)
(* no smaller one as well.  Robustness never falls as the degree grows, at *)
(* any share f of Figure 4 either, so that the smallest degree at which it *)
(* saturates is the one reported; and at no degree does the base service   *)
(* of Figure 6 lower it.  The analyzer page tells its reader otherwise:    *)
(* over-restaking, it says, "reduces the attack cost"                      *)
(* (analyzer/page.tsx:752-754).                                            *)
(***************************************************************************)
BestIsFirst ==
    params # NoParameters =>
        /\ \A d \in 1 .. (degree - 1) :
              LET r == MinAttackCost(AtDegree(params, d)) IN
              /\ AtLeast(best.robustness, r)
              /\ d < best.degree => Above(best.robustness, r)
        /\ \A d \in 2 .. (degree - 1) :
              /\ AtLeast(figures[d].figure5, figures[d - 1].figure5)
              /\ \A step \in 1 .. 20 :
                    AtLeast(figures[d].figure4[step], figures[d - 1].figure4[step])
        /\ \A d \in 1 .. (degree - 1) :
              AtLeast(figures[d].figure6.withBase, figures[d].figure6.withoutBase)

(***************************************************************************)
(* optimal-degree.ts:97: the stake found for a degree is the least that    *)
(* resists an attack of every size, it is found below the upper bound, and *)
(* a larger degree never needs more.                                       *)
(***************************************************************************)
MinStakeIsLeast ==
    \A d \in DOMAIN minStake :
        /\ \A x \in 1 .. Whole :
              x >= minStake[d] <=>
                  SymmetricSecure([AtDegree(params, d) EXCEPT
                      !.sigma = x * 10 * params.S * params.pi, !.pi = @ * Whole])
        /\ d > 1 => minStake[d] <= minStake[d - 1]

=============================================================================
