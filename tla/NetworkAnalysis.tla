--------------------------- MODULE NetworkAnalysis ---------------------------
(***************************************************************************)
(* packages/analyzer/src (and its copy under apps/web/lib/analyzer):       *)
(* network-model.ts, symmetric-network.ts and the figures of               *)
(* optimal-degree.ts, as functions of a network or of its parameters.      *)
(*                                                                         *)
(* Amounts are integers.  A ratio of binomial coefficients is kept as a    *)
(* numerator over ScaleOf(p), so the rounding of JavaScript's doubles is   *)
(* not part of the model.                                                  *)
(***************************************************************************)
EXTENDS Integers, FiniteSets, Functions

Lesser(a, b)  == IF a <= b THEN a ELSE b
Greater(a, b) == IF a >= b THEN a ELSE b

\* 1 << n on 32-bit integers
ShiftOne(n) ==
    LET b == n % 32 IN IF b = 31 THEN -2147483647 - 1 ELSE 2 ^ b

InMask(mask, i) == (mask \div 2 ^ i) % 2 = 1

(***************************************************************************)
(* A RestakingNetwork: stake[v], allocation[v][i] and prize[i], for the    *)
(* services i in 0 .. size-1.                                              *)
(***************************************************************************)
ServicesOf(net) == 0 .. (net.size - 1)

\* Mutant: a slash that is not capped by what is left.
SlashAmount_uncapped(allocation, left) == allocation
SlashAmount(allocation, left) == Lesser(allocation, left)

\* The services of the mask turn Byzantine, in index order.
ApplyByzantineServices(net, mask) ==
    LET Slash[n \in 0 .. net.size] ==
            IF n = 0 THEN [left |-> net.stake, total |-> 0]
            ELSE LET before == Slash[n - 1]
                     cut    == [v \in DOMAIN net.stake |->
                                   SlashAmount(net.allocation[v][n - 1], before.left[v])]
                 IN  IF InMask(mask, n - 1)
                     THEN [left  |-> [v \in DOMAIN net.stake |->
                                         Greater(0, before.left[v] - cut[v])],
                           total |-> before.total + SumFunction(cut)]
                     ELSE before
    IN  [slashedTotal        |-> Slash[net.size].total,
         validatorsAffected  |-> Cardinality({v \in DOMAIN net.stake :
                                     \E i \in ServicesOf(net) :
                                         InMask(mask, i) /\ net.allocation[v][i] > 0}),
         postEffectiveStakes |-> Slash[net.size].left]

\* The masks that "for (mask = 1; mask < 1 << services; mask++)" visits.
Masks(net) == IF ShiftOne(net.size) <= 1 THEN {} ELSE 1 .. (ShiftOne(net.size) - 1)

AttackCost(net, mask)  == ApplyByzantineServices(net, mask).slashedTotal
AttackPrize(net, mask) ==
    SumFunction([i \in ServicesOf(net) |-> IF InMask(mask, i) THEN net.prize[i] ELSE 0])

TotalStake(net) == SumFunction(net.stake)

\* Clamped to [0, 100]; in units of 1/attackPrize, so that it is an integer.
SecurityScore(net, mask) ==
    LET prize == AttackPrize(net, mask)
    IN  IF prize > 0
        THEN Lesser(100 * prize, Greater(0, (AttackCost(net, mask) - prize) * 50))
        ELSE 100

-----------------------------------------------------------------------------
(***************************************************************************)
(* A SymmetricRestakingNetwork, of parameters p: n validators, S services, *)
(* stake sigma, degree d, prize pi.                                        *)
(***************************************************************************)
\* x (x - 1) ... (x - j + 1)
Falling(x, j) ==
    LET product[i \in 0 .. j] == IF i = 0 THEN 1 ELSE product[i - 1] * (x - (i - 1))
    IN  product[j]

ScaleOf(p) == IF p.d >= p.S THEN 1 ELSE Falling(p.S, p.d)

\* C(S-k, d) / C(S, d), times ScaleOf(p)
BinomRatio(p, k) == IF p.S - k < p.d THEN 0 ELSE Falling(p.S - k, p.d)

\* Mutant: the chance of being hit and of being missed are exchanged.
ValidatorsHit_missed(p, k) ==
    IF k >= p.S \/ p.d >= p.S THEN p.n * ScaleOf(p) ELSE p.n * BinomRatio(p, k)

\* Times ScaleOf(p)
ValidatorsHit(p, k) ==
    IF k >= p.S \/ p.d >= p.S
    THEN p.n * ScaleOf(p)
    ELSE p.n * (ScaleOf(p) - BinomRatio(p, k))

SymmetricMargin(p, k) == ValidatorsHit(p, k) * p.sigma - k * p.pi * ScaleOf(p)

SymmetricSecure(p) == \A k \in 1 .. p.S : SymmetricMargin(p, k) >= 0

\* The first k of the least margin.
WorstSize(p) ==
    CHOOSE k \in 1 .. p.S :
        \A j \in 1 .. p.S : /\ SymmetricMargin(p, k) <= SymmetricMargin(p, j)
                            /\ j < k => SymmetricMargin(p, k) < SymmetricMargin(p, j)

\* A number over a scale.
MinAttackCost(p) == [num |-> ValidatorsHit(p, WorstSize(p)) * p.sigma, den |-> ScaleOf(p)]

AtLeast(x, y) == x.num * y.den >= y.num * x.den
Above(x, y)   == x.num * y.den > y.num * x.den

AtDegree(p, d) == [p EXCEPT !.d = d]

\* One service more, to which every validator allocates too.
WithBase(p) == [p EXCEPT !.S = @ + 1, !.d = @ + 1]

\* A cost as a part of the total stake n sigma
OfTotalStake(x, p) == [x EXCEPT !.den = @ * p.n * p.sigma]

\* beta at f = step/20, at most 1
Figure4Points(p) ==
    LET cost == MinAttackCost(p) IN
    [step \in 1 .. 20 |->
        LET beta == OfTotalStake([num |-> 20 * cost.num, den |-> step * cost.den], p)
        IN  IF Above(beta, [num |-> 1, den |-> 1]) THEN [num |-> 1, den |-> 1] ELSE beta]

Figure5Point(p) == OfTotalStake(MinAttackCost(p), p)
Figure6Point(p) ==
    [withoutBase |-> OfTotalStake(MinAttackCost(p), p),
     withBase    |-> OfTotalStake(MinAttackCost(WithBase(p)), p)]

=============================================================================
