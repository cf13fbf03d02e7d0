----------------------------- MODULE MCAnalyzer -----------------------------
(***************************************************************************)
(* Small networks and parameters for TLC.                                  *)
(***************************************************************************)
EXTENDS Analyzer

CONSTANTS v1, v2

NetworksOf(V, size, amounts, prizes) ==
    [size : {size}, stake : [V -> amounts],
     allocation : [V -> [0 .. (size - 1) -> amounts]], prize : [0 .. (size - 1) -> prizes]]

\* Two validators over two services, and one over three.
SmallNetworks == NetworksOf({v1, v2}, 2, 0 .. 2, 0 .. 3) \cup NetworksOf({v1}, 3, 0 .. 2, 0 .. 2)

Choose(S, d) == Cardinality(kSubset(d, 0 .. (S - 1)))

\* As many validators as there are choices of d services.
SmallParameters ==
    {[n |-> Choose(S, d), S |-> S, d |-> d, sigma |-> sigma, pi |-> pi] :
        S \in 1 .. 4, d \in 1 .. 4, sigma \in 1 .. 3, pi \in 1 .. 4}

ValidParameters == {p \in SmallParameters : p.d <= p.S}

=============================================================================
