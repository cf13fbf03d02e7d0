------------------------------ MODULE Slashing ------------------------------
(***************************************************************************)
(* instructions/slashing/: the governance of a slash (propose, veto,       *)
(* finalize), its execution on the allocations of the slashed service, and *)
(* the stretch of the surviving allocations (rebalance).                   *)
(*                                                                         *)
(* The pre and post totals of a SlashRecord, its timestamps and the        *)
(* service's link to its record are written for readers off chain and are  *)
(* left out.                                                               *)
(*                                                                         *)
(* finalize and rebalance read the accounts of their pairs by hand and     *)
(* compare only the names written in them (finalize_slash.rs:120-150,      *)
(* rebalance_allocations.rs:53-77): an account of another program that     *)
(* reads like a ValidatorState or a ServiceState is taken for one.  A      *)
(* program writes its own accounts only, so a transaction with such an     *)
(* account succeeds when writing the account back changes nothing in it.   *)
(* Substitutable is the set of the validators for which such an account    *)
(* exists.                                                                 *)
(***************************************************************************)
EXTENDS RestakingAccounts

Proposed == 0 .. (slash_proposal_count - 1)

(***************************************************************************)
(* A proposal that was made names a service that can be slashed, and only  *)
(* such a proposal is settled (propose_slash.rs:29).                       *)
(***************************************************************************)
ProposalsMade ==
    /\ \A p \in ProposalIds : p \in Proposed => proposal_service[p] \in Services \ BaseServices
    /\ vetoed \cup finalized \subseteq Proposed

\* Mutants: one of the two settlements is forgotten.
Unsettled_ignoresVeto(p)     == p \notin finalized
Unsettled_ignoresFinality(p) == p \notin vetoed

\* Neither vetoed nor finalized: what both instructions ask of a proposal.
Unsettled(p) == p \notin vetoed /\ p \notin finalized

ProposalAccepted(s) ==
    /\ s \in active
    /\ s \notin slashed
    /\ s \notin BaseServices

\* The network authority signs.
ProposeSlash(s) ==
    LET p == slash_proposal_count IN
    /\ ProposalAccepted(s)
    /\ p < MaxProposals
    /\ slash_proposal_count' = p + 1
    /\ proposal_service' = [proposal_service EXCEPT ![p] = s]
    /\ dispute_left' = [dispute_left EXCEPT ![p] = config.slash_dispute_window]
    /\ UNCHANGED <<config, networkVars, depositVars, exposureVars, ticketVars, serviceVars,
                   allocationVars, vetoed, finalized, total_slashed, tokenVars, epoch_elapsed>>

\* Mutant: a veto comes at any time.
InDisputeWindow_always(p) == p \in ProposalIds

\* now < dispute_end
InDisputeWindow(p) == dispute_left[p] > 0

\* The network authority signs.
VetoSlash(p) ==
    /\ p \in Proposed
    /\ Unsettled(p)
    /\ InDisputeWindow(p)
    /\ vetoed' = vetoed \cup {p}
    /\ UNCHANGED <<config, networkVars, depositVars, exposureVars, ticketVars, serviceVars,
                   allocationVars, slash_proposal_count, proposal_service, dispute_left,
                   finalized, total_slashed, tokenVars, epoch_elapsed>>

\* Mutant: a finalization has to name somebody.
PairsAccepted_nonEmpty(P, Q, s) ==
    /\ P # {}
    /\ \A v \in P : status[v][s] # "None"
    /\ Q \subseteq P \cap Substitutable
    /\ Cardinality(P) <= MaxValidatorsPerSlash

(***************************************************************************)
(* The pairs the caller passes stand for the set P of the validators they  *)
(* name: a validator has one allocation per service, its account must      *)
(* exist, and a pair that is repeated is skipped the second time.  In the  *)
(* pairs of Q the allocation comes with another account that carries the   *)
(* validator's name.                                                       *)
(***************************************************************************)
PairsAccepted(P, Q, s) ==
    /\ \A v \in P : status[v][s] # "None"
    /\ Q \subseteq P \cap Substitutable
    /\ Cardinality(P) <= MaxValidatorsPerSlash

Slashable(v, s) == status[v][s] # "Inactive" /\ effective_amount[v][s] # 0

SlashTotal(hit, s) == SumFunction([v \in hit |-> effective_amount[v][s]])

\* now >= dispute_end
DisputeWindowElapsed(p) == dispute_left[p] = 0

FinalizeAccepted(p) ==
    /\ p \in Proposed
    /\ Unsettled(p)
    /\ DisputeWindowElapsed(p)

\* Mutants: the slash cascades to the other allocations, or to zero; the
\* nominal exposure is reduced by the effective amount; no saturation.
SlashedStake_cascade(v, s)        == SatSub(effective_stake[v], total_effective_allocated[v])
SlashedStake_zero(v, s)           == 0
SlashedExposure_effective(v, s)   == SatSub(total_allocated[v], effective_amount[v][s])
SlashedEffective_unsaturated(v, s) == total_effective_allocated[v] - effective_amount[v][s]

\* One validator's account after the slash of its allocation to s.
SlashedStake(v, s)     == SatSub(effective_stake[v], effective_amount[v][s])
SlashedExposure(v, s)  == SatSub(total_allocated[v], amount[v][s])
SlashedEffective(v, s) == SatSub(total_effective_allocated[v], effective_amount[v][s])

\* A field of the allocations to s of the validators hit is overwritten.
Wipe(field, hit, s, value) ==
    [v \in Validators |-> [t \in Services |->
        IF v \in hit /\ t = s THEN value ELSE field[v][t]]]

(***************************************************************************)
(* Anyone may finalize.  hit is the part of P that is not skipped, charged *)
(* the part of it whose own account is written; the total is added up in   *)
(* u64.                                                                    *)
(***************************************************************************)
FinalizeSlash(p, P, Q) ==
    LET s     == proposal_service[p]
        hit   == {v \in P : Slashable(v, s)}
        charged == hit \ Q
        total == SlashTotal(hit, s)
    IN
    /\ FinalizeAccepted(p)
    /\ PairsAccepted(P, Q, s)
    /\ total \in U64
    /\ total <= stake_vault
    /\ treasury + total \in U64
    /\ effective_stake' = [v \in Validators |->
           IF v \in charged THEN SlashedStake(v, s) ELSE effective_stake[v]]
    /\ total_allocated' = [v \in Validators |->
           IF v \in charged THEN SlashedExposure(v, s) ELSE total_allocated[v]]
    /\ total_effective_allocated' = [v \in Validators |->
           IF v \in charged THEN SlashedEffective(v, s) ELSE total_effective_allocated[v]]
    /\ restaking_degree_bps' = [v \in Validators |->
           IF v \in charged THEN DegreeOrZero(SlashedExposure(v, s), stake[v])
                            ELSE restaking_degree_bps[v]]
    /\ status' = Wipe(status, hit, s, "Inactive")
    /\ amount' = Wipe(amount, hit, s, 0)
    /\ effective_amount' = Wipe(effective_amount, hit, s, 0)
    /\ slashed' = slashed \cup {s}
    /\ active' = active \ {s}
    /\ service_allocated' = [service_allocated EXCEPT ![s] = 0]
    /\ service_effective' = [service_effective EXCEPT ![s] = 0]
    /\ finalized' = finalized \cup {p}
    /\ total_slashed' = [total_slashed EXCEPT ![p] = total]
    /\ stake_vault' = stake_vault - total
    /\ treasury' = treasury + total
    /\ total_effective_stake' = SatSub(total_effective_stake, total)
    /\ UNCHANGED <<config, validator_count, total_staked, stake, pending_withdrawal,
                   allocation_count, ticketVars, service_validators, slash_proposal_count,
                   proposal_service, dispute_left, vetoed, fees, epoch_elapsed>>

-----------------------------------------------------------------------------
\* Mutants: one side of the minimum is forgotten.
Stretched_uncapped(v, s) == amount[v][s]
Stretched_toStake(v, s)  == effective_stake[v]

\* The elastic stretch: an allocation covers no more than the stake behind it.
Stretched(v, s) == Least(amount[v][s], effective_stake[v])

\* An increase is written to the allocation and added to no total.
Shrink(v, s) == SatSub(effective_amount[v][s], Stretched(v, s))

(***************************************************************************)
(* Anyone may rebalance a validator.  The caller passes pairs of one of    *)
(* its allocations and a service account; the handler does not compare the *)
(* two, so pairing maps each allocation passed to any service, or to       *)
(* NoService: to an account that is none of the program's services.        *)
(***************************************************************************)
RebalanceAllocations(v, pairing) ==
    LET touched == {s \in DOMAIN pairing : status[v][s] # "Inactive"}
        Decrease(S) == SumFunction([s \in S |-> Shrink(v, s)])
        charged == [t \in Services |-> Decrease({s \in touched : pairing[s] = t})]
        total   == Decrease(touched)
    IN
    /\ \A s \in DOMAIN pairing : status[v][s] # "None"
    /\ Cardinality(DOMAIN pairing) <= MaxAllocationsPerRebalance
    /\ total \in U64
    /\ charged \in [Services -> U64]
    /\ effective_amount' = [effective_amount EXCEPT ![v] =
           [s \in Services |-> IF s \in touched THEN Stretched(v, s) ELSE @[s]]]
    /\ service_effective' = [t \in Services |-> SatSub(service_effective[t], charged[t])]
    /\ total_effective_allocated' = [total_effective_allocated EXCEPT ![v] = SatSub(@, total)]
    /\ restaking_degree_bps' = [restaking_degree_bps EXCEPT ![v] =
           IF total > 0 THEN DegreeOrZero(total_allocated[v], stake[v]) ELSE @]
    /\ UNCHANGED <<config, networkVars, depositVars, total_allocated, allocation_count,
                   ticketVars, service_allocated, service_validators, active, slashed,
                   status, amount, proposalVars, tokenVars, epoch_elapsed>>

\* Every way to pair allocations with service accounts.
Pairings == UNION {[S -> Services \cup {NoService}] : S \in SUBSET Services}

=============================================================================
