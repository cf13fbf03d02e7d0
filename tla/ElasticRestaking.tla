-------------------------- MODULE ElasticRestaking --------------------------
(***************************************************************************)
(* The elastic_restaking program: every transaction of validators,         *)
(* services, the network authority and permissionless callers, interleaved *)
(* in any order over the shared accounts, and the properties the protocol  *)
(* must keep.                                                              *)
(***************************************************************************)
EXTENDS Staking, AllocationLedger, Slashing, Network

Next ==
    \/ \E v \in Validators, n \in Amounts : DepositStake(v, n)
    \/ \E v \in Validators, i \in TicketIds, n \in Amounts : RequestWithdrawal(v, i, n)
    \/ \E v \in Validators, i \in TicketIds : CompleteWithdrawal(v, i)
    \/ \E v \in Validators, s \in Services, n \in Amounts : AllocateStake(v, s, n)
    \/ \E v \in Validators, s \in Services, n \in Amounts : DeallocateStake(v, s, n)
    \/ \E s \in Services : ProposeSlash(s)
    \/ \E p \in ProposalIds : VetoSlash(p)
    \/ \E p \in ProposalIds, P, Q \in SUBSET Validators : FinalizeSlash(p, P, Q)
    \/ \E v \in Validators, pairing \in Pairings : RebalanceAllocations(v, pairing)
    \/ Tick
    \/ AdvanceEpoch
    \/ \E c \in Configs : UpdateNetworkConfig(c)
    \/ \E s \in Services : DeactivateService(s)

Spec == Init /\ [][Next]_vars

(***************************************************************************)
(* Time passes.  Somebody advances a due epoch and finalizes a due         *)
(* proposal, since anyone may; a validator collects a ticket it can        *)
(* collect.  Nothing forces a deposit, an allocation, a proposal or a      *)
(* veto.                                                                   *)
(***************************************************************************)
Fairness ==
    /\ WF_vars(Tick)
    /\ WF_vars(AdvanceEpoch)
    /\ \A v \in Validators, i \in TicketIds : WF_vars(CompleteWithdrawal(v, i))
    /\ \A p \in ProposalIds : WF_vars(\E P, Q \in SUBSET Validators : FinalizeSlash(p, P, Q))

FairSpec == Spec /\ Fairness

-----------------------------------------------------------------------------
\* Sums over the accounts

Total(field)      == SumFunction(field)
OpenTickets(v)    == SumFunction([i \in TicketIds |-> ticket_amount[v][i]])
AmountsOf(v)      == SumFunction([s \in Services |-> amount[v][s]])
AmountsOn(s)      == SumFunction([v \in Validators |-> amount[v][s]])
SlotsOf(v)        == Cardinality({s \in Services : status[v][s] \in {"Pending", "Inactive"}})
SlotsOn(s)        == Cardinality({v \in Validators : status[v][s] \in {"Pending", "Inactive"}})
Hit(p)            == proposal_service[p]

-----------------------------------------------------------------------------
\* Invariants: the deposits

(***************************************************************************)
(* A validator's effective stake, what a slash leaves of its deposit,      *)
(* never exceeds the deposit; nor do its open withdrawals, so a ticket can *)
(* always be subtracted from the stake when it matures                     *)
(* (complete_withdrawal.rs).                                               *)
(***************************************************************************)
DepositBounds ==
    \A v \in Validators : /\ effective_stake[v] <= stake[v]
                          /\ pending_withdrawal[v] <= stake[v]

(***************************************************************************)
(* pending_withdrawal is exactly what the validator's open tickets will    *)
(* take, through reused ticket ids, partial withdrawals and the reset of a *)
(* re-registration (deposit_stake.rs:102): no ticket is ever orphaned.     *)
(***************************************************************************)
PendingIsOpenTickets ==
    \A v \in Validators : pending_withdrawal[v] = OpenTickets(v)

(***************************************************************************)
(* total_staked is the sum of the deposits, and the network-wide effective *)
(* stake overstates neither that sum nor the effective stake of the        *)
(* validators together, although it is kept by saturating subtractions.    *)
(***************************************************************************)
NetworkTotals ==
    /\ total_staked = Total(stake)
    /\ total_effective_stake <= total_staked
    /\ total_effective_stake <= Total(effective_stake)

(***************************************************************************)
(* Tokens are conserved: the vault holds the deposits and the fees, less   *)
(* what the slash records say was moved to the treasury.                   *)
(***************************************************************************)
VaultConservation ==
    /\ treasury = Total(total_slashed)
    /\ stake_vault + treasury = total_staked + fees

-----------------------------------------------------------------------------
\* Invariants: the allocations

(***************************************************************************)
(* No allocation is worth more than its nominal amount; one that is closed *)
(* or was slashed is worth nothing, so that neither a second finalization  *)
(* nor a rebalance can count it again.                                     *)
(***************************************************************************)
AllocationShape ==
    \A v \in Validators, s \in Services :
        /\ effective_amount[v][s] <= amount[v][s]
        /\ status[v][s] \in {"None", "Deactivating", "Inactive"} => amount[v][s] = 0
        /\ status[v][s] = "Inactive" => s \in slashed

(***************************************************************************)
(* Until it is slashed, a service's totals are those of its allocations,   *)
(* and its validator_count is the number of validators holding a slot: it  *)
(* is what freezes the security parameters of a service in use             *)
(* (update_service.rs:41).                                                 *)
(***************************************************************************)
ServiceTotals ==
    \A s \in Services :
        /\ s \notin slashed => service_allocated[s] = AmountsOn(s)
        /\ service_effective[s] <= service_allocated[s]
        /\ service_validators[s] = SlotsOn(s)

(***************************************************************************)
(* A validator never records more exposure, or more slots, than its        *)
(* allocations give it: the degree cap is never stricter than it should    *)
(* be.  The exposure of a Substitutable validator is not bounded, since a  *)
(* finalization may close its allocation and leave its account as it was   *)
(* (finalize_slash.rs:120-150).                                            *)
(***************************************************************************)
ExposureBounds ==
    \A v \in Validators :
        /\ v \notin Substitutable => total_allocated[v] <= AmountsOf(v)
        /\ allocation_count[v] <= SlotsOf(v)

-----------------------------------------------------------------------------
\* Invariants: the slashes

(***************************************************************************)
(* A service is slashed exactly when a proposal against it went through    *)
(* its dispute window unvetoed; a vetoed proposal took nothing, and the    *)
(* base services, which carry the chain itself, are out of reach.  Several *)
(* proposals may be open against one service at once.                      *)
(***************************************************************************)
SlashJustified ==
    /\ \A s \in Services : s \in slashed <=> \E p \in finalized : Hit(p) = s
    /\ vetoed \cap finalized = {}
    /\ \A p \in ProposalIds : p \notin finalized => total_slashed[p] = 0
    /\ slashed \cap BaseServices = {}

(***************************************************************************)
(* A slashed service is frozen: it is inactive and its totals stay at      *)
(* zero, whatever deallocations and rebalances come after the slash.       *)
(***************************************************************************)
SlashedServiceFrozen ==
    \A s \in slashed : /\ s \notin active
                       /\ service_allocated[s] = 0
                       /\ service_effective[s] = 0

-----------------------------------------------------------------------------
\* Action properties

(***************************************************************************)
(* Tokens leave the vault in two ways only: to a validator whose matured   *)
(* ticket is closed for that amount, or to the treasury by the             *)
(* finalization of one proposal.                                           *)
(***************************************************************************)
PaidByTicket ==
    \E v \in Validators, i \in TicketIds :
        /\ ticket_amount'[v][i] = 0
        /\ ticket_amount[v][i] = stake_vault - stake_vault'
        /\ epochs_waited[v][i] >= config.withdrawal_cooldown_epochs
        /\ stake'[v] = stake[v] - ticket_amount[v][i]
        /\ treasury' = treasury

PaidBySlash ==
    \E p \in finalized' \ finalized :
        /\ p \notin vetoed
        /\ dispute_left[p] = 0
        /\ treasury' - treasury = stake_vault - stake_vault'
        /\ total_slashed'[p] = stake_vault - stake_vault'
        /\ stake' = stake

VaultOutflow == [][stake_vault' < stake_vault => PaidByTicket \/ PaidBySlash]_vars

(***************************************************************************)
(* A slash is for good: effective stake that was lost comes back only      *)
(* through a new deposit of the same validator, and by no more than the    *)
(* deposit.                                                                *)
(***************************************************************************)
SlashIsPermanent ==
    [][\A v \in Validators : effective_stake'[v] > effective_stake[v]
            => effective_stake'[v] - effective_stake[v] <= stake'[v] - stake[v]]_vars

(***************************************************************************)
(* The outcome of a proposal is final, a slashed service stays slashed and *)
(* nobody's allocation to it grows again.                                  *)
(***************************************************************************)
SettledIsFinal ==
    [][/\ vetoed \subseteq vetoed'
       /\ finalized \subseteq finalized'
       /\ slashed \subseteq slashed'
       /\ \A p \in vetoed \cup finalized : total_slashed'[p] = total_slashed[p]
       /\ \A v \in Validators, s \in slashed : amount'[v][s] <= amount[v][s]]_vars

(***************************************************************************)
(* Whoever writes an effective amount (an allocation, a deallocation, a    *)
(* slash or a rebalance, in any order) leaves it at the elastic stretch    *)
(* min(amount, effective_stake) of the accounts after the step, so that a  *)
(* rebalance repeated on the same pairs changes nothing.                   *)
(***************************************************************************)
StretchOnWrite ==
    [][\A v \in Validators, s \in Services :
          <<amount'[v][s], effective_amount'[v][s]>> # <<amount[v][s], effective_amount[v][s]>>
             => effective_amount'[v][s] = Least(amount'[v][s], effective_stake'[v])]_vars

(***************************************************************************)
(* Slashing one service costs only the validators allocated to it, no more *)
(* than the effective amount each of them had there, and touches no        *)
(* allocation to another service: a slash does not cascade.                *)
(***************************************************************************)
NoCascade ==
    [][\A s \in Services, p \in finalized' \ finalized : Hit(p) = s =>
          \A v \in Validators :
             /\ effective_stake[v] - effective_stake'[v] <= effective_amount[v][s]
             /\ \A t \in Services \ {s} : /\ amount'[v][t] = amount[v][t]
                                          /\ effective_amount'[v][t] = effective_amount[v][t]
      ]_vars

-----------------------------------------------------------------------------
\* Liveness

(***************************************************************************)
(* Every ticket is eventually paid, whatever happens to the cooldown and   *)
(* to the length of the epochs while it is open, unless a slash, which     *)
(* takes tokens from the vault and no stake, leaves the vault short of it. *)
(***************************************************************************)
TicketEventuallyPaid ==
    \A v \in Validators, i \in TicketIds :
        ticket_amount[v][i] > 0
            ~> \/ ticket_amount[v][i] = 0
               \/ stake_vault < ticket_amount[v][i] /\ treasury > 0

(***************************************************************************)
(* Every proposal is eventually vetoed or finalized.                       *)
(***************************************************************************)
ProposalEventuallySettled ==
    \A p \in ProposalIds : p < slash_proposal_count ~> p \in vetoed \cup finalized

=============================================================================
