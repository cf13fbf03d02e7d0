------------------------------ MODULE Staking ------------------------------
(***************************************************************************)
(* instructions/validator/: deposits and the two-step withdrawal.          *)
(***************************************************************************)
EXTENDS RestakingAccounts

\* A position with no stake is (re-)registered by its next deposit.
FirstDeposit(v) == stake[v] = 0

\* What a first deposit resets, an ordinary one keeps.
ResetOnFirst(field, v) == IF FirstDeposit(v) THEN [field EXCEPT ![v] = 0] ELSE field

DepositFee(amt) == BpsMul(amt, config.deposit_fee_bps)
\* Mutant: the fee is not withheld from the credit.
NetAmount_gross(amt) == amt
NetAmount(amt)  == amt - DepositFee(amt)

DepositAccepted(v, amt) ==
    /\ ~ config.is_paused
    /\ amt > 0
    /\ FirstDeposit(v) => /\ amt >= config.min_stake_amount
                          /\ validator_count < MaxValidators

(***************************************************************************)
(* The vault receives the gross amount; the validator is credited with     *)
(* what is left after the fee.                                             *)
(***************************************************************************)
DepositStake(v, amt) ==
    LET net == NetAmount(amt) IN
    /\ DepositAccepted(v, amt)
    /\ net \in U64
    /\ {stake_vault + amt, stake[v] + net, effective_stake[v] + net,
        total_staked + net, total_effective_stake + net} \subseteq U64
    /\ stake_vault' = stake_vault + amt
    /\ fees' = fees + DepositFee(amt)
    /\ stake' = [stake EXCEPT ![v] = @ + net]
    /\ effective_stake' = [effective_stake EXCEPT ![v] = @ + net]
    /\ pending_withdrawal' = ResetOnFirst(pending_withdrawal, v)
    /\ total_allocated' = ResetOnFirst(total_allocated, v)
    /\ total_effective_allocated' = ResetOnFirst(total_effective_allocated, v)
    /\ restaking_degree_bps' = ResetOnFirst(restaking_degree_bps, v)
    /\ allocation_count' = ResetOnFirst(allocation_count, v)
    /\ validator_count' = IF FirstDeposit(v) THEN validator_count + 1 ELSE validator_count
    /\ total_staked' = total_staked + net
    /\ total_effective_stake' = total_effective_stake + net
    /\ UNCHANGED <<config, ticketVars, serviceVars, allocationVars, proposalVars,
                   treasury, epoch_elapsed>>

\* Mutant: the tickets already open are forgotten.
RemainingStake_pendingIgnored(v, amt) == stake[v] - amt

\* What stays staked if amt is withdrawn on top of the tickets already open.
RemainingStake(v, amt) == stake[v] - (pending_withdrawal[v] + amt)

WithdrawalAllowed(v, amt) ==
    /\ RemainingStake(v, amt) >= 0
    /\ RemainingStake(v, amt) * config.max_restaking_degree_bps
         >= total_allocated[v] * BPS_DENOMINATOR

RequestWithdrawal(v, i, amt) ==
    /\ ~ config.is_paused
    /\ amt > 0
    /\ ticket_amount[v][i] = 0        \* init: the ticket account must not exist
    /\ WithdrawalAllowed(v, amt)
    /\ ticket_amount' = [ticket_amount EXCEPT ![v][i] = amt]
    /\ epochs_waited' = [epochs_waited EXCEPT ![v][i] = 0]
    /\ pending_withdrawal' = [pending_withdrawal EXCEPT ![v] = @ + amt]
    /\ UNCHANGED <<config, networkVars, stake, effective_stake, exposureVars,
                   serviceVars, allocationVars, proposalVars, tokenVars, epoch_elapsed>>

\* The cooldown is the one configured now, not the one at the request.
CooldownElapsed(v, i) == epochs_waited[v][i] >= config.withdrawal_cooldown_epochs

\* Mutants: the clamp is forgotten; the clamp becomes an assignment.
EffectiveAfterWithdrawal_unclamped(v, amt) == effective_stake[v]
EffectiveAfterWithdrawal_restored(v, amt)  == stake[v] - amt

\* Clamped to the stake that is left.
EffectiveAfterWithdrawal(v, amt) == Least(effective_stake[v], stake[v] - amt)

TotalEffectiveAfterWithdrawal(amt) ==
    Least(SatSub(total_effective_stake, amt), total_staked - amt)

(***************************************************************************)
(* Closing the ticket frees its address for another request.               *)
(***************************************************************************)
CompleteWithdrawal(v, i) ==
    LET amt == ticket_amount[v][i] IN
    /\ amt > 0                        \* the ticket account exists
    /\ CooldownElapsed(v, i)
    /\ amt <= stake_vault
    /\ amt <= stake[v]
    /\ amt <= pending_withdrawal[v]
    /\ amt <= total_staked
    /\ stake_vault' = stake_vault - amt
    /\ stake' = [stake EXCEPT ![v] = @ - amt]
    /\ effective_stake' = [effective_stake EXCEPT ![v] = EffectiveAfterWithdrawal(v, amt)]
    /\ pending_withdrawal' = [pending_withdrawal EXCEPT ![v] = @ - amt]
    /\ total_staked' = total_staked - amt
    /\ total_effective_stake' = TotalEffectiveAfterWithdrawal(amt)
    /\ ticket_amount' = [ticket_amount EXCEPT ![v][i] = 0]
    /\ epochs_waited' = [epochs_waited EXCEPT ![v][i] = 0]
    /\ UNCHANGED <<config, validator_count, exposureVars, serviceVars, allocationVars,
                   proposalVars, treasury, fees, epoch_elapsed>>

=============================================================================
