------------------------- MODULE RestakingAccounts -------------------------
(***************************************************************************)
(* The on-chain accounts of the elastic_restaking program, the arithmetic  *)
(* of math.rs, and the initial state.  Every other module of the protocol  *)
(* extends this one and adds the instructions of one directory of          *)
(* src/programs/elastic_restaking/src/instructions/.                       *)
(*                                                                         *)
(* A field of an account type is a function from the account's key to the  *)
(* field's value (stake[v] is ValidatorState.stake of v, amount[v][s] is   *)
(* AllocationState.amount of v's allocation to s); a boolean field is the  *)
(* set of the accounts that have it set.  An instruction is one            *)
(* step: a transaction that fails anywhere leaves every account untouched, *)
(* so each failing check is a conjunct of the instruction's guard.         *)
(*                                                                         *)
(* Time is relative.  The program only ever compares "now" with a stored   *)
(* timestamp and the current epoch with a stored epoch, so the model keeps *)
(* the differences: epoch_elapsed (now - last_epoch_timestamp),            *)
(* dispute_left (dispute_end - now) and epochs_waited (current_epoch -     *)
(* epoch_requested), each saturating at a value past which no comparison   *)
(* changes.                                                                *)
(***************************************************************************)
EXTENDS Integers, FiniteSets, Functions

CONSTANTS
    Validators,      \* wallets that may own a ValidatorState
    Substitutable,   \* those whose name another account carries, see Slashing
    Services,        \* registered services
    BaseServices,    \* those registered with is_base_service
    TicketIds,       \* ticket_id values a wallet uses for its withdrawals
    Amounts,         \* amounts an instruction may be called with
    Configs,         \* parameter sets an update may install
    InitialConfig,   \* the parameters initialize_network writes
    MaxValidators,                \* MAX_VALIDATORS
    MaxValidatorsPerSlash,        \* MAX_VALIDATORS_PER_SLASH
    MaxAllocationsPerRebalance,   \* MAX_ALLOCATIONS_PER_REBALANCE
    MaxProposals,    \* values of the proposal counter before it overflows
    MaxU64, MaxU32,  \* the widths of the program's integers
    Horizon,         \* no configured epoch length or cooldown is longer
    NoService        \* no account of a service

U64 == 0 .. MaxU64
U32 == 0 .. MaxU32

ProposalIds == 0 .. (MaxProposals - 1)
PerAllocation(T) == [Validators -> [Services -> T]]
PerTicket(T)     == [Validators -> [TicketIds -> T]]

BPS_DENOMINATOR == 10000

(***************************************************************************)
(* The parameters of NetworkConfig that update_network_config can change   *)
(* and that a modelled instruction reads.                                  *)
(***************************************************************************)
ConfigType ==
    [target_restaking_degree_bps : U32,
     max_restaking_degree_bps    : U32,
     epoch_duration              : 0 .. Horizon,
     withdrawal_cooldown_epochs  : 0 .. Horizon,
     slash_dispute_window        : 0 .. Horizon,
     min_stake_amount            : U64,
     deposit_fee_bps             : U32,
     is_paused                   : BOOLEAN]

ASSUME WidthAssumption ==
    /\ MaxU64 \in Nat
    /\ MaxU32 \in Nat
    /\ Horizon \in Nat
    /\ MaxProposals \in Nat
    /\ MaxProposals <= MaxU32
    /\ MaxValidators \in U32

ASSUME InputAssumption ==
    /\ Amounts \subseteq U64
    /\ BaseServices \subseteq Services
    /\ Substitutable \subseteq Validators
    /\ NoService \notin Services

ASSUME ConfigAssumption ==
    /\ Configs \subseteq ConfigType
    /\ InitialConfig \in ConfigType

\* The accounts of a chain are finitely many, and so are the u64 ticket ids.
ASSUME FiniteAssumption ==
    /\ IsFiniteSet(Validators)
    /\ IsFiniteSet(Services)
    /\ IsFiniteSet(TicketIds)

VARIABLES
    config,                                        \* NetworkConfig parameters
    validator_count, total_staked, total_effective_stake, \* NetworkConfig totals
    stake, effective_stake, pending_withdrawal,    \* ValidatorState: the deposit
    total_allocated, total_effective_allocated,    \* ValidatorState: the exposure
    restaking_degree_bps, allocation_count,
    ticket_amount, epochs_waited,                  \* WithdrawalTicket; 0: no account
    service_allocated, service_effective,          \* ServiceState totals
    service_validators,                            \* ServiceState.validator_count
    active, slashed,                               \* ServiceState.is_active, .is_slashed
    status, amount, effective_amount,              \* AllocationState
    slash_proposal_count,                          \* NetworkConfig
    proposal_service, dispute_left,                \* SlashProposal
    vetoed, finalized,                             \* SlashProposal.is_vetoed, .is_finalized
    total_slashed,                                 \* SlashRecord
    stake_vault, treasury,                         \* SPL token balances
    epoch_elapsed,                                 \* clock against last_epoch_timestamp
    fees                                           \* history: deposit fees taken so far

networkVars    == <<validator_count, total_staked, total_effective_stake>>
depositVars    == <<stake, effective_stake, pending_withdrawal>>
exposureVars   == <<total_allocated, total_effective_allocated,
                    restaking_degree_bps, allocation_count>>
ticketVars     == <<ticket_amount, epochs_waited>>
serviceVars    == <<service_allocated, service_effective, service_validators,
                    active, slashed>>
allocationVars == <<status, amount, effective_amount>>
proposalVars   == <<slash_proposal_count, proposal_service, dispute_left,
                    vetoed, finalized, total_slashed>>
tokenVars      == <<stake_vault, treasury, fees>>

vars == <<config, networkVars, depositVars, exposureVars, ticketVars,
          serviceVars, allocationVars, proposalVars, tokenVars, epoch_elapsed>>

-----------------------------------------------------------------------------
\* Arithmetic

SatSub(a, b) == IF b >= a THEN 0 ELSE a - b
Least(a, b)  == IF a <= b THEN a ELSE b

\* The product is taken in u128 by the program, so only the result is bounded.
BpsMul(n, bps) == (n * bps) \div BPS_DENOMINATOR

DegreeBps(allocated, base) ==
    IF base = 0 THEN 0 ELSE (allocated * BPS_DENOMINATOR) \div base

\* unwrap_or(0): where a degree that does not fit in u32 is replaced by 0.
DegreeOrZero(allocated, base) ==
    IF DegreeBps(allocated, base) \in U32 THEN DegreeBps(allocated, base) ELSE 0

-----------------------------------------------------------------------------
(***************************************************************************)
(* "None" is an allocation account that does not exist yet.                *)
(***************************************************************************)
AllocationStatus == {"None", "Pending", "Active", "Deactivating", "Inactive"}

TypeOK ==
    /\ config \in ConfigType
    /\ validator_count \in U32
    /\ total_staked \in U64
    /\ total_effective_stake \in U64
    /\ stake \in [Validators -> U64]
    /\ effective_stake \in [Validators -> U64]
    /\ pending_withdrawal \in [Validators -> U64]
    /\ total_allocated \in [Validators -> U64]
    /\ total_effective_allocated \in [Validators -> U64]
    /\ restaking_degree_bps \in [Validators -> U32]
    /\ allocation_count \in [Validators -> U32]
    /\ ticket_amount \in PerTicket(U64)
    /\ epochs_waited \in PerTicket(0 .. Horizon)
    /\ service_allocated \in [Services -> U64]
    /\ service_effective \in [Services -> U64]
    /\ service_validators \in [Services -> U32]
    /\ active \subseteq Services
    /\ slashed \subseteq Services
    /\ status \in PerAllocation(AllocationStatus)
    /\ amount \in PerAllocation(U64)
    /\ effective_amount \in PerAllocation(U64)
    /\ slash_proposal_count \in 0 .. MaxProposals
    /\ proposal_service \in [ProposalIds -> Services \cup {NoService}]
    /\ dispute_left \in [ProposalIds -> 0 .. Horizon]
    /\ vetoed \subseteq ProposalIds
    /\ finalized \subseteq ProposalIds
    /\ total_slashed \in [ProposalIds -> U64]
    /\ stake_vault \in U64
    /\ treasury \in U64
    /\ epoch_elapsed \in 0 .. Horizon
    /\ fees \in Nat

(***************************************************************************)
(* The network just after initialize_network, with every service of        *)
(* Services registered by register_service and nobody staking yet.         *)
(***************************************************************************)
Init ==
    /\ config = InitialConfig
    /\ validator_count = 0
    /\ total_staked = 0
    /\ total_effective_stake = 0
    /\ stake = [v \in Validators |-> 0]
    /\ effective_stake = [v \in Validators |-> 0]
    /\ pending_withdrawal = [v \in Validators |-> 0]
    /\ total_allocated = [v \in Validators |-> 0]
    /\ total_effective_allocated = [v \in Validators |-> 0]
    /\ restaking_degree_bps = [v \in Validators |-> 0]
    /\ allocation_count = [v \in Validators |-> 0]
    /\ ticket_amount = [v \in Validators |-> [i \in TicketIds |-> 0]]
    /\ epochs_waited = [v \in Validators |-> [i \in TicketIds |-> 0]]
    /\ service_allocated = [s \in Services |-> 0]
    /\ service_effective = [s \in Services |-> 0]
    /\ service_validators = [s \in Services |-> 0]
    /\ active = Services
    /\ slashed = {}
    /\ status = [v \in Validators |-> [s \in Services |-> "None"]]
    /\ amount = [v \in Validators |-> [s \in Services |-> 0]]
    /\ effective_amount = [v \in Validators |-> [s \in Services |-> 0]]
    /\ slash_proposal_count = 0
    /\ proposal_service = [p \in ProposalIds |-> NoService]
    /\ dispute_left = [p \in ProposalIds |-> 0]
    /\ vetoed = {}
    /\ finalized = {}
    /\ total_slashed = [p \in ProposalIds |-> 0]
    /\ stake_vault = 0
    /\ treasury = 0
    /\ epoch_elapsed = 0
    /\ fees = 0

=============================================================================
