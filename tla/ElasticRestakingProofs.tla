----------------------- MODULE ElasticRestakingProofs -----------------------
(***************************************************************************)
(* The program, for every set of validators, services and parameters and   *)
(* every width of the integers.                                            *)
(*                                                                         *)
(* Its types rest on one more fact, that a proposal that was made names a  *)
(* service: ProposalsMade (Slashing) is the strengthening that makes them  *)
(* inductive.  Beside those two, each safety property of an account is     *)
(* inductive as it stands, and its proof has one step for every            *)
(* instruction that disturbs it.                                           *)
(*                                                                         *)
(* The totals kept on the network, the services and the validators are     *)
(* updated by instructions that see a few accounts each; they are compared *)
(* with the sums over all the accounts they stand for (SumTheorems).       *)
(*                                                                         *)
(* Last, every step of the program is one of SlashGovernance or none.      *)
(***************************************************************************)
EXTENDS SlashRefinement, SumTheorems

-----------------------------------------------------------------------------
\* Arithmetic

\* A share of an amount in basis points is a natural number.
LEMMA BpsMulNat ==
    ASSUME NEW n \in Nat, NEW bps \in Nat
    PROVE  BpsMul(n, bps) \in Nat
<1>1. n * bps \in Nat
  OBVIOUS
<1>2. QED
  BY <1>1 DEF BpsMul, BPS_DENOMINATOR

\* A saturating subtraction of a natural number stays within the minuend.
LEMMA SatSubBounds ==
    ASSUME NEW a \in Nat, NEW b \in Nat
    PROVE  SatSub(a, b) \in Nat /\ SatSub(a, b) <= a
BY DEF SatSub

-----------------------------------------------------------------------------
\* Type correctness

\* Zero is a value of every integer type of the program.
LEMMA Widths == 0 \in U64 /\ 0 \in U32 /\ U64 \subseteq Nat /\ U32 \subseteq Nat
BY WidthAssumption DEF U64, U32

\* Subtraction, checked or saturating, and the minimum stay within u64.
LEMMA U64Closed ==
    ASSUME NEW a \in U64, NEW b \in U64
    PROVE  /\ SatSub(a, b) \in U64
           /\ Least(a, b) \in U64
           /\ b <= a => a - b \in U64
BY WidthAssumption DEF U64, SatSub, Least

\* A counter of accounts that gives back one slot, or none, stays within u32.
LEMMA U32SatSub ==
    ASSUME NEW a \in U32, NEW k \in {0, 1}
    PROVE  SatSub(a, k) \in U32
BY WidthAssumption DEF U32, SatSub

\* The reset of a first deposit keeps the type of a field.
LEMMA ResetType ==
    ASSUME NEW T, 0 \in T, NEW field \in [Validators -> T], NEW v \in Validators
    PROVE  ResetOnFirst(field, v) \in [Validators -> T]
BY DEF ResetOnFirst

LEMMA DepositTypeOK ==
    ASSUME TypeOK, NEW v \in Validators, NEW n \in Amounts, DepositStake(v, n)
    PROVE  TypeOK'
<1> USE WidthAssumption, InputAssumption DEF TypeOK, U64, U32
<1>1. n \in Nat /\ config.deposit_fee_bps \in Nat
  BY DEF ConfigType
<1>2. DepositFee(n) \in Nat
  BY <1>1, BpsMulNat DEF DepositFee
<1>3. validator_count' \in U32
  BY DEF DepositStake, DepositAccepted
<1>4. /\ stake' \in [Validators -> U64]
      /\ effective_stake' \in [Validators -> U64]
      /\ total_staked' \in U64 /\ total_effective_stake' \in U64 /\ stake_vault' \in U64
  BY DEF DepositStake
<1>5. /\ pending_withdrawal' \in [Validators -> U64]
      /\ total_allocated' \in [Validators -> U64]
      /\ total_effective_allocated' \in [Validators -> U64]
      /\ restaking_degree_bps' \in [Validators -> U32]
      /\ allocation_count' \in [Validators -> U32]
  <2>1. /\ pending_withdrawal' = ResetOnFirst(pending_withdrawal, v)
        /\ total_allocated' = ResetOnFirst(total_allocated, v)
        /\ total_effective_allocated' = ResetOnFirst(total_effective_allocated, v)
        /\ restaking_degree_bps' = ResetOnFirst(restaking_degree_bps, v)
        /\ allocation_count' = ResetOnFirst(allocation_count, v)
    BY DEF DepositStake
  <2>2. QED
    BY <2>1, Widths, ResetType
<1>6. fees' \in Nat
  <2>1. fees' = fees + DepositFee(n) /\ fees \in Nat
    BY DEF DepositStake
  <2>2. QED
    BY <2>1, <1>2
<1>7. QED
  BY <1>3, <1>4, <1>5, <1>6
     DEF DepositStake, ticketVars, serviceVars, allocationVars, proposalVars


LEMMA RequestTypeOK ==
    ASSUME TypeOK, NEW v \in Validators, NEW i \in TicketIds, NEW n \in Amounts,
           RequestWithdrawal(v, i, n)
    PROVE  TypeOK'
<1> USE WidthAssumption, InputAssumption DEF TypeOK, U64
<1>1. pending_withdrawal[v] + n \in U64
  BY SMTT(30) DEF RequestWithdrawal, WithdrawalAllowed, RemainingStake
<1>2. /\ ticket_amount' \in PerTicket(U64)
      /\ epochs_waited' \in PerTicket(0 .. Horizon)
      /\ pending_withdrawal' \in [Validators -> U64]
  BY <1>1 DEF RequestWithdrawal, PerTicket
<1>3. QED
  BY <1>2 DEF RequestWithdrawal, networkVars, exposureVars, serviceVars, allocationVars,
              proposalVars, tokenVars

LEMMA CompleteTypeOK ==
    ASSUME TypeOK, NEW v \in Validators, NEW i \in TicketIds, CompleteWithdrawal(v, i)
    PROVE  TypeOK'
<1> USE WidthAssumption DEF TypeOK, U64
<1> DEFINE amt == ticket_amount[v][i]
<1>1. amt \in U64 /\ stake[v] \in U64 /\ effective_stake[v] \in U64
  BY DEF PerTicket
<1>2. /\ stake[v] - amt \in U64 /\ pending_withdrawal[v] - amt \in U64
      /\ total_staked - amt \in U64 /\ stake_vault - amt \in U64
  <2>1. /\ amt <= stake[v] /\ amt <= pending_withdrawal[v]
        /\ amt <= total_staked /\ amt <= stake_vault
    BY DEF CompleteWithdrawal
  <2>2. pending_withdrawal[v] \in U64 /\ total_staked \in U64 /\ stake_vault \in U64
    OBVIOUS
  <2>3. QED
    BY <1>1, <2>1, <2>2, U64Closed
<1>3. EffectiveAfterWithdrawal(v, amt) \in U64
  BY <1>1, <1>2, U64Closed DEF EffectiveAfterWithdrawal
<1>4. TotalEffectiveAfterWithdrawal(amt) \in U64
  <2>1. SatSub(total_effective_stake, amt) \in U64
    BY <1>1, U64Closed
  <2>2. QED
    BY <1>2, <2>1, U64Closed DEF TotalEffectiveAfterWithdrawal
<1>5. /\ ticket_amount' \in PerTicket(U64)
      /\ epochs_waited' \in PerTicket(0 .. Horizon)
  BY SMTT(30) DEF CompleteWithdrawal, PerTicket
<1>6. /\ stake' \in [Validators -> U64]
      /\ effective_stake' \in [Validators -> U64]
      /\ pending_withdrawal' \in [Validators -> U64]
  BY <1>2, <1>3 DEF CompleteWithdrawal
<1>7. total_staked' \in U64 /\ total_effective_stake' \in U64 /\ stake_vault' \in U64
  BY <1>2, <1>4 DEF CompleteWithdrawal
<1>8. QED
  BY <1>5, <1>6, <1>7
     DEF CompleteWithdrawal, exposureVars, serviceVars, allocationVars, proposalVars

LEMMA AllocateTypeOK ==
    ASSUME TypeOK, NEW v \in Validators, NEW s \in Services, NEW n \in Amounts,
           AllocateStake(v, s, n)
    PROVE  TypeOK'
<1> USE DEF TypeOK
<1>1. status' \in PerAllocation(AllocationStatus)
  BY DEF AllocateStake, PerAllocation, AllocationStatus
<1>2. /\ amount' \in PerAllocation(U64)
      /\ effective_amount' \in PerAllocation(U64)
  BY DEF AllocateStake, PerAllocation
<1>3. /\ total_allocated' \in [Validators -> U64]
      /\ total_effective_allocated' \in [Validators -> U64]
      /\ restaking_degree_bps' \in [Validators -> U32]
      /\ allocation_count' \in [Validators -> U32]
  BY DEF AllocateStake
<1>4. /\ service_allocated' \in [Services -> U64]
      /\ service_effective' \in [Services -> U64]
      /\ service_validators' \in [Services -> U32]
  BY DEF AllocateStake
<1>5. QED
  BY <1>1, <1>2, <1>3, <1>4
     DEF AllocateStake, networkVars, depositVars, ticketVars, proposalVars, tokenVars

LEMMA DeallocateTypeOK ==
    ASSUME TypeOK, NEW v \in Validators, NEW s \in Services, NEW n \in Amounts,
           DeallocateStake(v, s, n)
    PROVE  TypeOK'
<1> USE WidthAssumption, InputAssumption DEF TypeOK
<1>1. status' \in PerAllocation(AllocationStatus)
  BY DEF DeallocateStake, PerAllocation, AllocationStatus
<1>2. n \in U64 /\ n <= amount[v][s] /\ amount[v][s] \in U64
  BY DEF DeallocateStake, DeallocationAccepted, PerAllocation
<1>3. /\ n <= total_allocated[v] /\ n <= service_allocated[s]
      /\ total_allocated[v] \in U64 /\ total_effective_allocated[v] \in U64
      /\ service_allocated[s] \in U64 /\ service_effective[s] \in U64
      /\ effective_stake[v] \in U64
  BY DEF DeallocateStake
<1>4. /\ amount[v][s] - n \in U64
      /\ total_allocated[v] - n \in U64 /\ service_allocated[s] - n \in U64
      /\ SatSub(total_effective_allocated[v], n) \in U64
      /\ SatSub(service_effective[s], n) \in U64
  BY <1>2, <1>3, U64Closed
<1>5. Least(amount[v][s] - n, effective_stake[v]) \in U64
  BY <1>3, <1>4, U64Closed
<1>6. /\ amount' \in PerAllocation(U64)
      /\ effective_amount' \in PerAllocation(U64)
  BY <1>4, <1>5 DEF DeallocateStake, PerAllocation
<1>7. /\ total_allocated' \in [Validators -> U64]
      /\ total_effective_allocated' \in [Validators -> U64]
      /\ restaking_degree_bps' \in [Validators -> U32]
  BY <1>4 DEF DeallocateStake
<1>8. /\ service_allocated' \in [Services -> U64]
      /\ service_effective' \in [Services -> U64]
  BY <1>4 DEF DeallocateStake
<1>9. /\ allocation_count' \in [Validators -> U32]
      /\ service_validators' \in [Services -> U32]
  <2>1. \A k \in {0, 1} : /\ SatSub(allocation_count[v], k) \in U32
                          /\ SatSub(service_validators[s], k) \in U32
    <3>1. allocation_count[v] \in U32 /\ service_validators[s] \in U32
      OBVIOUS
    <3>2. QED
      BY <3>1, U32SatSub
  <2>2. PICK k \in {0, 1} :
           /\ allocation_count' = [allocation_count EXCEPT ![v] = SatSub(@, k)]
           /\ service_validators' = [service_validators EXCEPT ![s] = SatSub(@, k)]
    <3>1. (IF amount[v][s] - n = 0 THEN 1 ELSE 0) \in {0, 1}
      OBVIOUS
    <3>2. QED
      BY <3>1 DEF DeallocateStake
  <2>3. QED
    BY <2>1, <2>2
<1>10. QED
  BY <1>1, <1>6, <1>7, <1>8, <1>9
     DEF DeallocateStake, networkVars, depositVars, ticketVars, proposalVars, tokenVars

LEMMA ProposeTypeOK ==
    ASSUME TypeOK, NEW s \in Services, ProposeSlash(s)
    PROVE  TypeOK'
<1> USE WidthAssumption DEF TypeOK
<1>1. slash_proposal_count' \in 0 .. MaxProposals
  BY DEF ProposeSlash
<1>2. /\ proposal_service' \in [ProposalIds -> Services \cup {NoService}]
      /\ dispute_left' \in [ProposalIds -> 0 .. Horizon]
  BY DEF ProposeSlash, ConfigType
<1>3. QED
  BY <1>1, <1>2
     DEF ProposeSlash, networkVars, depositVars, exposureVars, ticketVars, serviceVars,
         allocationVars, tokenVars

LEMMA VetoTypeOK ==
    ASSUME TypeOK, NEW p \in ProposalIds, VetoSlash(p)
    PROVE  TypeOK'
BY DEF TypeOK, VetoSlash, networkVars, depositVars, exposureVars, ticketVars, serviceVars,
       allocationVars, tokenVars

\* A proposal that was made has a service.
LEMMA FinalizeTypeOK ==
    ASSUME TypeOK, NEW p \in ProposalIds, proposal_service[p] \in Services,
           NEW P \in SUBSET Validators, NEW Q \in SUBSET Validators,
           FinalizeSlash(p, P, Q)
    PROVE  TypeOK'
<1> USE DEF TypeOK
<1> DEFINE s     == proposal_service[p]
           hit   == {v \in P : Slashable(v, s)}
           total == SlashTotal(hit, s)
<1>1. \A v \in Validators : /\ effective_amount[v][s] \in U64
                            /\ amount[v][s] \in U64
  BY DEF PerAllocation
<1>2. total \in U64 /\ total <= stake_vault /\ treasury + total \in U64
  BY DEF FinalizeSlash
<1>3. \A v \in Validators : /\ SlashedStake(v, s) \in U64
                            /\ SlashedExposure(v, s) \in U64
                            /\ SlashedEffective(v, s) \in U64
  BY <1>1, U64Closed DEF SlashedStake, SlashedExposure, SlashedEffective
<1>4. \A v \in Validators : DegreeOrZero(SlashedExposure(v, s), stake[v]) \in U32
  BY Widths DEF DegreeOrZero
<1>5. /\ effective_stake' \in [Validators -> U64]
      /\ total_allocated' \in [Validators -> U64]
      /\ total_effective_allocated' \in [Validators -> U64]
  BY <1>3 DEF FinalizeSlash
<1>6. restaking_degree_bps' \in [Validators -> U32]
  BY <1>4 DEF FinalizeSlash
<1>7. /\ status' \in PerAllocation(AllocationStatus)
      /\ amount' \in PerAllocation(U64)
      /\ effective_amount' \in PerAllocation(U64)
  <2>1. "Inactive" \in AllocationStatus
    BY DEF AllocationStatus
  <2>2. \A T, field, value :
           field \in PerAllocation(T) /\ value \in T => Wipe(field, hit, s, value) \in PerAllocation(T)
    BY DEF Wipe, PerAllocation
  <2>3. /\ status' = Wipe(status, hit, s, "Inactive")
        /\ amount' = Wipe(amount, hit, s, 0)
        /\ effective_amount' = Wipe(effective_amount, hit, s, 0)
    BY DEF FinalizeSlash
  <2>4. QED
    BY <2>1, <2>2, <2>3, Widths
<1>8. /\ slashed' \subseteq Services
      /\ active' \subseteq Services
      /\ service_allocated' \in [Services -> U64]
      /\ service_effective' \in [Services -> U64]
      /\ finalized' \subseteq ProposalIds
  BY Widths DEF FinalizeSlash
<1>9. /\ total_slashed' \in [ProposalIds -> U64]
      /\ stake_vault' \in U64
      /\ treasury' \in U64
      /\ total_effective_stake' \in U64
  <2>1. stake_vault - total \in U64 /\ SatSub(total_effective_stake, total) \in U64
    BY <1>2, U64Closed
  <2>2. QED
    BY <1>2, <2>1 DEF FinalizeSlash
<1>10. QED
  BY <1>5, <1>6, <1>7, <1>8, <1>9 DEF FinalizeSlash, ticketVars

LEMMA RebalanceTypeOK ==
    ASSUME TypeOK, NEW v \in Validators, NEW pairing, RebalanceAllocations(v, pairing)
    PROVE  TypeOK'
<1> USE WidthAssumption DEF TypeOK, U64, U32
<1>1. effective_amount' \in PerAllocation(U64)
  BY SMTT(30) DEF RebalanceAllocations, PerAllocation, Stretched, Least
<1>2. service_effective' \in [Services -> U64]
  <2>1. PICK charged \in [Services -> U64] :
           service_effective' = [t \in Services |-> SatSub(service_effective[t], charged[t])]
    BY DEF RebalanceAllocations
  <2>2. QED
    BY <2>1, U64Closed
<1>3. total_effective_allocated' \in [Validators -> U64]
  BY DEF RebalanceAllocations, SatSub
<1>4. restaking_degree_bps' \in [Validators -> U32]
  BY DEF RebalanceAllocations, DegreeOrZero
<1>5. QED
  BY <1>1, <1>2, <1>3, <1>4
     DEF RebalanceAllocations, networkVars, depositVars, ticketVars, proposalVars, tokenVars

LEMMA TickTypeOK ==
    ASSUME TypeOK, Tick
    PROVE  TypeOK'
<1> USE WidthAssumption DEF TypeOK
<1>1. epoch_elapsed' \in 0 .. Horizon /\ dispute_left' \in [ProposalIds -> 0 .. Horizon]
  BY DEF Tick, Least, SatSub
<1>2. QED
  BY <1>1 DEF Tick, networkVars, depositVars, exposureVars, ticketVars, serviceVars,
              allocationVars, tokenVars

LEMMA AdvanceEpochTypeOK ==
    ASSUME TypeOK, AdvanceEpoch
    PROVE  TypeOK'
<1> USE WidthAssumption DEF TypeOK
<1>1. epoch_elapsed' \in 0 .. Horizon /\ epochs_waited' \in PerTicket(0 .. Horizon)
  BY DEF AdvanceEpoch, Least, PerTicket
<1>2. QED
  BY <1>1 DEF AdvanceEpoch, networkVars, depositVars, exposureVars, serviceVars,
              allocationVars, proposalVars, tokenVars

LEMMA AdminTypeOK ==
    ASSUME TypeOK,
           \/ \E c \in Configs : UpdateNetworkConfig(c)
           \/ \E s \in Services : DeactivateService(s)
    PROVE  TypeOK'
<1>1. CASE \E c \in Configs : UpdateNetworkConfig(c)
  BY <1>1, ConfigAssumption
     DEF TypeOK, UpdateNetworkConfig, networkVars, depositVars, exposureVars, ticketVars,
         serviceVars, allocationVars, proposalVars, tokenVars
<1>2. CASE \E s \in Services : DeactivateService(s)
  BY <1>2
     DEF TypeOK, DeactivateService, networkVars, depositVars, exposureVars, ticketVars,
         allocationVars, proposalVars, tokenVars
<1>3. QED
  BY <1>1, <1>2

-----------------------------------------------------------------------------
\* The proposals

\* What an instruction other than the slashing ones leaves alone.
LEMMA ProposalsFrame ==
    ASSUME ProposalsMade,
           UNCHANGED <<slash_proposal_count, proposal_service, vetoed, finalized>>
    PROVE  ProposalsMade'
BY DEF ProposalsMade, Proposed

\* The instructions outside slashing governance, for the case splits below.
PositionStep ==
    \E v \in Validators :
        \/ \E n \in Amounts : DepositStake(v, n)
        \/ \E i \in TicketIds, n \in Amounts : RequestWithdrawal(v, i, n)
        \/ \E i \in TicketIds : CompleteWithdrawal(v, i)
        \/ \E s \in Services, n \in Amounts : AllocateStake(v, s, n)
        \/ \E s \in Services, n \in Amounts : DeallocateStake(v, s, n)
        \/ \E pairing \in Pairings : RebalanceAllocations(v, pairing)

NetworkStep ==
    \/ Tick
    \/ AdvanceEpoch
    \/ \E c \in Configs : UpdateNetworkConfig(c)
    \/ \E s \in Services : DeactivateService(s)

\* No position moves a proposal.
LEMMA PositionKeepsProposals ==
    ASSUME PositionStep
    PROVE  UNCHANGED proposalVars
<1>1. \A v \in Validators, n \in Amounts : DepositStake(v, n) => UNCHANGED proposalVars
  BY DEF DepositStake
<1>2. \A v \in Validators, i \in TicketIds, n \in Amounts :
         RequestWithdrawal(v, i, n) => UNCHANGED proposalVars
  BY DEF RequestWithdrawal
<1>3. \A v \in Validators, i \in TicketIds :
         CompleteWithdrawal(v, i) => UNCHANGED proposalVars
  BY DEF CompleteWithdrawal
<1>4. \A v \in Validators, s \in Services, n \in Amounts :
         AllocateStake(v, s, n) \/ DeallocateStake(v, s, n) => UNCHANGED proposalVars
  BY DEF AllocateStake, DeallocateStake
<1>5. \A v \in Validators, pairing \in Pairings :
         RebalanceAllocations(v, pairing) => UNCHANGED proposalVars
  BY DEF RebalanceAllocations
<1>6. QED
  BY <1>1, <1>2, <1>3, <1>4, <1>5 DEF PositionStep

LEMMA ProposalsMadeStep ==
    ASSUME TypeOK, ProposalsMade, [Next]_vars
    PROVE  ProposalsMade'
<1>1. ASSUME NEW s \in Services, ProposeSlash(s)
      PROVE  ProposalsMade'
  <2>1. /\ slash_proposal_count \in Nat
        /\ slash_proposal_count' = slash_proposal_count + 1
        /\ proposal_service' = [proposal_service EXCEPT ![slash_proposal_count] = s]
        /\ s \in Services \ BaseServices
        /\ UNCHANGED <<vetoed, finalized>>
    BY <1>1 DEF ProposeSlash, ProposalAccepted, TypeOK
  <2>2. QED
    BY <2>1 DEF ProposalsMade, Proposed, TypeOK, ProposalIds
<1>2. ASSUME NEW p \in ProposalIds, VetoSlash(p)
      PROVE  ProposalsMade'
  BY <1>2 DEF VetoSlash, ProposalsMade, Proposed
<1>3. ASSUME NEW p \in ProposalIds, NEW P \in SUBSET Validators, NEW Q \in SUBSET Validators,
             FinalizeSlash(p, P, Q)
      PROVE  ProposalsMade'
  <2>1. /\ p \in Proposed
        /\ finalized' = finalized \cup {p}
        /\ UNCHANGED <<slash_proposal_count, proposal_service, vetoed>>
    BY <1>3 DEF FinalizeSlash, FinalizeAccepted
  <2>2. QED
    BY <2>1 DEF ProposalsMade, Proposed
<1>4. CASE UNCHANGED <<slash_proposal_count, proposal_service, vetoed, finalized>>
  BY <1>4, ProposalsFrame
<1>5. CASE PositionStep
  BY <1>4, <1>5, PositionKeepsProposals DEF proposalVars
<1>6. CASE NetworkStep \/ UNCHANGED vars
  BY <1>4, <1>6 DEF NetworkStep, Tick, AdvanceEpoch, UpdateNetworkConfig, DeactivateService,
                    vars, proposalVars
<1>7. QED
  BY <1>1, <1>2, <1>3, <1>5, <1>6 DEF Next, PositionStep, NetworkStep

-----------------------------------------------------------------------------
LEMMA InitTypeOK == Init => TypeOK /\ ProposalsMade
<1> SUFFICES ASSUME Init PROVE TypeOK /\ ProposalsMade
  OBVIOUS
<1>1. TypeOK
  BY WidthAssumption, ConfigAssumption
     DEF Init, TypeOK, U64, U32, PerTicket, PerAllocation, AllocationStatus
<1>2. ProposalsMade
  BY DEF Init, ProposalsMade, Proposed, ProposalIds
<1>3. QED
  BY <1>1, <1>2

LEMMA TypeOKStep ==
    ASSUME TypeOK, ProposalsMade, [Next]_vars
    PROVE  TypeOK'
<1>1. ASSUME NEW p \in ProposalIds, NEW P \in SUBSET Validators, NEW Q \in SUBSET Validators,
             FinalizeSlash(p, P, Q)
      PROVE  TypeOK'
  <2>1. proposal_service[p] \in Services
    BY <1>1 DEF FinalizeSlash, FinalizeAccepted, ProposalsMade, Proposed
  <2>2. QED
    BY <1>1, <2>1, FinalizeTypeOK
<1>2. CASE UNCHANGED vars
  BY <1>2 DEF TypeOK, vars, networkVars, depositVars, exposureVars, ticketVars, serviceVars,
              allocationVars, proposalVars, tokenVars
<1>3. QED
  BY <1>1, <1>2, DepositTypeOK, RequestTypeOK, CompleteTypeOK, AllocateTypeOK,
     DeallocateTypeOK, ProposeTypeOK, VetoTypeOK, RebalanceTypeOK, TickTypeOK,
     AdvanceEpochTypeOK, AdminTypeOK DEF Next

(***************************************************************************)
(* Every account field keeps the type its Rust struct gives it: no         *)
(* instruction writes a value its integer cannot hold.  The guards that    *)
(* stand for the checked_add and checked_sub calls, the saturating         *)
(* subtractions and the unwrap_or(0) of the degree are enough, and every   *)
(* proposal that was made names a service that is not a base service.      *)
(***************************************************************************)
THEOREM TypeCorrect == Spec => [](TypeOK /\ ProposalsMade)
<1>1. TypeOK /\ ProposalsMade /\ [Next]_vars => (TypeOK /\ ProposalsMade)'
  BY TypeOKStep, ProposalsMadeStep
<1>2. QED
  BY <1>1, InitTypeOK, PTL DEF Spec

-----------------------------------------------------------------------------
\* Deposits

\* Every instruction leaves the open withdrawals of every validator, and what
\* slashes have left of its deposit, within the deposit.
LEMMA DepositBoundsStep ==
    ASSUME TypeOK, ProposalsMade, DepositBounds, [Next]_vars
    PROVE  DepositBounds'
<1>1. ASSUME NEW v \in Validators, NEW n \in Amounts, DepositStake(v, n)
      PROVE  DepositBounds'
  <2>1. PICK net \in Nat :
           /\ stake' = [stake EXCEPT ![v] = @ + net]
           /\ effective_stake' = [effective_stake EXCEPT ![v] = @ + net]
           /\ pending_withdrawal' = ResetOnFirst(pending_withdrawal, v)
    BY <1>1, Widths DEF DepositStake
  <2>2. \A w \in Validators : /\ stake[w] <= stake'[w]
                              /\ effective_stake'[w] <= stake'[w]
    <3>1. \A w \in Validators : stake[w] \in Nat /\ effective_stake[w] \in Nat
      BY Widths DEF TypeOK
    <3>2. \A w \in Validators :
             /\ stake'[w] = IF w = v THEN stake[w] + net ELSE stake[w]
             /\ effective_stake'[w] =
                  IF w = v THEN effective_stake[w] + net ELSE effective_stake[w]
      BY <2>1 DEF TypeOK
    <3>3. QED
      BY <3>1, <3>2 DEF DepositBounds
  <2>3. \A w \in Validators : pending_withdrawal'[w] <= stake[w]
    BY <2>1, WidthAssumption DEF ResetOnFirst, DepositBounds, TypeOK, U64
  <2>4. \A w \in Validators : /\ stake[w] \in Nat /\ stake'[w] \in Nat
                              /\ pending_withdrawal'[w] \in Nat
    BY <2>1, WidthAssumption DEF ResetOnFirst, TypeOK, U64
  <2>5. QED
    BY <2>2, <2>3, <2>4 DEF DepositBounds
<1>2. ASSUME NEW v \in Validators, NEW i \in TicketIds, NEW n \in Amounts,
             RequestWithdrawal(v, i, n)
      PROVE  DepositBounds'
  <2>1. n \in Nat
    BY InputAssumption, Widths
  <2>2. pending_withdrawal[v] + n <= stake[v]
    BY <1>2, <2>1 DEF RequestWithdrawal, WithdrawalAllowed, RemainingStake, TypeOK, U64
  <2>3. /\ pending_withdrawal' = [pending_withdrawal EXCEPT ![v] = @ + n]
        /\ UNCHANGED <<stake, effective_stake>>
    BY <1>2 DEF RequestWithdrawal
  <2>4. QED
    BY <2>2, <2>3 DEF DepositBounds, TypeOK
<1>3. ASSUME NEW v \in Validators, NEW i \in TicketIds, CompleteWithdrawal(v, i)
      PROVE  DepositBounds'
  <2>1. PICK amt \in Nat :
           /\ amt <= stake[v] /\ amt <= pending_withdrawal[v]
           /\ stake' = [stake EXCEPT ![v] = @ - amt]
           /\ effective_stake' =
                [effective_stake EXCEPT ![v] = EffectiveAfterWithdrawal(v, amt)]
           /\ pending_withdrawal' = [pending_withdrawal EXCEPT ![v] = @ - amt]
    BY <1>3, Widths DEF CompleteWithdrawal, TypeOK, PerTicket
  <2>2. EffectiveAfterWithdrawal(v, amt) <= stake[v] - amt
    BY <2>1 DEF EffectiveAfterWithdrawal, Least, TypeOK, U64
  <2>3. QED
    BY <2>1, <2>2 DEF DepositBounds, TypeOK, U64
<1>4. ASSUME NEW p \in ProposalIds, NEW P \in SUBSET Validators, NEW Q \in SUBSET Validators,
             FinalizeSlash(p, P, Q)
      PROVE  DepositBounds'
  <2> DEFINE s == proposal_service[p]
  <2>1. s \in Services
    BY <1>4 DEF FinalizeSlash, FinalizeAccepted, ProposalsMade
  <2>2. PICK charged \in SUBSET Validators :
           /\ effective_stake' = [v \in Validators |->
                  IF v \in charged THEN SlashedStake(v, s) ELSE effective_stake[v]]
           /\ UNCHANGED <<stake, pending_withdrawal>>
    BY <1>4 DEF FinalizeSlash
  <2>3. \A v \in Validators : /\ SlashedStake(v, s) \in Nat
                              /\ SlashedStake(v, s) <= effective_stake[v]
    BY <2>1, SatSubBounds, Widths DEF SlashedStake, TypeOK, PerAllocation
  <2>4. QED
    BY <2>2, <2>3 DEF DepositBounds, TypeOK, U64
<1>5. ASSUME UNCHANGED depositVars
      PROVE  DepositBounds'
  BY <1>5 DEF depositVars, DepositBounds
<1>6. ASSUME NEW v \in Validators, NEW s \in Services, NEW n \in Amounts,
             AllocateStake(v, s, n) \/ DeallocateStake(v, s, n)
      PROVE  DepositBounds'
  BY <1>5, <1>6 DEF AllocateStake, DeallocateStake
<1>7. ASSUME NEW v \in Validators, NEW pairing, RebalanceAllocations(v, pairing)
      PROVE  DepositBounds'
  BY <1>5, <1>7 DEF RebalanceAllocations
<1>8. CASE (\E s \in Services : ProposeSlash(s)) \/ (\E p \in ProposalIds : VetoSlash(p))
  BY <1>5, <1>8 DEF ProposeSlash, VetoSlash
<1>9. CASE NetworkStep \/ UNCHANGED vars
  BY <1>5, <1>9 DEF NetworkStep, Tick, AdvanceEpoch, UpdateNetworkConfig, DeactivateService,
                    vars
<1>10. QED
  BY <1>1, <1>2, <1>3, <1>4, <1>6, <1>7, <1>8, <1>9 DEF Next, NetworkStep

(***************************************************************************)
(* A matured ticket can always be subtracted from the stake it was         *)
(* requested against (the checked_sub calls of complete_withdrawal.rs do   *)
(* not fail on it), and effective stake never exceeds the deposit, through *)
(* any interleaving of deposits, withdrawals and slashes.                  *)
(***************************************************************************)
THEOREM DepositsBounded == Spec => []DepositBounds
<1>1. Init => DepositBounds
  BY DEF Init, DepositBounds
<1>2. TypeOK /\ ProposalsMade /\ DepositBounds /\ [Next]_vars => DepositBounds'
  BY DepositBoundsStep
<1>3. QED
  BY <1>1, <1>2, TypeCorrect, PTL DEF Spec

-----------------------------------------------------------------------------
\* Slashes

\* Only the settlement of a proposal changes what is settled, and only a
\* finalization changes what is slashed.
LEMMA GovernanceFrame ==
    ASSUME PositionStep \/ NetworkStep \/ UNCHANGED vars
    PROVE  UNCHANGED <<proposal_service, vetoed, finalized, total_slashed, slashed>>
<1>1. \A v \in Validators, n \in Amounts :
         DepositStake(v, n) => UNCHANGED <<proposalVars, slashed>>
  BY DEF DepositStake, serviceVars
<1>2. \A v \in Validators, i \in TicketIds, n \in Amounts :
         RequestWithdrawal(v, i, n) => UNCHANGED <<proposalVars, slashed>>
  BY DEF RequestWithdrawal, serviceVars
<1>3. \A v \in Validators, i \in TicketIds :
         CompleteWithdrawal(v, i) => UNCHANGED <<proposalVars, slashed>>
  BY DEF CompleteWithdrawal, serviceVars
<1>4. \A v \in Validators, s \in Services, n \in Amounts :
         AllocateStake(v, s, n) \/ DeallocateStake(v, s, n)
            => UNCHANGED <<proposalVars, slashed>>
  BY DEF AllocateStake, DeallocateStake
<1>5. \A v \in Validators, pairing \in Pairings :
         RebalanceAllocations(v, pairing) => UNCHANGED <<proposalVars, slashed>>
  BY DEF RebalanceAllocations
<1>6. PositionStep => UNCHANGED <<proposalVars, slashed>>
  BY <1>1, <1>2, <1>3, <1>4, <1>5 DEF PositionStep
<1>7. NetworkStep \/ UNCHANGED vars
         => UNCHANGED <<proposal_service, vetoed, finalized, total_slashed, slashed>>
  BY DEF NetworkStep, Tick, AdvanceEpoch, UpdateNetworkConfig, DeactivateService, vars,
         proposalVars, serviceVars
<1>8. QED
  BY <1>6, <1>7 DEF proposalVars

LEMMA SlashJustifiedStep ==
    ASSUME TypeOK, ProposalsMade, SlashJustified, [Next]_vars
    PROVE  SlashJustified'
<1>1. ASSUME NEW s \in Services, ProposeSlash(s)
      PROVE  SlashJustified'
  <2>1. /\ proposal_service' = [proposal_service EXCEPT ![slash_proposal_count] = s]
        /\ slash_proposal_count \notin finalized
        /\ UNCHANGED <<slashed, vetoed, finalized, total_slashed>>
    BY <1>1 DEF ProposeSlash, ProposalsMade, Proposed, serviceVars, TypeOK
  <2>2. \A p \in finalized : proposal_service'[p] = proposal_service[p]
    BY <2>1 DEF TypeOK
  <2>3. QED
    BY <2>1, <2>2 DEF SlashJustified, Hit
<1>2. ASSUME NEW p \in ProposalIds, VetoSlash(p)
      PROVE  SlashJustified'
  BY <1>2 DEF VetoSlash, Unsettled, SlashJustified, Hit, serviceVars
<1>3. ASSUME NEW p \in ProposalIds, NEW P \in SUBSET Validators, NEW Q \in SUBSET Validators,
             FinalizeSlash(p, P, Q)
      PROVE  SlashJustified'
  <2>1. PICK total :
           /\ p \in Proposed /\ p \notin vetoed /\ p \notin finalized
           /\ finalized' = finalized \cup {p}
           /\ slashed' = slashed \cup {proposal_service[p]}
           /\ total_slashed' = [total_slashed EXCEPT ![p] = total]
           /\ UNCHANGED <<proposal_service, vetoed>>
    BY <1>3 DEF FinalizeSlash, FinalizeAccepted, Unsettled
  <2>2. proposal_service[p] \in Services \ BaseServices
    BY <2>1 DEF ProposalsMade
  <2>3. QED
    BY <2>1, <2>2 DEF SlashJustified, Hit, TypeOK
<1>4. CASE PositionStep \/ NetworkStep \/ UNCHANGED vars
  BY <1>4, GovernanceFrame DEF SlashJustified, Hit
<1>5. QED
  BY <1>1, <1>2, <1>3, <1>4 DEF Next, PositionStep, NetworkStep

(***************************************************************************)
(* A slash always has its proposal: the service was not a base service,    *)
(* nobody vetoed the proposal, and a vetoed or open proposal never takes   *)
(* anything, however many of them are open against the service.            *)
(***************************************************************************)
THEOREM SlashesJustified == Spec => []SlashJustified
<1>1. Init => SlashJustified
  BY DEF Init, SlashJustified
<1>2. TypeOK /\ ProposalsMade /\ SlashJustified /\ [Next]_vars => SlashJustified'
  BY SlashJustifiedStep
<1>3. QED
  BY <1>1, <1>2, TypeCorrect, PTL DEF Spec

LEMMA SlashedServiceFrozenStep ==
    ASSUME TypeOK, ProposalsMade, SlashedServiceFrozen, [Next]_vars
    PROVE  SlashedServiceFrozen'
<1>1. ASSUME NEW v \in Validators, NEW s \in Services, NEW n \in Amounts,
             AllocateStake(v, s, n)
      PROVE  SlashedServiceFrozen'
  BY <1>1 DEF AllocateStake, AllocationAccepted, SlashedServiceFrozen, TypeOK
<1>2. ASSUME NEW v \in Validators, NEW s \in Services, NEW n \in Amounts,
             DeallocateStake(v, s, n)
      PROVE  SlashedServiceFrozen'
  <2>1. n \in Nat /\ n > 0 /\ n <= service_allocated[s]
    BY <1>2, InputAssumption, Widths DEF DeallocateStake, DeallocationAccepted
  <2>2. s \notin slashed
    BY <2>1 DEF SlashedServiceFrozen
  <2>3. QED
    BY <1>2, <2>2 DEF DeallocateStake, SlashedServiceFrozen, TypeOK
<1>3. ASSUME NEW p \in ProposalIds, NEW P \in SUBSET Validators, NEW Q \in SUBSET Validators,
             FinalizeSlash(p, P, Q)
      PROVE  SlashedServiceFrozen'
  <2>1. PICK s \in Services :
           /\ slashed' = slashed \cup {s}
           /\ active' = active \ {s}
           /\ service_allocated' = [service_allocated EXCEPT ![s] = 0]
           /\ service_effective' = [service_effective EXCEPT ![s] = 0]
    BY <1>3 DEF FinalizeSlash, FinalizeAccepted, ProposalsMade
  <2>2. QED
    BY <2>1 DEF SlashedServiceFrozen, TypeOK
<1>4. ASSUME NEW v \in Validators, NEW pairing, RebalanceAllocations(v, pairing)
      PROVE  SlashedServiceFrozen'
  <2>1. PICK charged \in [Services -> U64] :
           /\ service_effective' = [t \in Services |-> SatSub(service_effective[t], charged[t])]
           /\ UNCHANGED <<active, slashed, service_allocated>>
    BY <1>4 DEF RebalanceAllocations
  <2>2. \A t \in Services : SatSub(0, charged[t]) = 0
    <3>1. \A t \in Services : charged[t] \in Nat
      BY <2>1, Widths
    <3>2. \A n \in Nat : SatSub(0, n) = 0
      BY DEF SatSub
    <3>3. QED
      BY <3>1, <3>2
  <2>3. QED
    BY <2>1, <2>2 DEF SlashedServiceFrozen, TypeOK
<1>5. ASSUME UNCHANGED serviceVars
      PROVE  SlashedServiceFrozen'
  BY <1>5 DEF serviceVars, SlashedServiceFrozen
<1>6. ASSUME NEW v \in Validators, NEW i \in TicketIds,
             CompleteWithdrawal(v, i) \/ \E n \in Amounts : RequestWithdrawal(v, i, n)
      PROVE  SlashedServiceFrozen'
  BY <1>5, <1>6 DEF CompleteWithdrawal, RequestWithdrawal
<1>7. ASSUME NEW v \in Validators, NEW n \in Amounts, DepositStake(v, n)
      PROVE  SlashedServiceFrozen'
  BY <1>5, <1>7 DEF DepositStake
<1>8. CASE (\E s \in Services : ProposeSlash(s)) \/ (\E p \in ProposalIds : VetoSlash(p))
  BY <1>5, <1>8 DEF ProposeSlash, VetoSlash
<1>9. ASSUME NEW s \in Services, DeactivateService(s)
      PROVE  SlashedServiceFrozen'
  BY <1>9 DEF DeactivateService, SlashedServiceFrozen
<1>10. CASE Tick \/ AdvanceEpoch \/ (\E c \in Configs : UpdateNetworkConfig(c)) \/ UNCHANGED vars
  BY <1>5, <1>10 DEF Tick, AdvanceEpoch, UpdateNetworkConfig, vars
<1>11. QED
  BY <1>1, <1>2, <1>3, <1>4, <1>6, <1>7, <1>8, <1>9, <1>10 DEF Next

(***************************************************************************)
(* Once slashed, a service is out for good: no allocation, deallocation    *)
(* or rebalance gives it stake again, and no withdrawal of a delegation    *)
(* wraps its totals below zero.                                            *)
(***************************************************************************)
THEOREM SlashedServicesFrozen == Spec => []SlashedServiceFrozen
<1>1. Init => SlashedServiceFrozen
  BY DEF Init, SlashedServiceFrozen
<1>2. TypeOK /\ ProposalsMade /\ SlashedServiceFrozen /\ [Next]_vars => SlashedServiceFrozen'
  BY SlashedServiceFrozenStep
<1>3. QED
  BY <1>1, <1>2, TypeCorrect, PTL DEF Spec

-----------------------------------------------------------------------------
\* Allocations

\* A saturating subtraction does not pass the bound of a checked one.
LEMMA SatSubMonotone ==
    ASSUME NEW a \in Nat, NEW b \in Nat, NEW n \in Nat, b <= a, n <= a
    PROVE  SatSub(b, n) <= a - n
BY DEF SatSub

\* The stretch is at most either of its sides.
LEMMA LeastBounds ==
    ASSUME NEW a \in Nat, NEW b \in Nat
    PROVE  Least(a, b) \in Nat /\ Least(a, b) <= a /\ Least(a, b) <= b
BY DEF Least

LEMMA AllocationShapeStep ==
    ASSUME TypeOK, ProposalsMade, AllocationShape, [Next]_vars
    PROVE  AllocationShape'
<1> DEFINE Closed == {"None", "Deactivating", "Inactive"}
<1>t. \A v \in Validators, s \in Services :
         /\ amount[v][s] \in Nat /\ effective_amount[v][s] \in Nat
         /\ effective_stake[v] \in Nat
  <2>1. \A v \in Validators, s \in Services :
           /\ amount[v][s] \in U64 /\ effective_amount[v][s] \in U64
           /\ effective_stake[v] \in U64
    BY DEF TypeOK, PerAllocation
  <2>2. QED
    BY <2>1, Widths
<1>1. ASSUME NEW v \in Validators, NEW s \in Services, NEW n \in Amounts,
             AllocateStake(v, s, n)
      PROVE  AllocationShape'
  <2>1. /\ status' = [status EXCEPT ![v][s] = IF TakesSlot(v, s) THEN "Pending" ELSE @]
        /\ status[v][s] # "Deactivating"
        /\ amount' = [amount EXCEPT ![v][s] = @ + n]
        /\ effective_amount' = [effective_amount EXCEPT ![v][s] = amount[v][s] + n]
        /\ slashed' = slashed
    BY <1>1 DEF AllocateStake, AllocationAccepted
  <2>2. status'[v][s] \notin Closed /\ amount'[v][s] = effective_amount'[v][s]
    BY <2>1 DEF TakesSlot, TypeOK, PerAllocation, AllocationStatus
  <2>3. amount'[v][s] \in Nat
    <3>1. n \in Nat
      BY InputAssumption, Widths
    <3>2. QED
      BY <1>t, <2>1, <3>1 DEF TypeOK, PerAllocation
  <2>4. \A w \in Validators, t \in Services :
           w # v \/ t # s => /\ status'[w][t] = status[w][t]
                             /\ amount'[w][t] = amount[w][t]
                             /\ effective_amount'[w][t] = effective_amount[w][t]
    BY <2>1 DEF TypeOK, PerAllocation
  <2>5. QED
    BY <2>1, <2>2, <2>3, <2>4 DEF AllocationShape
<1>2. ASSUME NEW v \in Validators, NEW s \in Services, NEW n \in Amounts,
             DeallocateStake(v, s, n)
      PROVE  AllocationShape'
  <2> DEFINE rest == amount[v][s] - n
  <2>1. /\ status[v][s] \in {"Pending", "Active"}
        /\ n <= amount[v][s]
        /\ status' = [status EXCEPT ![v][s] = IF rest = 0 THEN "Deactivating" ELSE @]
        /\ amount' = [amount EXCEPT ![v][s] = rest]
        /\ effective_amount' = [effective_amount EXCEPT ![v][s] = Least(rest, effective_stake[v])]
        /\ slashed' = slashed
    BY <1>2 DEF DeallocateStake, DeallocationAccepted
  <2>2. rest \in Nat
    BY <1>t, <2>1, InputAssumption, Widths
  <2>3. /\ amount'[v][s] = rest
        /\ effective_amount'[v][s] <= rest
        /\ status'[v][s] = (IF rest = 0 THEN "Deactivating" ELSE status[v][s])
    BY <1>t, <2>1, <2>2, LeastBounds DEF TypeOK, PerAllocation
  <2>4. \A w \in Validators, t \in Services :
           w # v \/ t # s => /\ status'[w][t] = status[w][t]
                             /\ amount'[w][t] = amount[w][t]
                             /\ effective_amount'[w][t] = effective_amount[w][t]
    BY <2>1 DEF TypeOK, PerAllocation
  <2>5. QED
    BY <2>1, <2>3, <2>4 DEF AllocationShape
<1>3. ASSUME NEW p \in ProposalIds, NEW P \in SUBSET Validators, NEW Q \in SUBSET Validators,
             FinalizeSlash(p, P, Q)
      PROVE  AllocationShape'
  <2>1. PICK s \in Services, hit \in SUBSET Validators :
           /\ status' = Wipe(status, hit, s, "Inactive")
           /\ amount' = Wipe(amount, hit, s, 0)
           /\ effective_amount' = Wipe(effective_amount, hit, s, 0)
           /\ slashed' = slashed \cup {s}
    BY <1>3 DEF FinalizeSlash, FinalizeAccepted, ProposalsMade
  <2>2. QED
    BY <2>1 DEF Wipe, AllocationShape
<1>4. ASSUME NEW v \in Validators, NEW pairing, RebalanceAllocations(v, pairing)
      PROVE  AllocationShape'
  <2>1. PICK touched \in SUBSET Services :
           /\ effective_amount' = [effective_amount EXCEPT ![v] =
                  [s \in Services |-> IF s \in touched THEN Stretched(v, s) ELSE @[s]]]
           /\ UNCHANGED <<status, amount, slashed>>
    <3>1. /\ effective_amount' = [effective_amount EXCEPT ![v] =
                [s \in Services |->
                   IF s \in {t \in DOMAIN pairing : status[v][t] # "Inactive"}
                     THEN Stretched(v, s) ELSE @[s]]]
          /\ UNCHANGED <<status, amount, slashed>>
      BY <1>4 DEF RebalanceAllocations
    <3>2. WITNESS Services \cap {t \in DOMAIN pairing : status[v][t] # "Inactive"}
                    \in SUBSET Services
    <3>3. QED
      BY <3>1
  <2>2. \A s \in Services : Stretched(v, s) <= amount[v][s]
    BY <1>t, LeastBounds DEF Stretched
  <2>3. QED
    BY <2>1, <2>2 DEF AllocationShape, TypeOK, PerAllocation
<1>5. ASSUME UNCHANGED <<allocationVars, slashed>>
      PROVE  AllocationShape'
  BY <1>5 DEF allocationVars, AllocationShape
<1>6. ASSUME NEW v \in Validators, NEW i \in TicketIds,
             CompleteWithdrawal(v, i) \/ \E n \in Amounts : RequestWithdrawal(v, i, n)
      PROVE  AllocationShape'
  BY <1>5, <1>6 DEF CompleteWithdrawal, RequestWithdrawal, serviceVars
<1>7. ASSUME NEW v \in Validators, NEW n \in Amounts, DepositStake(v, n)
      PROVE  AllocationShape'
  BY <1>5, <1>7 DEF DepositStake, serviceVars
<1>8. CASE (\E s \in Services : ProposeSlash(s)) \/ (\E p \in ProposalIds : VetoSlash(p))
  BY <1>5, <1>8 DEF ProposeSlash, VetoSlash, serviceVars
<1>9. CASE NetworkStep \/ UNCHANGED vars
  BY <1>5, <1>9 DEF NetworkStep, Tick, AdvanceEpoch, UpdateNetworkConfig, DeactivateService,
                    vars, serviceVars
<1>10. QED
  BY <1>1, <1>2, <1>3, <1>4, <1>6, <1>7, <1>8, <1>9 DEF Next, NetworkStep

(***************************************************************************)
(* An allocation that was closed or slashed holds nothing that a later     *)
(* slash or rebalance could count again, and none is ever worth more than  *)
(* its nominal amount.                                                     *)
(***************************************************************************)
THEOREM AllocationsShaped == Spec => []AllocationShape
<1>1. Init => AllocationShape
  BY DEF Init, AllocationShape
<1>2. TypeOK /\ ProposalsMade /\ AllocationShape /\ [Next]_vars => AllocationShape'
  BY AllocationShapeStep
<1>3. QED
  BY <1>1, <1>2, TypeCorrect, PTL DEF Spec

-----------------------------------------------------------------------------
\* Steps

LEMMA SettledIsFinalStep ==
    ASSUME TypeOK, ProposalsMade, [Next]_vars
    PROVE  /\ vetoed \subseteq vetoed' /\ finalized \subseteq finalized'
           /\ slashed \subseteq slashed'
           /\ \A p \in vetoed \cup finalized : total_slashed'[p] = total_slashed[p]
           /\ \A v \in Validators, s \in slashed : amount'[v][s] <= amount[v][s]
<1> DEFINE Final == /\ vetoed \subseteq vetoed' /\ finalized \subseteq finalized'
                    /\ slashed \subseteq slashed'
                    /\ \A p \in vetoed \cup finalized : total_slashed'[p] = total_slashed[p]
           NoGrowth == \A v \in Validators, s \in slashed : amount'[v][s] <= amount[v][s]
<1>t. \A v \in Validators, s \in Services : amount[v][s] \in Nat
  <2>1. \A v \in Validators, s \in Services : amount[v][s] \in U64
    BY DEF TypeOK, PerAllocation
  <2>2. QED
    BY <2>1, Widths
<1>1. Final
  <2>1. ASSUME NEW p \in ProposalIds, NEW P \in SUBSET Validators, NEW Q \in SUBSET Validators,
             FinalizeSlash(p, P, Q)
        PROVE  Final
    <3>1. PICK total :
             /\ p \notin vetoed /\ p \notin finalized
             /\ finalized' = finalized \cup {p}
             /\ slashed' = slashed \cup {proposal_service[p]}
             /\ total_slashed' = [total_slashed EXCEPT ![p] = total]
             /\ vetoed' = vetoed
      BY <2>1 DEF FinalizeSlash, FinalizeAccepted, Unsettled
    <3>2. QED
      BY <3>1 DEF TypeOK
  <2>2. ASSUME NEW p \in ProposalIds, VetoSlash(p)
        PROVE  Final
    BY <2>2 DEF VetoSlash, serviceVars
  <2>3. ASSUME NEW s \in Services, ProposeSlash(s)
        PROVE  Final
    BY <2>3 DEF ProposeSlash, serviceVars
  <2>4. CASE PositionStep \/ NetworkStep \/ UNCHANGED vars
    BY <2>4, GovernanceFrame
  <2>5. QED
    BY <2>1, <2>2, <2>3, <2>4 DEF Next, PositionStep, NetworkStep
<1>2. NoGrowth
  <2>1. ASSUME NEW v \in Validators, NEW s \in Services, NEW n \in Amounts,
               AllocateStake(v, s, n)
        PROVE  NoGrowth
    <3>1. s \notin slashed /\ amount' = [amount EXCEPT ![v][s] = @ + n]
      BY <2>1 DEF AllocateStake, AllocationAccepted
    <3>2. QED
      BY <1>t, <3>1 DEF TypeOK, PerAllocation
  <2>2. ASSUME NEW v \in Validators, NEW s \in Services, NEW n \in Amounts,
               DeallocateStake(v, s, n)
        PROVE  NoGrowth
    <3>1. amount' = [amount EXCEPT ![v][s] = amount[v][s] - n] /\ n \in Nat
      BY <2>2, InputAssumption, Widths DEF DeallocateStake
    <3>2. QED
      BY <1>t, <3>1 DEF TypeOK, PerAllocation
  <2>3. ASSUME NEW p \in ProposalIds, NEW P \in SUBSET Validators, NEW Q \in SUBSET Validators,
             FinalizeSlash(p, P, Q)
        PROVE  NoGrowth
    <3>1. PICK hit, s : amount' = Wipe(amount, hit, s, 0)
      BY <2>3 DEF FinalizeSlash
    <3>2. QED
      BY <1>t, <3>1 DEF Wipe, TypeOK
  <2>4. ASSUME amount' = amount
        PROVE  NoGrowth
    BY <1>t, <2>4 DEF TypeOK
  <2>5. ASSUME NEW v \in Validators, NEW pairing, RebalanceAllocations(v, pairing)
        PROVE  NoGrowth
    BY <2>4, <2>5 DEF RebalanceAllocations
  <2>6. ASSUME NEW v \in Validators, NEW i \in TicketIds,
               CompleteWithdrawal(v, i) \/ \E n \in Amounts : RequestWithdrawal(v, i, n)
        PROVE  NoGrowth
    BY <2>4, <2>6 DEF CompleteWithdrawal, RequestWithdrawal, allocationVars
  <2>7. ASSUME NEW v \in Validators, NEW n \in Amounts, DepositStake(v, n)
        PROVE  NoGrowth
    BY <2>4, <2>7 DEF DepositStake, allocationVars
  <2>8. CASE (\E s \in Services : ProposeSlash(s)) \/ (\E p \in ProposalIds : VetoSlash(p))
    BY <2>4, <2>8 DEF ProposeSlash, VetoSlash, allocationVars
  <2>9. CASE NetworkStep \/ UNCHANGED vars
    BY <2>4, <2>9 DEF NetworkStep, Tick, AdvanceEpoch, UpdateNetworkConfig, DeactivateService,
                      vars, allocationVars
  <2>10. QED
    BY <2>1, <2>2, <2>3, <2>5, <2>6, <2>7, <2>8, <2>9 DEF Next, NetworkStep
<1>3. QED
  BY <1>1, <1>2

(***************************************************************************)
(* No instruction reopens a settled proposal, rewrites what it took,       *)
(* reinstates a slashed service or grows an allocation to one.             *)
(***************************************************************************)
THEOREM SettlementsFinal == Spec => SettledIsFinal
<1>1. TypeOK /\ ProposalsMade /\ [Next]_vars
        => [/\ vetoed \subseteq vetoed'
            /\ finalized \subseteq finalized'
            /\ slashed \subseteq slashed'
            /\ \A p \in vetoed \cup finalized : total_slashed'[p] = total_slashed[p]
            /\ \A v \in Validators, s \in slashed : amount'[v][s] <= amount[v][s]]_vars
  BY SettledIsFinalStep
<1>2. QED
  BY <1>1, TypeCorrect, PTL DEF Spec, SettledIsFinal

\* Outside deposits, withdrawals and slashes nobody's deposit moves.
LEMMA DepositFrame ==
    ASSUME \/ \E v \in Validators, s \in Services, n \in Amounts :
                 AllocateStake(v, s, n) \/ DeallocateStake(v, s, n)
           \/ \E v \in Validators, pairing \in Pairings : RebalanceAllocations(v, pairing)
           \/ \E v \in Validators, i \in TicketIds, n \in Amounts : RequestWithdrawal(v, i, n)
           \/ \E s \in Services : ProposeSlash(s)
           \/ \E p \in ProposalIds : VetoSlash(p)
           \/ NetworkStep
           \/ UNCHANGED vars
    PROVE  UNCHANGED <<stake, effective_stake, tokenVars>>
<1>1. \A v \in Validators, s \in Services, n \in Amounts :
         AllocateStake(v, s, n) \/ DeallocateStake(v, s, n)
            => UNCHANGED <<stake, effective_stake, tokenVars>>
  BY DEF AllocateStake, DeallocateStake, depositVars
<1>2. \A v \in Validators, pairing \in Pairings :
         RebalanceAllocations(v, pairing) => UNCHANGED <<stake, effective_stake, tokenVars>>
  BY DEF RebalanceAllocations, depositVars
<1>3. \A v \in Validators, i \in TicketIds, n \in Amounts :
         RequestWithdrawal(v, i, n) => UNCHANGED <<stake, effective_stake, tokenVars>>
  BY DEF RequestWithdrawal
<1>4. (\E s \in Services : ProposeSlash(s)) \/ (\E p \in ProposalIds : VetoSlash(p))
         => UNCHANGED <<stake, effective_stake, tokenVars>>
  BY DEF ProposeSlash, VetoSlash, depositVars
<1>5. NetworkStep \/ UNCHANGED vars => UNCHANGED <<stake, effective_stake, tokenVars>>
  BY DEF NetworkStep, Tick, AdvanceEpoch, UpdateNetworkConfig, DeactivateService, vars,
         depositVars
<1>6. QED
  BY <1>1, <1>2, <1>3, <1>4, <1>5

LEMMA SlashIsPermanentStep ==
    ASSUME TypeOK, ProposalsMade, [Next]_vars,
           NEW v \in Validators, effective_stake'[v] > effective_stake[v]
    PROVE  effective_stake'[v] - effective_stake[v] <= stake'[v] - stake[v]
<1>t. \A w \in Validators : stake[w] \in Nat /\ effective_stake[w] \in Nat
  BY Widths DEF TypeOK
<1>1. ASSUME NEW w \in Validators, NEW n \in Amounts, DepositStake(w, n)
      PROVE  effective_stake'[v] - effective_stake[v] <= stake'[v] - stake[v]
  <2>1. PICK net \in Nat :
           /\ stake' = [stake EXCEPT ![w] = @ + net]
           /\ effective_stake' = [effective_stake EXCEPT ![w] = @ + net]
    BY <1>1, Widths DEF DepositStake
  <2>2. CASE v = w
    <3>1. stake'[v] = stake[v] + net /\ effective_stake'[v] = effective_stake[v] + net
      BY <2>1, <2>2 DEF TypeOK
    <3>2. QED
      BY <3>1, <1>t
  <2>3. CASE v # w
    BY <1>t, <2>1, <2>3 DEF TypeOK
  <2>4. QED
    BY <2>2, <2>3
<1>2. ASSUME NEW w \in Validators, NEW i \in TicketIds, CompleteWithdrawal(w, i)
      PROVE  FALSE
  <2>1. PICK amt \in Nat :
           /\ amt <= stake[w]
           /\ effective_stake' =
                [effective_stake EXCEPT ![w] = EffectiveAfterWithdrawal(w, amt)]
    BY <1>2, Widths, ZenonT(40) DEF CompleteWithdrawal, TypeOK, PerTicket
  <2>2. EffectiveAfterWithdrawal(w, amt) <= effective_stake[w]
    <3>1. stake[w] - amt \in Nat
      BY <1>t, <2>1
    <3>2. QED
      BY <1>t, <3>1, LeastBounds DEF EffectiveAfterWithdrawal
  <2>3. EffectiveAfterWithdrawal(w, amt) \in Nat
    BY <1>t, <2>1 DEF EffectiveAfterWithdrawal, Least
  <2>4. QED
    BY <1>t, <2>1, <2>2, <2>3 DEF TypeOK
<1>3. ASSUME NEW p \in ProposalIds, NEW P \in SUBSET Validators, NEW Q \in SUBSET Validators,
             FinalizeSlash(p, P, Q)
      PROVE  FALSE
  <2>1. PICK s \in Services, charged \in SUBSET Validators :
           effective_stake' = [w \in Validators |->
               IF w \in charged THEN SlashedStake(w, s) ELSE effective_stake[w]]
    BY <1>3 DEF FinalizeSlash, FinalizeAccepted, ProposalsMade
  <2>2. effective_amount[v][s] \in Nat
    <3>1. effective_amount[v][s] \in U64
      BY DEF TypeOK, PerAllocation
    <3>2. QED
      BY <3>1, Widths
  <2>3. SlashedStake(v, s) \in Nat /\ SlashedStake(v, s) <= effective_stake[v]
    BY <1>t, <2>2, SatSubBounds DEF SlashedStake
  <2>4. QED
    BY <1>t, <2>1, <2>3
<1>4. ASSUME UNCHANGED <<stake, effective_stake, tokenVars>>
      PROVE  FALSE
  BY <1>t, <1>4
<1>5. QED
  BY <1>1, <1>2, <1>3, <1>4, DepositFrame DEF Next, NetworkStep

(***************************************************************************)
(* No sequence of slashes, withdrawals, rebalances and parameter changes   *)
(* gives effective stake back: only a deposit adds any, and no more than   *)
(* it adds to the stake.                                                   *)
(***************************************************************************)
THEOREM SlashesPermanent == Spec => SlashIsPermanent
<1>1. TypeOK /\ ProposalsMade /\ [Next]_vars
        => [\A v \in Validators : effective_stake'[v] > effective_stake[v]
               => effective_stake'[v] - effective_stake[v] <= stake'[v] - stake[v]]_vars
  BY SlashIsPermanentStep
<1>2. QED
  BY <1>1, TypeCorrect, PTL DEF Spec, SlashIsPermanent

-----------------------------------------------------------------------------
\* The stretch

\* Only the allocation instructions and finalizations write an allocation.
LEMMA AllocationFrame ==
    ASSUME \/ \E v \in Validators, n \in Amounts : DepositStake(v, n)
           \/ \E v \in Validators, i \in TicketIds, n \in Amounts : RequestWithdrawal(v, i, n)
           \/ \E v \in Validators, i \in TicketIds : CompleteWithdrawal(v, i)
           \/ \E s \in Services : ProposeSlash(s)
           \/ \E p \in ProposalIds : VetoSlash(p)
           \/ NetworkStep
           \/ UNCHANGED vars
    PROVE  UNCHANGED <<amount, effective_amount>>
<1>1. \A v \in Validators, n \in Amounts :
         DepositStake(v, n) => UNCHANGED <<amount, effective_amount>>
  BY DEF DepositStake, allocationVars
<1>2. \A v \in Validators, i \in TicketIds, n \in Amounts :
         RequestWithdrawal(v, i, n) => UNCHANGED <<amount, effective_amount>>
  BY DEF RequestWithdrawal, allocationVars
<1>3. \A v \in Validators, i \in TicketIds :
         CompleteWithdrawal(v, i) => UNCHANGED <<amount, effective_amount>>
  BY DEF CompleteWithdrawal, allocationVars
<1>4. (\E s \in Services : ProposeSlash(s)) \/ (\E p \in ProposalIds : VetoSlash(p))
         => UNCHANGED <<amount, effective_amount>>
  BY DEF ProposeSlash, VetoSlash, allocationVars
<1>5. NetworkStep \/ UNCHANGED vars => UNCHANGED <<amount, effective_amount>>
  BY DEF NetworkStep, Tick, AdvanceEpoch, UpdateNetworkConfig, DeactivateService, vars,
         allocationVars
<1>6. QED
  BY <1>1, <1>2, <1>3, <1>4, <1>5

LEMMA StretchOnWriteStep ==
    ASSUME TypeOK, ProposalsMade, [Next]_vars, NEW v \in Validators, NEW s \in Services,
           <<amount'[v][s], effective_amount'[v][s]>> # <<amount[v][s], effective_amount[v][s]>>
    PROVE  effective_amount'[v][s] = Least(amount'[v][s], effective_stake'[v])
<1> DEFINE Written == effective_amount'[v][s] = Least(amount'[v][s], effective_stake'[v])
<1>t. /\ amount[v][s] \in Nat
      /\ \A w \in Validators : effective_stake[w] \in Nat
  <2>1. /\ amount[v][s] \in U64
        /\ \A w \in Validators : effective_stake[w] \in U64
    BY DEF TypeOK, PerAllocation
  <2>2. QED
    BY <2>1, Widths
<1>1. ASSUME NEW w \in Validators, NEW t \in Services, NEW n \in Amounts,
             AllocateStake(w, t, n)
      PROVE  Written
  <2>1. /\ amount[w][t] + n <= effective_stake[w]
        /\ amount' = [amount EXCEPT ![w][t] = @ + n]
        /\ effective_amount' = [effective_amount EXCEPT ![w][t] = amount[w][t] + n]
        /\ effective_stake' = effective_stake
    BY <1>1 DEF AllocateStake, AllocationAccepted, SingleAllocationCap, depositVars
  <2>2. v = w /\ s = t
    BY <2>1 DEF TypeOK, PerAllocation
  <2>3. /\ amount'[v][s] = amount[v][s] + n
        /\ effective_amount'[v][s] = amount[v][s] + n
    BY <2>1, <2>2 DEF TypeOK, PerAllocation
  <2>4. QED
    BY <2>1, <2>2, <2>3 DEF Least
<1>2. ASSUME NEW w \in Validators, NEW t \in Services, NEW n \in Amounts,
             DeallocateStake(w, t, n)
      PROVE  Written
  <2> DEFINE rest == amount[w][t] - n
  <2>1. /\ amount' = [amount EXCEPT ![w][t] = rest]
        /\ effective_amount' =
             [effective_amount EXCEPT ![w][t] = Least(rest, effective_stake[w])]
        /\ effective_stake' = effective_stake
    BY <1>2 DEF DeallocateStake, depositVars
  <2>2. v = w /\ s = t
    BY <2>1 DEF TypeOK, PerAllocation
  <2>3. QED
    BY <2>1, <2>2 DEF TypeOK, PerAllocation
<1>3. ASSUME NEW p \in ProposalIds, NEW P \in SUBSET Validators, NEW Q \in SUBSET Validators,
             FinalizeSlash(p, P, Q)
      PROVE  Written
  <2>1. PICK hit, charged, t :
           /\ amount' = Wipe(amount, hit, t, 0)
           /\ effective_amount' = Wipe(effective_amount, hit, t, 0)
           /\ effective_stake' = [w \in Validators |->
                IF w \in charged THEN SlashedStake(w, t) ELSE effective_stake[w]]
           /\ t \in Services
    BY <1>3 DEF FinalizeSlash, FinalizeAccepted, ProposalsMade
  <2>2. v \in hit /\ s = t
    BY <2>1 DEF Wipe
  <2>3. /\ amount'[v][s] = 0 /\ effective_amount'[v][s] = 0
        /\ effective_stake'[v] \in {SlashedStake(v, s), effective_stake[v]}
    BY <2>1, <2>2 DEF Wipe
  <2>4. SlashedStake(v, s) \in Nat
    <3>1. effective_amount[v][s] \in U64
      BY DEF TypeOK, PerAllocation
    <3>2. effective_amount[v][s] \in Nat
      BY <3>1, Widths
    <3>3. QED
      BY <1>t, <3>2, SatSubBounds DEF SlashedStake
  <2>5. QED
    BY <1>t, <2>3, <2>4 DEF Least
<1>4. ASSUME NEW w \in Validators, NEW pairing, RebalanceAllocations(w, pairing)
      PROVE  Written
  <2>1. /\ effective_amount' = [effective_amount EXCEPT ![w] =
              [t \in Services |->
                 IF t \in {u \in DOMAIN pairing : status[w][u] # "Inactive"}
                   THEN Stretched(w, t) ELSE @[t]]]
        /\ amount' = amount
        /\ effective_stake' = effective_stake
    BY <1>4 DEF RebalanceAllocations, depositVars
  <2>2. effective_amount'[v][s] # effective_amount[v][s]
    BY <2>1
  <2>3. v = w /\ effective_amount'[v][s] = Stretched(v, s)
    BY <2>1, <2>2 DEF TypeOK, PerAllocation
  <2>4. QED
    BY <2>1, <2>3 DEF Stretched
<1>5. QED
  BY <1>1, <1>2, <1>3, <1>4, AllocationFrame DEF Next, NetworkStep

(***************************************************************************)
(* Nobody writes an effective amount by a shortcut: allocating,            *)
(* deallocating, slashing and rebalancing all leave the elastic stretch,   *)
(* the lesser of the nominal amount and the stake behind it.               *)
(***************************************************************************)
THEOREM StretchWritten == Spec => StretchOnWrite
<1>1. TypeOK /\ ProposalsMade /\ [Next]_vars
        => [\A v \in Validators, s \in Services :
               <<amount'[v][s], effective_amount'[v][s]>>
                   # <<amount[v][s], effective_amount[v][s]>>
                  => effective_amount'[v][s] = Least(amount'[v][s], effective_stake'[v])]_vars
  BY StretchOnWriteStep
<1>2. QED
  BY <1>1, TypeCorrect, PTL DEF Spec, StretchOnWrite

LEMMA NoCascadeStep ==
    ASSUME TypeOK, ProposalsMade, [Next]_vars, NEW p \in finalized' \ finalized,
           NEW v \in Validators
    PROVE  /\ effective_stake[v] - effective_stake'[v] <= effective_amount[v][Hit(p)]
           /\ \A t \in Services \ {Hit(p)} :
                 /\ amount'[v][t] = amount[v][t]
                 /\ effective_amount'[v][t] = effective_amount[v][t]
<1>1. PICK q \in ProposalIds, P \in SUBSET Validators, Q \in SUBSET Validators :
         FinalizeSlash(q, P, Q)
  <2>1. ~ (PositionStep \/ NetworkStep \/ UNCHANGED vars)
    BY GovernanceFrame
  <2>2. ~ ((\E s \in Services : ProposeSlash(s)) \/ (\E r \in ProposalIds : VetoSlash(r)))
    BY DEF ProposeSlash, VetoSlash
  <2>3. QED
    BY <2>1, <2>2 DEF Next, PositionStep, NetworkStep
<1>2. p = q
  BY <1>1 DEF FinalizeSlash
<1>3. PICK hit, charged :
         /\ amount' = Wipe(amount, hit, Hit(p), 0)
         /\ effective_amount' = Wipe(effective_amount, hit, Hit(p), 0)
         /\ effective_stake' = [w \in Validators |->
              IF w \in charged THEN SlashedStake(w, Hit(p)) ELSE effective_stake[w]]
  BY <1>1, <1>2 DEF FinalizeSlash, Hit
<1>4. Hit(p) \in Services
  BY <1>1, <1>2 DEF FinalizeSlash, FinalizeAccepted, ProposalsMade, Hit
<1>5. effective_stake[v] \in Nat /\ effective_amount[v][Hit(p)] \in Nat
  <2>1. effective_stake[v] \in U64 /\ effective_amount[v][Hit(p)] \in U64
    BY <1>4 DEF TypeOK, PerAllocation
  <2>2. QED
    BY <2>1, Widths
<1>6. effective_stake[v] - effective_stake'[v] <= effective_amount[v][Hit(p)]
  BY <1>3, <1>5 DEF SlashedStake, SatSub
<1>7. \A t \in Services \ {Hit(p)} : /\ amount'[v][t] = amount[v][t]
                                     /\ effective_amount'[v][t] = effective_amount[v][t]
  BY <1>3 DEF Wipe
<1>8. QED
  BY <1>6, <1>7

(***************************************************************************)
(* A slash does not cascade: whatever else was slashed or rebalanced       *)
(* before, it costs each validator at most the effective amount it had at  *)
(* that service, and none of its other allocations.                        *)
(***************************************************************************)
THEOREM SlashesIsolated == Spec => NoCascade
<1>1. TypeOK /\ ProposalsMade /\ [Next]_vars
        => [\A s \in Services, p \in finalized' \ finalized : Hit(p) = s =>
               \A v \in Validators :
                  /\ effective_stake[v] - effective_stake'[v] <= effective_amount[v][s]
                  /\ \A t \in Services \ {s} :
                        /\ amount'[v][t] = amount[v][t]
                        /\ effective_amount'[v][t] = effective_amount[v][t]]_vars
  BY NoCascadeStep
<1>2. QED
  BY <1>1, TypeCorrect, PTL DEF Spec, NoCascade

-----------------------------------------------------------------------------
\* The vault

LEMMA VaultOutflowStep ==
    ASSUME TypeOK, ProposalsMade, [Next]_vars, stake_vault' < stake_vault
    PROVE  PaidByTicket \/ PaidBySlash
<1>t. /\ stake_vault \in Nat /\ treasury \in Nat
      /\ \A v \in Validators : stake[v] \in Nat
  <2>1. /\ stake_vault \in U64 /\ treasury \in U64
        /\ \A v \in Validators : stake[v] \in U64
    BY DEF TypeOK
  <2>2. QED
    BY <2>1, Widths
<1>1. ASSUME NEW v \in Validators, NEW n \in Amounts, DepositStake(v, n)
      PROVE  FALSE
  <2>1. stake_vault' = stake_vault + n /\ n \in Nat
    BY <1>1, InputAssumption, Widths DEF DepositStake
  <2>2. QED
    BY <1>t, <2>1
<1>2. ASSUME NEW v \in Validators, NEW i \in TicketIds, CompleteWithdrawal(v, i)
      PROVE  PaidByTicket
  <2> DEFINE amt == ticket_amount[v][i]
  <2>1. /\ epochs_waited[v][i] >= config.withdrawal_cooldown_epochs
        /\ amt <= stake_vault
        /\ stake_vault' = stake_vault - amt
        /\ stake' = [stake EXCEPT ![v] = @ - amt]
        /\ ticket_amount' = [ticket_amount EXCEPT ![v][i] = 0]
        /\ treasury' = treasury
    BY <1>2 DEF CompleteWithdrawal, CooldownElapsed
  <2>2. amt \in Nat
    <3>1. amt \in U64
      BY DEF TypeOK, PerTicket
    <3>2. QED
      BY <3>1, Widths
  <2>3. ticket_amount'[v][i] = 0 /\ stake'[v] = stake[v] - amt
    BY <2>1 DEF TypeOK, PerTicket
  <2>4. amt = stake_vault - stake_vault'
    BY <1>t, <2>1, <2>2
  <2>5. QED
    BY <2>1, <2>3, <2>4 DEF PaidByTicket
<1>3. ASSUME NEW p \in ProposalIds, NEW P \in SUBSET Validators, NEW Q \in SUBSET Validators,
             FinalizeSlash(p, P, Q)
      PROVE  PaidBySlash
  <2>1. PICK total \in Nat :
           /\ p \notin vetoed /\ p \notin finalized
           /\ dispute_left[p] = 0
           /\ finalized' = finalized \cup {p}
           /\ total_slashed' = [total_slashed EXCEPT ![p] = total]
           /\ stake_vault' = stake_vault - total
           /\ treasury' = treasury + total
           /\ stake' = stake
    BY <1>3, Widths DEF FinalizeSlash, FinalizeAccepted, Unsettled, DisputeWindowElapsed
  <2>2. total_slashed'[p] = total
    BY <2>1 DEF TypeOK
  <2>3. /\ treasury' - treasury = total
        /\ stake_vault - stake_vault' = total
    BY <1>t, <2>1
  <2>4. QED
    BY <2>1, <2>2, <2>3 DEF PaidBySlash
<1>4. ASSUME UNCHANGED <<stake, effective_stake, tokenVars>>
      PROVE  FALSE
  BY <1>t, <1>4 DEF tokenVars
<1>5. QED
  BY <1>1, <1>2, <1>3, <1>4, DepositFrame DEF Next, NetworkStep

(***************************************************************************)
(* Tokens leave the vault in two ways only: one ticket that waited out the *)
(* cooldown, for its amount, or one unvetoed proposal past its dispute     *)
(* window, for the total its record shows, into the treasury.              *)
(***************************************************************************)
THEOREM VaultGuarded == Spec => VaultOutflow
<1>1. TypeOK /\ ProposalsMade /\ [Next]_vars
        => [stake_vault' < stake_vault => PaidByTicket \/ PaidBySlash]_vars
  BY VaultOutflowStep
<1>2. QED
  BY <1>1, TypeCorrect, PTL DEF Spec, VaultOutflow

-----------------------------------------------------------------------------
\* Accounting

\* The invariants of the accounts a total is taken over.
AccountInvariants == TypeOK /\ ProposalsMade /\ DepositBounds /\ SlashJustified /\ AllocationShape

LEMMA AccountsInvariant == Spec => []AccountInvariants
BY TypeCorrect, DepositsBounded, SlashesJustified, AllocationsShaped, PTL DEF AccountInvariants

LEMMA AmountsNat ==
    ASSUME NEW n \in Amounts
    PROVE  n \in Nat
BY InputAssumption, Widths

-----------------------------------------------------------------------------
\* The open tickets of a validator

\* One ticket written moves the open tickets of its validator alone.
LEMMA TicketWritten ==
    ASSUME TypeOK, NEW v \in Validators, NEW i \in TicketIds, NEW n \in Nat,
           ticket_amount' = [ticket_amount EXCEPT ![v][i] = n]
    PROVE  \A w \in Validators :
              /\ OpenTickets(w) \in Int
              /\ OpenTickets(w)' =
                   OpenTickets(w) + (IF w = v THEN n - ticket_amount[v][i] ELSE 0)
<1>1. \A w \in Validators, j \in TicketIds : ticket_amount[w][j] \in Nat
  <2>1. \A w \in Validators, j \in TicketIds : ticket_amount[w][j] \in U64
    BY DEF TypeOK, PerTicket
  <2>2. QED
    BY <2>1, Widths
<1>2. \A w \in Validators, j \in TicketIds :
         ticket_amount'[w][j] = IF w = v /\ j = i THEN n ELSE ticket_amount[w][j]
  BY DEF TypeOK, PerTicket
<1>3. PICK before, after : before = ticket_amount /\ after = ticket_amount'
  OBVIOUS
<1>4. /\ \A w \in Validators, j \in TicketIds : before[w][j] \in Int /\ after[w][j] \in Int
      /\ \A w \in Validators, j \in TicketIds : w # v \/ j # i => after[w][j] = before[w][j]
  BY <1>1, <1>2, <1>3
<1>5. ASSUME NEW w \in Validators
      PROVE  /\ OpenTickets(w) \in Int
             /\ OpenTickets(w)' =
                  OpenTickets(w) + (IF w = v THEN after[v][i] - before[v][i] ELSE 0)
  <2>1. /\ RowTotal(before, w, TicketIds) \in Int
        /\ RowTotal(after, w, TicketIds) =
             RowTotal(before, w, TicketIds)
               + (IF w = v THEN after[v][i] - before[v][i] ELSE 0)
    BY <1>4, FiniteAssumption, RowWritten
  <2>2. QED
    BY <1>3, <2>1 DEF OpenTickets, RowTotal
<1>6. QED
  BY <1>2, <1>3, <1>5

LEMMA PendingStep ==
    ASSUME TypeOK, DepositBounds, PendingIsOpenTickets, [Next]_vars
    PROVE  PendingIsOpenTickets'
<1>t. \A v \in Validators : /\ pending_withdrawal[v] \in Nat /\ stake[v] \in Nat
                            /\ \A i \in TicketIds : ticket_amount[v][i] \in Nat
  <2>1. \A v \in Validators : /\ pending_withdrawal[v] \in U64 /\ stake[v] \in U64
                              /\ \A i \in TicketIds : ticket_amount[v][i] \in U64
    BY DEF TypeOK, PerTicket
  <2>2. QED
    BY <2>1, Widths
<1>1. ASSUME NEW v \in Validators, NEW n \in Amounts, DepositStake(v, n)
      PROVE  PendingIsOpenTickets'
  <2>1. pending_withdrawal' = ResetOnFirst(pending_withdrawal, v)
        /\ ticket_amount' = ticket_amount
    BY <1>1 DEF DepositStake, ticketVars
  <2>2. stake[v] = 0 => pending_withdrawal[v] = 0
    BY <1>t DEF DepositBounds
  <2>3. pending_withdrawal' = pending_withdrawal
    BY <2>1, <2>2 DEF ResetOnFirst, FirstDeposit, TypeOK
  <2>4. QED
    BY <2>1, <2>3 DEF PendingIsOpenTickets, OpenTickets
<1>2. ASSUME NEW v \in Validators, NEW i \in TicketIds, NEW n \in Amounts,
             RequestWithdrawal(v, i, n)
      PROVE  PendingIsOpenTickets'
  <2>1. /\ ticket_amount[v][i] = 0
        /\ ticket_amount' = [ticket_amount EXCEPT ![v][i] = n]
        /\ pending_withdrawal' = [pending_withdrawal EXCEPT ![v] = @ + n]
    BY <1>2 DEF RequestWithdrawal
  <2>2. n \in Nat
    BY AmountsNat
  <2>3. \A w \in Validators : OpenTickets(w)' = OpenTickets(w) + (IF w = v THEN n - 0 ELSE 0)
                              /\ OpenTickets(w) \in Int
    BY <2>1, <2>2, TicketWritten
  <2>4. \A w \in Validators : pending_withdrawal'[w] =
           IF w = v THEN pending_withdrawal[v] + n ELSE pending_withdrawal[w]
    BY <2>1 DEF TypeOK
  <2>5. QED
    BY <2>2, <2>3, <2>4 DEF PendingIsOpenTickets
<1>3. ASSUME NEW v \in Validators, NEW i \in TicketIds, CompleteWithdrawal(v, i)
      PROVE  PendingIsOpenTickets'
  <2>1. PICK amt \in Nat :
           /\ amt = ticket_amount[v][i]
           /\ ticket_amount' = [ticket_amount EXCEPT ![v][i] = 0]
           /\ pending_withdrawal' = [pending_withdrawal EXCEPT ![v] = @ - amt]
    BY <1>t, <1>3 DEF CompleteWithdrawal
  <2>2. \A w \in Validators : OpenTickets(w)' = OpenTickets(w) + (IF w = v THEN 0 - amt ELSE 0)
                              /\ OpenTickets(w) \in Int
    BY <2>1, TicketWritten, ZenonT(40)
  <2>3. \A w \in Validators : pending_withdrawal'[w] =
           IF w = v THEN pending_withdrawal[v] - amt ELSE pending_withdrawal[w]
    BY <2>1 DEF TypeOK
  <2>4. QED
    BY <2>2, <2>3 DEF PendingIsOpenTickets
<1>4. ASSUME UNCHANGED <<pending_withdrawal, ticket_amount>>
      PROVE  PendingIsOpenTickets'
  BY <1>4 DEF PendingIsOpenTickets, OpenTickets
<1>5. ASSUME NEW v \in Validators, NEW s \in Services, NEW n \in Amounts,
             AllocateStake(v, s, n) \/ DeallocateStake(v, s, n)
      PROVE  PendingIsOpenTickets'
  BY <1>4, <1>5 DEF AllocateStake, DeallocateStake, depositVars, ticketVars
<1>6. ASSUME NEW v \in Validators, NEW pairing, RebalanceAllocations(v, pairing)
      PROVE  PendingIsOpenTickets'
  BY <1>4, <1>6 DEF RebalanceAllocations, depositVars, ticketVars
<1>7. ASSUME NEW p \in ProposalIds, NEW P \in SUBSET Validators, NEW Q \in SUBSET Validators,
             FinalizeSlash(p, P, Q)
      PROVE  PendingIsOpenTickets'
  BY <1>4, <1>7 DEF FinalizeSlash, ticketVars
<1>8. CASE (\E s \in Services : ProposeSlash(s)) \/ (\E p \in ProposalIds : VetoSlash(p))
  BY <1>4, <1>8 DEF ProposeSlash, VetoSlash, depositVars, ticketVars
<1>9. CASE NetworkStep \/ UNCHANGED vars
  BY <1>4, <1>9 DEF NetworkStep, Tick, AdvanceEpoch, UpdateNetworkConfig, DeactivateService,
                    vars, depositVars, ticketVars
<1>10. QED
  BY <1>1, <1>2, <1>3, <1>5, <1>6, <1>7, <1>8, <1>9 DEF Next, NetworkStep

(***************************************************************************)
(* pending_withdrawal (validator_state.rs) is what the open tickets of the *)
(* validator will take, for any number of tickets and whatever their ids:  *)
(* the reset of a re-registration (deposit_stake.rs:102) never forgets an  *)
(* open one, because there is none when the stake is gone.                 *)
(***************************************************************************)
THEOREM TicketsAccounted == Spec => []PendingIsOpenTickets
<1>1. Init => PendingIsOpenTickets
  <2> SUFFICES ASSUME Init, NEW v \in Validators
               PROVE  pending_withdrawal[v] = OpenTickets(v)
    BY DEF PendingIsOpenTickets
  <2> DEFINE none == [i \in TicketIds |-> 0]
  <2>1. pending_withdrawal[v] = 0 /\ [i \in TicketIds |-> ticket_amount[v][i]] = none
    BY DEF Init
  <2>2. SumFunction(none) = 0
    BY FiniteAssumption, TotalZero
  <2>3. QED
    BY <2>1, <2>2, Zenon DEF OpenTickets
<1>2. AccountInvariants /\ PendingIsOpenTickets /\ [Next]_vars => PendingIsOpenTickets'
  BY PendingStep DEF AccountInvariants
<1>3. QED
  BY <1>1, <1>2, AccountsInvariant, PTL DEF Spec

-----------------------------------------------------------------------------
\* The network

\* A deposit or a withdrawal moves the total by what it moves the account.
LEMMA FieldWritten ==
    ASSUME NEW field, NEW v \in Validators, NEW n \in Int,
           field \in [Validators -> U64]
    PROVE  /\ Total(field) \in Int
           /\ Total([field EXCEPT ![v] = n]) = Total(field) + n - field[v]
<1>1. field \in [Validators -> Int]
  <2>1. U64 \subseteq Int
    BY Widths
  <2>2. QED
    BY <2>1
<1>2. QED
  BY <1>1, FiniteAssumption, TotalExcept DEF Total

\* A finalization takes from the validators it hits, together, at most the
\* total it moves to the treasury.
LEMMA SlashTotalBounds ==
    ASSUME TypeOK, NEW s \in Services, NEW hit \in SUBSET Validators,
           NEW charged \in SUBSET hit,
           effective_stake' = [v \in Validators |->
               IF v \in charged THEN SlashedStake(v, s) ELSE effective_stake[v]]
    PROVE  /\ SlashTotal(hit, s) \in Nat
           /\ Total(effective_stake) \in Nat /\ Total(effective_stake)' \in Nat
           /\ Total(effective_stake) <= Total(effective_stake)' + SlashTotal(hit, s)
<1> DEFINE loss  == [v \in Validators |-> IF v \in hit THEN effective_amount[v][s] ELSE 0]
           taken == [v \in hit |-> effective_amount[v][s]]
           back  == [v \in Validators |-> effective_stake'[v] + loss[v]]
<1>1. \A v \in Validators : effective_stake[v] \in Nat /\ effective_amount[v][s] \in Nat
  <2>1. \A v \in Validators : effective_stake[v] \in U64 /\ effective_amount[v][s] \in U64
    BY DEF TypeOK, PerAllocation
  <2>2. QED
    BY <2>1, Widths
<1>2. PICK old, new : old = effective_stake /\ new = effective_stake'
  OBVIOUS
<1>3. /\ old \in [Validators -> Nat]
      /\ new \in [Validators -> Nat]
      /\ \A v \in Validators : old[v] <= new[v] + loss[v]
  <2>1. \A v \in Validators : /\ SlashedStake(v, s) \in Nat
                              /\ effective_stake[v] <= SlashedStake(v, s) + effective_amount[v][s]
    BY <1>1 DEF SlashedStake, SatSub
  <2>2. effective_stake \in [Validators -> Nat]
    BY <1>1 DEF TypeOK
  <2>3. QED
    BY <1>1, <1>2, <2>1, <2>2
<1>4. /\ loss \in [Validators -> Nat] /\ taken \in [hit -> Nat]
      /\ \A v \in hit : loss[v] = taken[v]
      /\ \A v \in Validators \ hit : loss[v] = 0
  BY <1>1
<1>5. /\ back \in [Validators -> Nat]
      /\ \A v \in Validators : back[v] = new[v] + loss[v]
  BY <1>2, <1>3, <1>4
<1> HIDE DEF loss, taken, back
<1>6. \A v \in Validators : old[v] <= back[v]
  BY <1>3, <1>5
<1>7. Nat \subseteq Int
  OBVIOUS
<1>8. SumFunction(loss) = SumFunction(taken)
  BY <1>4, <1>7, FiniteAssumption, TotalPart
<1>9. SumFunction(back) = SumFunction(new) + SumFunction(loss)
  BY <1>3, <1>4, <1>5, <1>7, FiniteAssumption, TotalPlus
<1>10. SumFunction(old) <= SumFunction(back)
  BY <1>3, <1>5, <1>6, <1>7, FiniteAssumption, TotalMonotone
<1>11. SumFunction(old) \in Nat /\ SumFunction(new) \in Nat /\ SumFunction(loss) \in Nat
  BY <1>3, <1>4, FiniteAssumption, TotalNat
<1>12. /\ SlashTotal(hit, s) = SumFunction(loss)
       /\ Total(effective_stake) = SumFunction(old)
       /\ Total(effective_stake)' = SumFunction(new)
  BY <1>2, <1>8, Zenon DEF SlashTotal, Total, taken
<1>13. QED
  BY <1>8, <1>9, <1>10, <1>11, <1>12

LEMMA NetworkTotalsStep ==
    ASSUME TypeOK, ProposalsMade, DepositBounds, NetworkTotals, [Next]_vars
    PROVE  NetworkTotals'
<1>t. /\ total_staked \in Nat /\ total_effective_stake \in Nat
      /\ \A v \in Validators : stake[v] \in Nat /\ effective_stake[v] \in Nat
  <2>1. /\ total_staked \in U64 /\ total_effective_stake \in U64
        /\ \A v \in Validators : stake[v] \in U64 /\ effective_stake[v] \in U64
    BY DEF TypeOK
  <2>2. QED
    BY <2>1, Widths
<1>u. stake \in [Validators -> U64] /\ effective_stake \in [Validators -> U64]
  BY DEF TypeOK
<1>1. ASSUME NEW v \in Validators, NEW n \in Amounts, DepositStake(v, n)
      PROVE  NetworkTotals'
  <2>1. PICK net \in Nat :
           /\ stake' = [stake EXCEPT ![v] = stake[v] + net]
           /\ effective_stake' = [effective_stake EXCEPT ![v] = effective_stake[v] + net]
           /\ total_staked' = total_staked + net
           /\ total_effective_stake' = total_effective_stake + net
    BY <1>1, Widths DEF DepositStake
  <2>2. /\ Total(stake) \in Int /\ Total(effective_stake) \in Int
        /\ Total(stake)' = Total(stake) + (stake[v] + net) - stake[v]
        /\ Total(effective_stake)' =
             Total(effective_stake) + (effective_stake[v] + net) - effective_stake[v]
    <3>1. stake[v] + net \in Int /\ effective_stake[v] + net \in Int
      BY <1>t
    <3>2. QED
      BY <1>u, <2>1, <3>1, FieldWritten DEF Total
  <2>3. stake[v] \in Nat /\ effective_stake[v] \in Nat
    BY <1>t
  <2>4. QED
    BY <1>t, <2>1, <2>2, <2>3 DEF NetworkTotals
<1>2. ASSUME NEW v \in Validators, NEW i \in TicketIds, CompleteWithdrawal(v, i)
      PROVE  NetworkTotals'
  <2>1. PICK amt \in Nat :
           /\ amt <= stake[v] /\ amt <= total_staked
           /\ stake' = [stake EXCEPT ![v] = stake[v] - amt]
           /\ effective_stake' =
                [effective_stake EXCEPT ![v] = EffectiveAfterWithdrawal(v, amt)]
           /\ total_staked' = total_staked - amt
           /\ total_effective_stake' = TotalEffectiveAfterWithdrawal(amt)
    BY <1>2, Widths, ZenonT(40) DEF CompleteWithdrawal, TypeOK, PerTicket
  <2>2. PICK eff \in Nat : /\ eff = EffectiveAfterWithdrawal(v, amt)
                           /\ eff <= effective_stake[v] /\ effective_stake[v] <= eff + amt
    <3>1. effective_stake[v] <= stake[v]
      BY DEF DepositBounds
    <3>2. QED
      BY <1>t, <2>1, <3>1 DEF EffectiveAfterWithdrawal, Least
  <2>3. /\ Total(stake) \in Int /\ Total(effective_stake) \in Int
        /\ Total(stake)' = Total(stake) + (stake[v] - amt) - stake[v]
        /\ Total(effective_stake)' = Total(effective_stake) + eff - effective_stake[v]
    <3>1. stake[v] - amt \in Int /\ eff \in Int
      BY <1>t
    <3>2. QED
      BY <1>u, <2>1, <2>2, <3>1, FieldWritten DEF Total
  <2>4. Total(effective_stake)' \in Nat
    <3>1. effective_stake' \in [Validators -> Nat]
      BY <1>t, <1>u, <2>1, <2>2
    <3>2. PICK new : new = effective_stake'
      OBVIOUS
    <3>3. QED
      BY <3>1, <3>2, FiniteAssumption, TotalNat DEF Total
  <2>5. /\ total_effective_stake' \in Nat
        /\ total_effective_stake' <= total_staked - amt
        /\ total_effective_stake' = 0 \/ total_effective_stake' <= total_effective_stake - amt
    BY <1>t, <2>1 DEF TotalEffectiveAfterWithdrawal, Least, SatSub
  <2>6. stake[v] \in Nat /\ effective_stake[v] \in Nat
    BY <1>t
  <2>7. QED
    BY <1>t, <2>1, <2>2, <2>3, <2>4, <2>5, <2>6 DEF NetworkTotals
<1>3. ASSUME NEW p \in ProposalIds, NEW P \in SUBSET Validators, NEW Q \in SUBSET Validators,
             FinalizeSlash(p, P, Q)
      PROVE  NetworkTotals'
  <2> DEFINE s   == proposal_service[p]
             hit == {v \in P : Slashable(v, s)}
             charged == hit \ Q
  <2>1. s \in Services
    BY <1>3 DEF FinalizeSlash, FinalizeAccepted, ProposalsMade
  <2>2. /\ effective_stake' = [v \in Validators |->
             IF v \in charged THEN SlashedStake(v, s) ELSE effective_stake[v]]
        /\ total_effective_stake' = SatSub(total_effective_stake, SlashTotal(hit, s))
        /\ UNCHANGED <<total_staked, stake>>
    BY <1>3 DEF FinalizeSlash
  <2>3. hit \in SUBSET Validators /\ charged \in SUBSET hit
    OBVIOUS
  <2> HIDE DEF hit, charged, s
  <2>4. /\ SlashTotal(hit, s) \in Nat
        /\ Total(effective_stake) \in Nat /\ Total(effective_stake)' \in Nat
        /\ Total(effective_stake) <= Total(effective_stake)' + SlashTotal(hit, s)
    BY <2>1, <2>2, <2>3, SlashTotalBounds
  <2>5. /\ total_effective_stake' <= Total(effective_stake)'
        /\ total_effective_stake' <= total_effective_stake
    BY <1>t, <2>2, <2>4 DEF NetworkTotals, SatSub
  <2>6. Total(stake)' = Total(stake) /\ total_effective_stake' \in Nat
    BY <1>t, <2>2, <2>4 DEF Total, SatSub
  <2>7. QED
    BY <1>t, <2>2, <2>5, <2>6 DEF NetworkTotals
<1>4. ASSUME UNCHANGED <<total_staked, total_effective_stake, stake, effective_stake>>
      PROVE  NetworkTotals'
  BY <1>4 DEF NetworkTotals, Total
<1>5. ASSUME NEW v \in Validators, NEW s \in Services, NEW n \in Amounts,
             AllocateStake(v, s, n) \/ DeallocateStake(v, s, n)
      PROVE  NetworkTotals'
  BY <1>4, <1>5 DEF AllocateStake, DeallocateStake, depositVars, networkVars
<1>6. ASSUME NEW v \in Validators, NEW pairing, RebalanceAllocations(v, pairing)
      PROVE  NetworkTotals'
  BY <1>4, <1>6 DEF RebalanceAllocations, depositVars, networkVars
<1>7. ASSUME NEW v \in Validators, NEW i \in TicketIds, NEW n \in Amounts,
             RequestWithdrawal(v, i, n)
      PROVE  NetworkTotals'
  BY <1>4, <1>7 DEF RequestWithdrawal, networkVars
<1>8. CASE (\E s \in Services : ProposeSlash(s)) \/ (\E p \in ProposalIds : VetoSlash(p))
  BY <1>4, <1>8 DEF ProposeSlash, VetoSlash, depositVars, networkVars
<1>9. CASE NetworkStep \/ UNCHANGED vars
  BY <1>4, <1>9 DEF NetworkStep, Tick, AdvanceEpoch, UpdateNetworkConfig, DeactivateService,
                    vars, depositVars, networkVars
<1>10. QED
  BY <1>1, <1>2, <1>3, <1>5, <1>6, <1>7, <1>8, <1>9 DEF Next, NetworkStep

LEMMA EmptyTotals ==
    ASSUME NEW D, IsFiniteSet(D)
    PROVE  SumFunction([x \in D |-> 0]) = 0
<1> DEFINE none == [x \in D |-> 0]
<1>1. none \in [D -> Int] /\ \A x \in D : none[x] = 0
  OBVIOUS
<1> HIDE DEF none
<1>2. SumFunction(none) = 0
  BY <1>1, TotalZero
<1>3. QED
  BY <1>2 DEF none

(***************************************************************************)
(* total_staked (network_config.rs) is the sum of the validators' deposits *)
(* and total_effective_stake overstates neither it nor the sum of their    *)
(* effective stakes, for any number of validators: the saturating          *)
(* subtractions of a withdrawal and of a slash never leave on the network  *)
(* what was taken from the validators.                                     *)
(***************************************************************************)
THEOREM NetworkTotalsKept == Spec => []NetworkTotals
<1>1. Init => NetworkTotals
  BY FiniteAssumption, EmptyTotals DEF Init, NetworkTotals, Total
<1>2. AccountInvariants /\ NetworkTotals /\ [Next]_vars => NetworkTotals'
  BY NetworkTotalsStep DEF AccountInvariants
<1>3. QED
  BY <1>1, <1>2, AccountsInvariant, PTL DEF Spec

-----------------------------------------------------------------------------
\* The vault

LEMMA VaultStep ==
    ASSUME TypeOK, ProposalsMade, SlashJustified, VaultConservation, [Next]_vars
    PROVE  VaultConservation'
<1>t. /\ total_staked \in Nat /\ stake_vault \in Nat /\ treasury \in Nat /\ fees \in Nat
  <2>1. total_staked \in U64 /\ stake_vault \in U64 /\ treasury \in U64 /\ fees \in Nat
    BY DEF TypeOK
  <2>2. QED
    BY <2>1, Widths
<1>1. ASSUME NEW v \in Validators, NEW n \in Amounts, DepositStake(v, n)
      PROVE  VaultConservation'
  <2>1. /\ stake_vault' = stake_vault + n
        /\ fees' = fees + DepositFee(n)
        /\ total_staked' = total_staked + (n - DepositFee(n))
        /\ UNCHANGED <<treasury, total_slashed>>
    BY <1>1 DEF DepositStake, NetAmount, proposalVars
  <2>2. n \in Nat /\ DepositFee(n) \in Nat
    <3>1. n \in Nat
      BY AmountsNat
    <3>2. config.deposit_fee_bps \in Nat
      BY Widths DEF TypeOK, ConfigType
    <3>3. QED
      BY <3>1, <3>2, BpsMulNat DEF DepositFee
  <2>3. VaultConservation' <=> /\ treasury = Total(total_slashed)
                               /\ stake_vault' + treasury = total_staked' + fees'
    BY <2>1 DEF VaultConservation, Total
  <2>4. QED
    BY <1>t, <2>1, <2>2, <2>3 DEF VaultConservation
<1>2. ASSUME NEW v \in Validators, NEW i \in TicketIds, CompleteWithdrawal(v, i)
      PROVE  VaultConservation'
  <2>1. PICK amt \in Nat :
           /\ stake_vault' = stake_vault - amt
           /\ total_staked' = total_staked - amt
           /\ treasury' = treasury /\ fees' = fees /\ total_slashed' = total_slashed
    BY <1>2, Widths, ZenonT(40) DEF CompleteWithdrawal, TypeOK, PerTicket, proposalVars
  <2>2. treasury = Total(total_slashed) /\ stake_vault + treasury = total_staked + fees
    BY DEF VaultConservation
  <2>3. stake_vault' + treasury' = total_staked' + fees'
    <3>1. /\ stake_vault' = stake_vault - amt /\ treasury' = treasury
          /\ total_staked' = total_staked - amt /\ fees' = fees
      BY <2>1
    <3>2. stake_vault + treasury = total_staked + fees
      BY <2>2
    <3>3. (stake_vault - amt) + treasury = (total_staked - amt) + fees
      BY <1>t, <3>2
    <3>4. QED
      BY <3>1, <3>3
  <2>4. QED
    BY <2>1, <2>2, <2>3 DEF VaultConservation, Total
<1>3. ASSUME NEW p \in ProposalIds, NEW P \in SUBSET Validators, NEW Q \in SUBSET Validators,
             FinalizeSlash(p, P, Q)
      PROVE  VaultConservation'
  <2>1. PICK total \in Nat :
           /\ p \notin finalized
           /\ total_slashed' = [total_slashed EXCEPT ![p] = total]
           /\ stake_vault' = stake_vault - total
           /\ treasury' = treasury + total
           /\ UNCHANGED <<total_staked, fees>>
    BY <1>3, Widths DEF FinalizeSlash, FinalizeAccepted, Unsettled
  <2>2. total_slashed[p] = 0
    BY <2>1 DEF SlashJustified
  <2>3. total_slashed \in [ProposalIds -> Int] /\ IsFiniteSet(ProposalIds)
    <3>1. U64 \subseteq Int
      BY Widths
    <3>2. total_slashed \in [ProposalIds -> Int]
      BY <3>1 DEF TypeOK
    <3>3. IsFiniteSet(ProposalIds)
      BY WidthAssumption, FS_Interval DEF ProposalIds
    <3>4. QED
      BY <3>2, <3>3
  <2>4. /\ Total(total_slashed) \in Int
        /\ Total(total_slashed)' = Total(total_slashed) + total - 0
    <3>1. PICK record : record = total_slashed
      OBVIOUS
    <3>2. /\ SumFunction(record) \in Int
          /\ SumFunction([record EXCEPT ![p] = total]) = SumFunction(record) + total - record[p]
      <4>1. record \in [ProposalIds -> Int] /\ total \in Int
        BY <2>3, <3>1
      <4>2. QED
        BY <2>3, <4>1, TotalExcept
    <3>3. total_slashed' = [record EXCEPT ![p] = total]
      BY <2>1, <3>1
    <3>4. QED
      BY <2>2, <3>1, <3>2, <3>3 DEF Total
  <2>5. QED
    BY <1>t, <2>1, <2>4 DEF VaultConservation
<1>4. ASSUME UNCHANGED <<total_staked, tokenVars, total_slashed>>
      PROVE  VaultConservation'
  BY <1>4 DEF VaultConservation, Total, tokenVars
<1>5. ASSUME NEW v \in Validators, NEW s \in Services, NEW n \in Amounts,
             AllocateStake(v, s, n) \/ DeallocateStake(v, s, n)
      PROVE  VaultConservation'
  BY <1>4, <1>5 DEF AllocateStake, DeallocateStake, proposalVars, networkVars
<1>6. ASSUME NEW v \in Validators, NEW pairing, RebalanceAllocations(v, pairing)
      PROVE  VaultConservation'
  BY <1>4, <1>6 DEF RebalanceAllocations, proposalVars, networkVars
<1>7. ASSUME NEW v \in Validators, NEW i \in TicketIds, NEW n \in Amounts,
             RequestWithdrawal(v, i, n)
      PROVE  VaultConservation'
  BY <1>4, <1>7 DEF RequestWithdrawal, networkVars, proposalVars
<1>8. CASE (\E s \in Services : ProposeSlash(s)) \/ (\E p \in ProposalIds : VetoSlash(p))
  BY <1>4, <1>8 DEF ProposeSlash, VetoSlash, networkVars
<1>9. CASE NetworkStep \/ UNCHANGED vars
  BY <1>4, <1>9 DEF NetworkStep, Tick, AdvanceEpoch, UpdateNetworkConfig, DeactivateService,
                    vars, networkVars, proposalVars
<1>10. QED
  BY <1>1, <1>2, <1>3, <1>5, <1>6, <1>7, <1>8, <1>9 DEF Next, NetworkStep

(***************************************************************************)
(* No token is created or lost, for any number of validators, proposals    *)
(* and instructions: the vault holds the deposits and the fees less what   *)
(* the slash records add up to, and that is what the treasury holds.       *)
(***************************************************************************)
THEOREM TokensConserved == Spec => []VaultConservation
<1>1. Init => VaultConservation
  <2>1. IsFiniteSet(ProposalIds)
    BY WidthAssumption, FS_Interval DEF ProposalIds
  <2>2. QED
    BY <2>1, EmptyTotals DEF Init, VaultConservation, Total
<1>2. AccountInvariants /\ VaultConservation /\ [Next]_vars => VaultConservation'
  BY VaultStep DEF AccountInvariants
<1>3. QED
  BY <1>1, <1>2, AccountsInvariant, PTL DEF Spec

-----------------------------------------------------------------------------
\* The services and the validators: what the allocations add up to

HoldsSlot == {"Pending", "Inactive"}
Slot(x)   == IF x \in HoldsSlot THEN 1 ELSE 0

\* Facts about the allocations, pointwise.
LEMMA AllocationTypes ==
    ASSUME TypeOK
    PROVE  \A v \in Validators, s \in Services :
              /\ amount[v][s] \in Nat /\ effective_amount[v][s] \in Nat
              /\ total_allocated[v] \in Nat /\ allocation_count[v] \in Nat
              /\ service_allocated[s] \in Nat /\ service_effective[s] \in Nat
              /\ service_validators[s] \in Nat
              /\ status[v][s] \in AllocationStatus
<1>1. \A v \in Validators, s \in Services :
         /\ amount[v][s] \in U64 /\ effective_amount[v][s] \in U64
         /\ total_allocated[v] \in U64 /\ allocation_count[v] \in U32
         /\ service_allocated[s] \in U64 /\ service_effective[s] \in U64
         /\ service_validators[s] \in U32
         /\ status[v][s] \in AllocationStatus
  BY DEF TypeOK, PerAllocation
<1>2. QED
  BY <1>1, Widths

\* An amount written moves the totals of its service and of its validator alone.
LEMMA AmountWritten ==
    ASSUME TypeOK, NEW v \in Validators, NEW s \in Services, NEW n \in Nat,
           amount' = [amount EXCEPT ![v][s] = n]
    PROVE  /\ \A t \in Services :
                 /\ AmountsOn(t) \in Int
                 /\ AmountsOn(t)' = AmountsOn(t) + (IF t = s THEN n - amount[v][s] ELSE 0)
           /\ \A w \in Validators :
                 /\ AmountsOf(w) \in Int
                 /\ AmountsOf(w)' = AmountsOf(w) + (IF w = v THEN n - amount[v][s] ELSE 0)
<1>1. \A w \in Validators, t \in Services : amount[w][t] \in Nat
  BY AllocationTypes
<1>2. \A w \in Validators, t \in Services :
         amount'[w][t] = IF w = v /\ t = s THEN n ELSE amount[w][t]
  BY DEF TypeOK, PerAllocation
<1>3. PICK before, after : before = amount /\ after = amount'
  OBVIOUS
<1>4. /\ \A w \in Validators, t \in Services : before[w][t] \in Int /\ after[w][t] \in Int
      /\ \A w \in Validators, t \in Services : w # v \/ t # s => after[w][t] = before[w][t]
  BY <1>1, <1>2, <1>3
<1>5. ASSUME NEW t \in Services
      PROVE  /\ AmountsOn(t) \in Int
             /\ AmountsOn(t)' =
                  AmountsOn(t) + (IF t = s THEN after[v][s] - before[v][s] ELSE 0)
  <2>1. /\ ColumnTotal(before, Validators, t) \in Int
        /\ ColumnTotal(after, Validators, t) =
             ColumnTotal(before, Validators, t)
               + (IF t = s THEN after[v][s] - before[v][s] ELSE 0)
    BY <1>4, FiniteAssumption, ColumnWritten
  <2>2. QED
    BY <1>3, <2>1 DEF AmountsOn, ColumnTotal
<1>6. ASSUME NEW w \in Validators
      PROVE  /\ AmountsOf(w) \in Int
             /\ AmountsOf(w)' =
                  AmountsOf(w) + (IF w = v THEN after[v][s] - before[v][s] ELSE 0)
  <2>1. /\ RowTotal(before, w, Services) \in Int
        /\ RowTotal(after, w, Services) =
             RowTotal(before, w, Services)
               + (IF w = v THEN after[v][s] - before[v][s] ELSE 0)
    BY <1>4, FiniteAssumption, RowWritten
  <2>2. QED
    BY <1>3, <2>1 DEF AmountsOf, RowTotal
<1>7. QED
  BY <1>2, <1>3, <1>5, <1>6

\* The same of the slots, which are counted.
LEMMA SlotWritten ==
    ASSUME TypeOK, NEW v \in Validators, NEW s \in Services, NEW x \in AllocationStatus,
           status' = [status EXCEPT ![v][s] = x]
    PROVE  /\ \A t \in Services :
                 /\ SlotsOn(t) \in Nat
                 /\ SlotsOn(t)' = SlotsOn(t) + (IF t = s THEN Slot(x) - Slot(status[v][s]) ELSE 0)
           /\ \A w \in Validators :
                 /\ SlotsOf(w) \in Nat
                 /\ SlotsOf(w)' = SlotsOf(w) + (IF w = v THEN Slot(x) - Slot(status[v][s]) ELSE 0)
           /\ status[v][s] \in HoldsSlot => SlotsOn(s) > 0 /\ SlotsOf(v) > 0
<1>1. \A w \in Validators, t \in Services :
         status'[w][t] = IF w = v /\ t = s THEN x ELSE status[w][t]
  BY DEF TypeOK, PerAllocation
<1> DEFINE on(t)   == {w \in Validators : status[w][t] \in HoldsSlot}
           onX(t)  == {w \in Validators : status'[w][t] \in HoldsSlot}
           of(w)   == {t \in Services : status[w][t] \in HoldsSlot}
           ofX(w)  == {t \in Services : status'[w][t] \in HoldsSlot}
<1>2. /\ \A t \in Services : IsFiniteSet(on(t))
      /\ \A w \in Validators : IsFiniteSet(of(w))
  BY FiniteAssumption, FS_Subset
<1>3. /\ \A t \in Services : SlotsOn(t) = Cardinality(on(t)) /\ SlotsOn(t)' = Cardinality(onX(t))
      /\ \A w \in Validators : SlotsOf(w) = Cardinality(of(w)) /\ SlotsOf(w)' = Cardinality(ofX(w))
  BY DEF SlotsOn, SlotsOf, HoldsSlot
<1>4. ASSUME NEW t \in Services
      PROVE  /\ SlotsOn(t) \in Nat
             /\ SlotsOn(t)' = SlotsOn(t) + (IF t = s THEN Slot(x) - Slot(status[v][s]) ELSE 0)
             /\ t = s /\ status[v][s] \in HoldsSlot => SlotsOn(t) > 0
  <2>1. /\ onX(t) \ {v} = on(t) \ {v}
        /\ v \in onX(t) <=> (IF t = s THEN x ELSE status[v][t]) \in HoldsSlot
        /\ v \in on(t) <=> status[v][t] \in HoldsSlot
    BY <1>1
  <2> HIDE DEF on, onX
  <2>2. /\ Cardinality(on(t)) \in Nat
        /\ Cardinality(onX(t)) = Cardinality(on(t)) + (IF v \in onX(t) THEN 1 ELSE 0)
                                                    - (IF v \in on(t) THEN 1 ELSE 0)
        /\ v \in on(t) => Cardinality(on(t)) > 0
    BY <1>2, <2>1, CountUpdate
  <2>3. QED
    BY <1>3, <2>1, <2>2 DEF Slot
<1>5. ASSUME NEW w \in Validators
      PROVE  /\ SlotsOf(w) \in Nat
             /\ SlotsOf(w)' = SlotsOf(w) + (IF w = v THEN Slot(x) - Slot(status[v][s]) ELSE 0)
             /\ w = v /\ status[v][s] \in HoldsSlot => SlotsOf(w) > 0
  <2>1. /\ ofX(w) \ {s} = of(w) \ {s}
        /\ s \in ofX(w) <=> (IF w = v THEN x ELSE status[w][s]) \in HoldsSlot
        /\ s \in of(w) <=> status[w][s] \in HoldsSlot
    BY <1>1
  <2> HIDE DEF of, ofX
  <2>2. /\ Cardinality(of(w)) \in Nat
        /\ Cardinality(ofX(w)) = Cardinality(of(w)) + (IF s \in ofX(w) THEN 1 ELSE 0)
                                                    - (IF s \in of(w) THEN 1 ELSE 0)
        /\ s \in of(w) => Cardinality(of(w)) > 0
    BY <1>2, <2>1, CountUpdate
  <2>3. QED
    BY <1>3, <2>1, <2>2 DEF Slot
<1>6. QED
  BY <1>4, <1>5

(***************************************************************************)
(* No instruction of the program writes AllocationStatus::Active: an       *)
(* allocation stays Pending until it is deallocated or slashed             *)
(* (allocate_stake.rs:112), so that a full deallocation always finds the   *)
(* slot it gives back among those counted.                                 *)
(***************************************************************************)
NoActivation == \A v \in Validators, s \in Services : status[v][s] # "Active"

\* What an allocation does, by whether it takes a slot.
LEMMA AllocateEffects ==
    ASSUME TypeOK, AllocationShape, NoActivation,
           NEW v \in Validators, NEW s \in Services, NEW n \in Amounts, AllocateStake(v, s, n)
    PROVE  \E k \in {0, 1}, x \in {"Pending"} :
              /\ status' = [status EXCEPT ![v][s] = x]
              /\ k = 1 - Slot(status[v][s])
              /\ amount' = [amount EXCEPT ![v][s] = amount[v][s] + n]
              /\ total_allocated' = [total_allocated EXCEPT ![v] = total_allocated[v] + n]
              /\ allocation_count' = [allocation_count EXCEPT ![v] = allocation_count[v] + k]
              /\ service_validators' = [service_validators EXCEPT ![s] = service_validators[s] + k]
              /\ service_allocated' = [service_allocated EXCEPT ![s] = service_allocated[s] + n]
              /\ service_effective' = [service_effective EXCEPT ![s] = service_effective[s] + n]
              /\ slashed' = slashed
<1>1. status[v][s] \in {"None", "Pending"}
  <2>1. status[v][s] \in AllocationStatus /\ status[v][s] # "Active"
    BY AllocationTypes DEF NoActivation
  <2>2. s \notin slashed /\ status[v][s] # "Deactivating"
    BY DEF AllocateStake, AllocationAccepted
  <2>3. status[v][s] # "Inactive"
    BY <2>2 DEF AllocationShape
  <2>4. QED
    BY <2>1, <2>2, <2>3 DEF AllocationStatus
<1>2. status' = [status EXCEPT ![v][s] = "Pending"]
  <2>1. CASE status[v][s] = "None"
    BY <2>1 DEF AllocateStake, TakesSlot
  <2>2. CASE status[v][s] = "Pending"
    <3>1. status' = [status EXCEPT ![v][s] = @]
      BY <2>2 DEF AllocateStake, TakesSlot
    <3>2. QED
      BY <2>2, <3>1
  <2>3. QED
    BY <1>1, <2>1, <2>2
<1> DEFINE k == IF status[v][s] = "None" THEN 1 ELSE 0
<1>3. k = IF TakesSlot(v, s) THEN 1 ELSE 0
  BY <1>1 DEF TakesSlot
<1>4. k \in {0, 1} /\ k = 1 - Slot(status[v][s])
  BY <1>1 DEF Slot, HoldsSlot
<1> HIDE DEF k
<1>5. /\ amount' = [amount EXCEPT ![v][s] = amount[v][s] + n]
      /\ total_allocated' = [total_allocated EXCEPT ![v] = total_allocated[v] + n]
      /\ allocation_count' = [allocation_count EXCEPT ![v] = allocation_count[v] + k]
      /\ service_validators' = [service_validators EXCEPT ![s] = service_validators[s] + k]
      /\ service_allocated' = [service_allocated EXCEPT ![s] = service_allocated[s] + n]
      /\ service_effective' = [service_effective EXCEPT ![s] = service_effective[s] + n]
      /\ slashed' = slashed
  BY <1>3 DEF AllocateStake
<1>6. QED
  BY <1>2, <1>4, <1>5

\* What a deallocation does, by whether something is left of the allocation.
LEMMA DeallocateEffects ==
    ASSUME TypeOK, NoActivation,
           NEW v \in Validators, NEW s \in Services, NEW n \in Amounts, DeallocateStake(v, s, n)
    PROVE  /\ n \in Nat /\ n <= amount[v][s] /\ n <= total_allocated[v] /\ n <= service_allocated[s]
           /\ status[v][s] = "Pending"
           /\ \E k \in {0, 1}, x \in {"Pending", "Deactivating"} :
              /\ status' = [status EXCEPT ![v][s] = x]
              /\ k = 1 - Slot(x)
              /\ amount' = [amount EXCEPT ![v][s] = amount[v][s] - n]
              /\ total_allocated' = [total_allocated EXCEPT ![v] = total_allocated[v] - n]
              /\ allocation_count' = [allocation_count EXCEPT ![v] = SatSub(allocation_count[v], k)]
              /\ service_validators' =
                   [service_validators EXCEPT ![s] = SatSub(service_validators[s], k)]
              /\ service_allocated' = [service_allocated EXCEPT ![s] = service_allocated[s] - n]
              /\ service_effective' =
                   [service_effective EXCEPT ![s] = SatSub(service_effective[s], n)]
              /\ slashed' = slashed
<1>1. status[v][s] = "Pending"
  BY DEF DeallocateStake, DeallocationAccepted, NoActivation
<1>2. n \in Nat
  BY AmountsNat
<1>3. n <= amount[v][s] /\ n <= total_allocated[v] /\ n <= service_allocated[s]
  BY DEF DeallocateStake, DeallocationAccepted
<1> DEFINE k == IF amount[v][s] - n = 0 THEN 1 ELSE 0
           x == IF amount[v][s] - n = 0 THEN "Deactivating" ELSE "Pending"
<1>4. status' = [status EXCEPT ![v][s] = x]
  <2>1. CASE amount[v][s] - n = 0
    BY <2>1 DEF DeallocateStake
  <2>2. CASE amount[v][s] - n # 0
    <3>1. status' = [status EXCEPT ![v][s] = @]
      BY <2>2 DEF DeallocateStake
    <3>2. QED
      BY <1>1, <2>2, <3>1
  <2>3. QED
    BY <2>1, <2>2
<1>5. /\ amount' = [amount EXCEPT ![v][s] = amount[v][s] - n]
      /\ total_allocated' = [total_allocated EXCEPT ![v] = total_allocated[v] - n]
      /\ allocation_count' = [allocation_count EXCEPT ![v] = SatSub(allocation_count[v], k)]
      /\ service_validators' = [service_validators EXCEPT ![s] = SatSub(service_validators[s], k)]
      /\ service_allocated' = [service_allocated EXCEPT ![s] = service_allocated[s] - n]
      /\ service_effective' = [service_effective EXCEPT ![s] = SatSub(service_effective[s], n)]
      /\ slashed' = slashed
  BY DEF DeallocateStake
<1>6. /\ k \in {0, 1} /\ x \in {"Pending", "Deactivating"}
      /\ k = 1 - Slot(x)
  BY DEF Slot, HoldsSlot
<1> HIDE DEF k, x
<1>7. QED
  BY <1>1, <1>2, <1>3, <1>4, <1>5, <1>6

\* The allocations a finalization hits keep their slots: they are Pending, for
\* one that is not, or no more, worth anything is not slashed.
LEMMA SlashEffects ==
    ASSUME TypeOK, ProposalsMade, AllocationShape, NoActivation,
           NEW p \in ProposalIds, NEW P \in SUBSET Validators, NEW Q \in SUBSET Validators,
           FinalizeSlash(p, P, Q)
    PROVE  \E s \in Services, hit \in SUBSET Validators :
              /\ \A v \in Validators, t \in Services :
                    /\ amount'[v][t] = IF v \in hit /\ t = s THEN 0 ELSE amount[v][t]
                    /\ status'[v][t] = IF v \in hit /\ t = s THEN "Inactive" ELSE status[v][t]
              /\ \A v \in hit : status[v][s] = "Pending"
              /\ \A v \in Validators \ Substitutable :
                    total_allocated'[v] =
                      IF v \in hit THEN SatSub(total_allocated[v], amount[v][s])
                                   ELSE total_allocated[v]
              /\ slashed' = slashed \cup {s}
              /\ service_allocated' = [service_allocated EXCEPT ![s] = 0]
              /\ service_effective' = [service_effective EXCEPT ![s] = 0]
              /\ UNCHANGED <<allocation_count, service_validators>>
<1> DEFINE s   == proposal_service[p]
           hit == {v \in P : Slashable(v, s)}
<1>1. s \in Services
  BY DEF FinalizeSlash, FinalizeAccepted, ProposalsMade
<1>2. hit \in SUBSET Validators
  OBVIOUS
<1>3. \A v \in Validators, t \in Services :
         /\ amount'[v][t] = IF v \in hit /\ t = s THEN 0 ELSE amount[v][t]
         /\ status'[v][t] = IF v \in hit /\ t = s THEN "Inactive" ELSE status[v][t]
  BY DEF FinalizeSlash, Wipe
<1>4. ASSUME NEW v \in hit
      PROVE  status[v][s] = "Pending"
  <2>1. /\ v \in Validators
        /\ effective_amount[v][s] \in Nat /\ amount[v][s] \in Nat
        /\ status[v][s] \in AllocationStatus
    BY <1>1, AllocationTypes
  <2>2. status[v][s] # "Inactive" /\ effective_amount[v][s] # 0
    BY DEF Slashable
  <2>3. effective_amount[v][s] <= amount[v][s]
    BY <1>1, <2>1 DEF AllocationShape
  <2>4. amount[v][s] # 0
    BY <2>1, <2>2, <2>3
  <2>5. status[v][s] \notin {"None", "Deactivating"}
    BY <1>1, <2>1, <2>4 DEF AllocationShape
  <2>6. status[v][s] # "Active"
    BY <1>1, <2>1 DEF NoActivation
  <2>7. QED
    BY <2>1, <2>2, <2>5, <2>6 DEF AllocationStatus
<1>5. /\ \A v \in Validators \ Substitutable :
            total_allocated'[v] =
              IF v \in hit THEN SatSub(total_allocated[v], amount[v][s]) ELSE total_allocated[v]
      /\ slashed' = slashed \cup {s}
      /\ service_allocated' = [service_allocated EXCEPT ![s] = 0]
      /\ service_effective' = [service_effective EXCEPT ![s] = 0]
      /\ UNCHANGED <<allocation_count, service_validators>>
  BY DEF FinalizeSlash, PairsAccepted, SlashedExposure
<1> HIDE DEF s, hit
<1>6. QED
  BY <1>1, <1>2, <1>3, <1>4, <1>5

LEMMA NoActivationStep ==
    ASSUME TypeOK, ProposalsMade, AllocationShape, NoActivation, [Next]_vars
    PROVE  NoActivation'
<1>1. ASSUME NEW v \in Validators, NEW s \in Services, NEW x \in AllocationStatus \ {"Active"},
             status' = [status EXCEPT ![v][s] = x]
      PROVE  NoActivation'
  <2>1. \A w \in Validators, t \in Services :
           status'[w][t] = IF w = v /\ t = s THEN x ELSE status[w][t]
    BY <1>1 DEF TypeOK, PerAllocation
  <2>2. QED
    BY <2>1 DEF NoActivation
<1>2. ASSUME NEW v \in Validators, NEW s \in Services, NEW n \in Amounts, AllocateStake(v, s, n)
      PROVE  NoActivation'
  <2>1. status' = [status EXCEPT ![v][s] = "Pending"]
    BY <1>2, AllocateEffects
  <2>2. QED
    BY <1>1, <2>1 DEF AllocationStatus
<1>3. ASSUME NEW v \in Validators, NEW s \in Services, NEW n \in Amounts, DeallocateStake(v, s, n)
      PROVE  NoActivation'
  <2>1. PICK x \in {"Pending", "Deactivating"} : status' = [status EXCEPT ![v][s] = x]
    BY <1>3, DeallocateEffects
  <2>2. QED
    BY <1>1, <2>1 DEF AllocationStatus
<1>4. ASSUME NEW p \in ProposalIds, NEW P \in SUBSET Validators, NEW Q \in SUBSET Validators,
             FinalizeSlash(p, P, Q)
      PROVE  NoActivation'
  <2>1. ASSUME NEW v \in Validators, NEW t \in Services
        PROVE  status'[v][t] = status[v][t] \/ status'[v][t] = "Inactive"
    BY <1>4 DEF FinalizeSlash, Wipe
  <2>2. QED
    BY <2>1 DEF NoActivation
<1>5. ASSUME UNCHANGED status
      PROVE  NoActivation'
  BY <1>5 DEF NoActivation
<1>6. ASSUME NEW v \in Validators, NEW n \in Amounts, DepositStake(v, n)
      PROVE  NoActivation'
  BY <1>5, <1>6 DEF DepositStake, allocationVars
<1>7. ASSUME NEW v \in Validators, NEW i \in TicketIds,
             CompleteWithdrawal(v, i) \/ \E n \in Amounts : RequestWithdrawal(v, i, n)
      PROVE  NoActivation'
  BY <1>5, <1>7 DEF CompleteWithdrawal, RequestWithdrawal, allocationVars
<1>8. ASSUME NEW v \in Validators, NEW pairing, RebalanceAllocations(v, pairing)
      PROVE  NoActivation'
  BY <1>5, <1>8 DEF RebalanceAllocations
<1>9. CASE (\E s \in Services : ProposeSlash(s)) \/ (\E p \in ProposalIds : VetoSlash(p))
  BY <1>5, <1>9 DEF ProposeSlash, VetoSlash, allocationVars
<1>10. CASE NetworkStep \/ UNCHANGED vars
  BY <1>5, <1>10 DEF NetworkStep, Tick, AdvanceEpoch, UpdateNetworkConfig, DeactivateService,
                     vars, allocationVars
<1>11. QED
  BY <1>2, <1>3, <1>4, <1>6, <1>7, <1>8, <1>9, <1>10 DEF Next, NetworkStep

LEMMA NeverActive == Spec => []NoActivation
<1>1. Init => NoActivation
  BY DEF Init, NoActivation
<1>2. AccountInvariants /\ NoActivation /\ [Next]_vars => NoActivation'
  BY NoActivationStep DEF AccountInvariants
<1>3. QED
  BY <1>1, <1>2, AccountsInvariant, PTL DEF Spec

\* Instructions that write no allocation leave the sums over them alone.
LEMMA SumsFrame ==
    ASSUME UNCHANGED <<status, amount>>
    PROVE  /\ \A s \in Services : AmountsOn(s)' = AmountsOn(s) /\ SlotsOn(s)' = SlotsOn(s)
           /\ \A v \in Validators : AmountsOf(v)' = AmountsOf(v) /\ SlotsOf(v)' = SlotsOf(v)
BY DEF AmountsOn, AmountsOf, SlotsOn, SlotsOf

LEMMA ServiceTotalsStep ==
    ASSUME TypeOK, ProposalsMade, AllocationShape, NoActivation, ServiceTotals, [Next]_vars
    PROVE  ServiceTotals'
<1>t. \A s \in Services : /\ service_allocated[s] \in Nat /\ service_effective[s] \in Nat
                          /\ service_validators[s] \in Nat
  <2>1. \A s \in Services : /\ service_allocated[s] \in U64 /\ service_effective[s] \in U64
                            /\ service_validators[s] \in U32
    BY DEF TypeOK
  <2>2. QED
    BY <2>1, Widths
<1>1. ASSUME NEW v \in Validators, NEW s \in Services, NEW n \in Amounts, AllocateStake(v, s, n)
      PROVE  ServiceTotals'
  <2>1. PICK k \in {0, 1}, x \in {"Pending"} :
           /\ status' = [status EXCEPT ![v][s] = x]
           /\ k = 1 - Slot(status[v][s])
           /\ amount' = [amount EXCEPT ![v][s] = amount[v][s] + n]
           /\ service_validators' = [service_validators EXCEPT ![s] = service_validators[s] + k]
           /\ service_allocated' = [service_allocated EXCEPT ![s] = service_allocated[s] + n]
           /\ service_effective' = [service_effective EXCEPT ![s] = service_effective[s] + n]
           /\ slashed' = slashed
    BY <1>1, AllocateEffects
  <2>2. n \in Nat /\ amount[v][s] \in Nat
    BY AmountsNat, AllocationTypes
  <2>3. \A t \in Services :
           AmountsOn(t) \in Int
           /\ AmountsOn(t)' = AmountsOn(t) + (IF t = s THEN (amount[v][s] + n) - amount[v][s] ELSE 0)
    <3>1. amount[v][s] + n \in Nat
      BY <2>2
    <3>2. QED
      BY <2>1, <3>1, AmountWritten, ZenonT(40)
  <2>4. \A t \in Services :
           SlotsOn(t) \in Nat /\ SlotsOn(t)' = SlotsOn(t) + (IF t = s THEN k ELSE 0)
    <3>1. /\ status' = [status EXCEPT ![v][s] = x]
          /\ k = Slot(x) - Slot(status[v][s])
          /\ x \in AllocationStatus
      BY <2>1 DEF Slot, HoldsSlot, AllocationStatus
    <3>2. \A t \in Services :
             /\ SlotsOn(t) \in Nat
             /\ SlotsOn(t)' = SlotsOn(t)
                  + (IF t = s THEN Slot(x) - Slot(status[v][s]) ELSE 0)
      BY <3>1, SlotWritten, ZenonT(40)
    <3>3. QED
      BY <3>1, <3>2
  <2>5. \A t \in Services :
           /\ service_validators'[t] = service_validators[t] + (IF t = s THEN k ELSE 0)
           /\ service_allocated'[t] = service_allocated[t] + (IF t = s THEN n ELSE 0)
           /\ service_effective'[t] = service_effective[t] + (IF t = s THEN n ELSE 0)
    BY <1>t, <2>1 DEF TypeOK
  <2>6. ASSUME NEW t \in Services
        PROVE  /\ t \notin slashed' => service_allocated'[t] = AmountsOn(t)'
               /\ service_effective'[t] <= service_allocated'[t]
               /\ service_validators'[t] = SlotsOn(t)'
    BY <1>t, <2>1, <2>2, <2>3, <2>4, <2>5 DEF ServiceTotals
  <2>7. QED
    BY <2>6 DEF ServiceTotals
<1>2. ASSUME NEW v \in Validators, NEW s \in Services, NEW n \in Amounts, DeallocateStake(v, s, n)
      PROVE  ServiceTotals'
  <2>1. /\ n \in Nat /\ n <= amount[v][s] /\ n <= service_allocated[s]
        /\ status[v][s] = "Pending"
    BY <1>2, DeallocateEffects
  <2>2. PICK k \in {0, 1}, x \in {"Pending", "Deactivating"} :
           /\ status' = [status EXCEPT ![v][s] = x]
           /\ k = 1 - Slot(x)
           /\ amount' = [amount EXCEPT ![v][s] = amount[v][s] - n]
           /\ service_validators' =
                [service_validators EXCEPT ![s] = SatSub(service_validators[s], k)]
           /\ service_allocated' = [service_allocated EXCEPT ![s] = service_allocated[s] - n]
           /\ service_effective' =
                [service_effective EXCEPT ![s] = SatSub(service_effective[s], n)]
           /\ slashed' = slashed
    BY <1>2, DeallocateEffects
  <2>3. amount[v][s] \in Nat
    BY AllocationTypes
  <2>4. \A t \in Services :
           AmountsOn(t) \in Int
           /\ AmountsOn(t)' = AmountsOn(t) + (IF t = s THEN (amount[v][s] - n) - amount[v][s] ELSE 0)
    <3>1. amount[v][s] - n \in Nat
      BY <2>1, <2>3
    <3>2. QED
      BY <2>2, <3>1, AmountWritten, ZenonT(40)
  <2>5. /\ \A t \in Services :
              SlotsOn(t) \in Nat /\ SlotsOn(t)' = SlotsOn(t) + (IF t = s THEN 0 - k ELSE 0)
        /\ SlotsOn(s) > 0
    <3>1. /\ status' = [status EXCEPT ![v][s] = x]
          /\ 0 - k = Slot(x) - Slot(status[v][s])
          /\ x \in AllocationStatus
      BY <2>1, <2>2 DEF Slot, HoldsSlot, AllocationStatus
    <3>2. status[v][s] \in HoldsSlot
      BY <2>1 DEF HoldsSlot
    <3>3. \A t \in Services :
             /\ SlotsOn(t) \in Nat
             /\ SlotsOn(t)' = SlotsOn(t)
                  + (IF t = s THEN Slot(x) - Slot(status[v][s]) ELSE 0)
      BY <3>1, SlotWritten, ZenonT(40)
    <3>4. status[v][s] \in HoldsSlot => SlotsOn(s) > 0
      BY <3>1, SlotWritten
    <3>5. QED
      BY <3>1, <3>2, <3>3, <3>4
  <2>6. \A t \in Services :
           /\ service_validators'[t] =
                (IF t = s THEN SatSub(service_validators[s], k) ELSE service_validators[t])
           /\ service_allocated'[t] = service_allocated[t] - (IF t = s THEN n ELSE 0)
           /\ service_effective'[t] =
                (IF t = s THEN SatSub(service_effective[s], n) ELSE service_effective[t])
    BY <1>t, <2>2 DEF TypeOK
  <2>7. /\ SatSub(service_validators[s], k) = service_validators[s] - k
        /\ SatSub(service_effective[s], n) <= service_allocated[s] - n
    <3>1. service_validators[s] >= k
      BY <1>t, <2>2, <2>5 DEF ServiceTotals
    <3>2. SatSub(service_validators[s], k) = service_validators[s] - k
      BY <1>t, <2>2, <3>1 DEF SatSub
    <3>3. service_effective[s] <= service_allocated[s]
      BY DEF ServiceTotals
    <3>4. SatSub(service_effective[s], n) <= service_allocated[s] - n
      BY <1>t, <2>1, <3>3, SatSubMonotone
    <3>5. QED
      BY <3>2, <3>4
  <2>8. ASSUME NEW t \in Services
        PROVE  /\ t \notin slashed' => service_allocated'[t] = AmountsOn(t)'
               /\ service_effective'[t] <= service_allocated'[t]
               /\ service_validators'[t] = SlotsOn(t)'
    BY <1>t, <2>1, <2>2, <2>3, <2>4, <2>5, <2>6, <2>7 DEF ServiceTotals
  <2>9. QED
    BY <2>8 DEF ServiceTotals
<1>3. ASSUME NEW p \in ProposalIds, NEW P \in SUBSET Validators, NEW Q \in SUBSET Validators,
             FinalizeSlash(p, P, Q)
      PROVE  ServiceTotals'
  <2>1. PICK s \in Services, hit \in SUBSET Validators :
              /\ \A v \in Validators, t \in Services :
                    /\ amount'[v][t] = IF v \in hit /\ t = s THEN 0 ELSE amount[v][t]
                    /\ status'[v][t] = IF v \in hit /\ t = s THEN "Inactive" ELSE status[v][t]
              /\ \A v \in hit : status[v][s] = "Pending"
              /\ slashed' = slashed \cup {s}
              /\ service_allocated' = [service_allocated EXCEPT ![s] = 0]
              /\ service_effective' = [service_effective EXCEPT ![s] = 0]
              /\ service_validators' = service_validators
    BY <1>3, SlashEffects
  <2>2. ASSUME NEW t \in Services
        PROVE  /\ t # s => AmountsOn(t)' = AmountsOn(t)
               /\ SlotsOn(t)' = SlotsOn(t)
    <3>1. ASSUME t # s
          PROVE  AmountsOn(t)' = AmountsOn(t)
      <4>1. [v \in Validators |-> amount'[v][t]] = [v \in Validators |-> amount[v][t]]
        BY <2>1, <3>1
      <4>2. QED
        BY <4>1, Zenon DEF AmountsOn
    <3>2. {v \in Validators : status'[v][t] \in {"Pending", "Inactive"}}
            = {v \in Validators : status[v][t] \in {"Pending", "Inactive"}}
      BY <2>1
    <3>3. QED
      BY <3>1, <3>2, Zenon DEF SlotsOn
  <2>3. \A t \in Services :
           /\ service_allocated'[t] = (IF t = s THEN 0 ELSE service_allocated[t])
           /\ service_effective'[t] = (IF t = s THEN 0 ELSE service_effective[t])
    BY <2>1 DEF TypeOK
  <2>4. ASSUME NEW t \in Services
        PROVE  /\ t \notin slashed' => service_allocated'[t] = AmountsOn(t)'
               /\ service_effective'[t] <= service_allocated'[t]
               /\ service_validators'[t] = SlotsOn(t)'
    BY <1>t, <2>1, <2>2, <2>3 DEF ServiceTotals
  <2>5. QED
    BY <2>4 DEF ServiceTotals
<1>4. ASSUME NEW v \in Validators, NEW pairing, RebalanceAllocations(v, pairing)
      PROVE  ServiceTotals'
  <2>1. UNCHANGED <<status, amount, slashed, service_allocated, service_validators>>
    BY <1>4 DEF RebalanceAllocations
  <2>2. \A t \in Services : service_effective'[t] <= service_effective[t]
                            /\ service_effective'[t] \in Nat
    <3>1. PICK charged \in [Services -> U64] :
             service_effective' = [t \in Services |-> SatSub(service_effective[t], charged[t])]
      BY <1>4 DEF RebalanceAllocations
    <3>2. \A t \in Services : charged[t] \in Nat
      BY <3>1, Widths
    <3>3. QED
      BY <1>t, <3>1, <3>2, SatSubBounds
  <2>3. QED
    BY <1>t, <2>1, <2>2, SumsFrame DEF ServiceTotals
<1>5. ASSUME UNCHANGED <<status, amount, slashed, service_allocated, service_effective,
                         service_validators>>
      PROVE  ServiceTotals'
  BY <1>5, SumsFrame DEF ServiceTotals
<1>6. ASSUME NEW v \in Validators, NEW n \in Amounts, DepositStake(v, n)
      PROVE  ServiceTotals'
  BY <1>5, <1>6 DEF DepositStake, allocationVars, serviceVars
<1>7. ASSUME NEW v \in Validators, NEW i \in TicketIds,
             CompleteWithdrawal(v, i) \/ \E n \in Amounts : RequestWithdrawal(v, i, n)
      PROVE  ServiceTotals'
  BY <1>5, <1>7 DEF CompleteWithdrawal, RequestWithdrawal, allocationVars, serviceVars
<1>8. CASE (\E s \in Services : ProposeSlash(s)) \/ (\E p \in ProposalIds : VetoSlash(p))
  BY <1>5, <1>8 DEF ProposeSlash, VetoSlash, allocationVars, serviceVars
<1>9. CASE NetworkStep \/ UNCHANGED vars
  BY <1>5, <1>9 DEF NetworkStep, Tick, AdvanceEpoch, UpdateNetworkConfig, DeactivateService,
                    vars, allocationVars, serviceVars
<1>10. QED
  BY <1>1, <1>2, <1>3, <1>4, <1>6, <1>7, <1>8, <1>9 DEF Next, NetworkStep

(***************************************************************************)
(* A service that is not slashed records exactly the stake its validators  *)
(* allocated to it, and no more effective stake; its validator_count is    *)
(* the number of slots held, through top-ups, partial and full             *)
(* deallocations, slashes that name only some of its validators, and       *)
(* rebalances that charge it for allocations to other services.            *)
(***************************************************************************)
THEOREM ServicesAccounted == Spec => []ServiceTotals
<1>1. Init => ServiceTotals
  <2> SUFFICES ASSUME Init, NEW s \in Services
               PROVE  /\ service_allocated[s] = AmountsOn(s)
                      /\ service_effective[s] <= service_allocated[s]
                      /\ service_validators[s] = SlotsOn(s)
    BY DEF ServiceTotals
  <2> DEFINE none == [v \in Validators |-> 0]
  <2>1. /\ service_allocated[s] = 0 /\ service_effective[s] = 0 /\ service_validators[s] = 0
        /\ [v \in Validators |-> amount[v][s]] = none
        /\ {v \in Validators : status[v][s] \in {"Pending", "Inactive"}} = {}
    BY DEF Init
  <2>2. SumFunction(none) = 0
    BY FiniteAssumption, TotalZero
  <2>3. AmountsOn(s) = 0
    BY <2>1, <2>2, Zenon DEF AmountsOn
  <2>4. SlotsOn(s) = 0
    BY <2>1, FS_EmptySet, Zenon DEF SlotsOn
  <2>5. QED
    BY <2>1, <2>3, <2>4
<1>2. AccountInvariants /\ NoActivation /\ ServiceTotals /\ [Next]_vars => ServiceTotals'
  BY ServiceTotalsStep DEF AccountInvariants
<1>3. QED
  BY <1>1, <1>2, AccountsInvariant, NeverActive, PTL DEF Spec

LEMMA ExposureBoundsStep ==
    ASSUME TypeOK, ProposalsMade, AllocationShape, NoActivation, ExposureBounds, [Next]_vars
    PROVE  ExposureBounds'
<1>t. \A v \in Validators : total_allocated[v] \in Nat /\ allocation_count[v] \in Nat
  <2>1. \A v \in Validators : total_allocated[v] \in U64 /\ allocation_count[v] \in U32
    BY DEF TypeOK
  <2>2. QED
    BY <2>1, Widths
<1>u. ASSUME NEW v \in Validators
      PROVE  /\ AmountsOf(v) \in Nat
             /\ \A s \in Services : amount[v][s] \in Nat /\ amount[v][s] <= AmountsOf(v)
  <2> DEFINE row == [s \in Services |-> amount[v][s]]
  <2>1. row \in [Services -> Nat] /\ \A s \in Services : row[s] = amount[v][s]
    BY AllocationTypes
  <2> HIDE DEF row
  <2>2. SumFunction(row) \in Nat /\ \A s \in Services : row[s] <= SumFunction(row)
    BY <2>1, FiniteAssumption, TotalNat
  <2>3. AmountsOf(v) = SumFunction(row)
    BY Zenon DEF AmountsOf, row
  <2>4. QED
    BY <2>1, <2>2, <2>3
<1>1. ASSUME NEW v \in Validators, NEW s \in Services, NEW n \in Amounts, AllocateStake(v, s, n)
      PROVE  ExposureBounds'
  <2>1. PICK k \in {0, 1}, x \in {"Pending"} :
           /\ status' = [status EXCEPT ![v][s] = x]
           /\ k = 1 - Slot(status[v][s])
           /\ amount' = [amount EXCEPT ![v][s] = amount[v][s] + n]
           /\ total_allocated' = [total_allocated EXCEPT ![v] = total_allocated[v] + n]
           /\ allocation_count' = [allocation_count EXCEPT ![v] = allocation_count[v] + k]
    BY <1>1, AllocateEffects
  <2>2. n \in Nat /\ amount[v][s] \in Nat
    BY AmountsNat, AllocationTypes
  <2>3. \A w \in Validators :
           AmountsOf(w)' = AmountsOf(w) + (IF w = v THEN (amount[v][s] + n) - amount[v][s] ELSE 0)
    <3>1. amount[v][s] + n \in Nat
      BY <2>2
    <3>2. QED
      BY <2>1, <3>1, AmountWritten
  <2>4. \A w \in Validators :
           SlotsOf(w) \in Nat /\ SlotsOf(w)' = SlotsOf(w) + (IF w = v THEN k ELSE 0)
    <3>1. /\ status' = [status EXCEPT ![v][s] = x]
          /\ k = Slot(x) - Slot(status[v][s])
          /\ x \in AllocationStatus
      BY <2>1 DEF Slot, HoldsSlot, AllocationStatus
    <3>2. \A w \in Validators :
             /\ SlotsOf(w) \in Nat
             /\ SlotsOf(w)' = SlotsOf(w)
                  + (IF w = v THEN Slot(x) - Slot(status[v][s]) ELSE 0)
      BY <3>1, SlotWritten
    <3>3. QED
      BY <3>1, <3>2
  <2>5. \A w \in Validators :
           /\ total_allocated'[w] = total_allocated[w] + (IF w = v THEN n ELSE 0)
           /\ allocation_count'[w] = allocation_count[w] + (IF w = v THEN k ELSE 0)
    BY <1>t, <2>1 DEF TypeOK
  <2>6. ASSUME NEW w \in Validators
        PROVE  /\ w \notin Substitutable => total_allocated'[w] <= AmountsOf(w)'
               /\ allocation_count'[w] <= SlotsOf(w)'
    BY <1>t, <1>u, <2>2, <2>3, <2>4, <2>5 DEF ExposureBounds
  <2>7. QED
    BY <2>6 DEF ExposureBounds
<1>2. ASSUME NEW v \in Validators, NEW s \in Services, NEW n \in Amounts, DeallocateStake(v, s, n)
      PROVE  ExposureBounds'
  <2>1. /\ n \in Nat /\ n <= amount[v][s] /\ n <= total_allocated[v]
        /\ status[v][s] = "Pending"
    BY <1>2, DeallocateEffects
  <2>2. PICK k \in {0, 1}, x \in {"Pending", "Deactivating"} :
           /\ status' = [status EXCEPT ![v][s] = x]
           /\ k = 1 - Slot(x)
           /\ amount' = [amount EXCEPT ![v][s] = amount[v][s] - n]
           /\ total_allocated' = [total_allocated EXCEPT ![v] = total_allocated[v] - n]
           /\ allocation_count' = [allocation_count EXCEPT ![v] = SatSub(allocation_count[v], k)]
    BY <1>2, DeallocateEffects
  <2>3. amount[v][s] \in Nat
    BY AllocationTypes
  <2>4. \A w \in Validators :
           AmountsOf(w)' = AmountsOf(w) + (IF w = v THEN (amount[v][s] - n) - amount[v][s] ELSE 0)
    <3>1. amount[v][s] - n \in Nat
      BY <2>1, <2>3
    <3>2. QED
      BY <2>2, <3>1, AmountWritten
  <2>5. \A w \in Validators :
           SlotsOf(w) \in Nat /\ SlotsOf(w)' = SlotsOf(w) + (IF w = v THEN 0 - k ELSE 0)
    <3>1. /\ status' = [status EXCEPT ![v][s] = x]
          /\ 0 - k = Slot(x) - Slot(status[v][s])
          /\ x \in AllocationStatus
      BY <2>1, <2>2 DEF Slot, HoldsSlot, AllocationStatus
    <3>2. \A w \in Validators :
             /\ SlotsOf(w) \in Nat
             /\ SlotsOf(w)' = SlotsOf(w)
                  + (IF w = v THEN Slot(x) - Slot(status[v][s]) ELSE 0)
      BY <3>1, SlotWritten
    <3>3. QED
      BY <3>1, <3>2
  <2>6. SlotsOf(v) > 0
    <3>1. status[v][s] \in HoldsSlot /\ x \in AllocationStatus
      BY <2>1 DEF HoldsSlot, AllocationStatus
    <3>2. QED
      BY <2>2, <3>1, SlotWritten
  <2>7. SatSub(allocation_count[v], k) <= SlotsOf(v) - k
    <3>1. allocation_count[v] <= SlotsOf(v) /\ SlotsOf(v) \in Nat
      BY <2>5 DEF ExposureBounds
    <3>2. QED
      BY <1>t, <2>2, <2>6, <3>1, SatSubMonotone
  <2>8. \A w \in Validators :
           /\ total_allocated'[w] = total_allocated[w] - (IF w = v THEN n ELSE 0)
           /\ allocation_count'[w] =
                (IF w = v THEN SatSub(allocation_count[v], k) ELSE allocation_count[w])
    BY <1>t, <2>2 DEF TypeOK
  <2>9. ASSUME NEW w \in Validators
        PROVE  /\ w \notin Substitutable => total_allocated'[w] <= AmountsOf(w)'
               /\ allocation_count'[w] <= SlotsOf(w)'
    BY <1>t, <1>u, <2>1, <2>2, <2>3, <2>4, <2>5, <2>7, <2>8 DEF ExposureBounds
  <2>10. QED
    BY <2>9 DEF ExposureBounds
<1>3. ASSUME NEW p \in ProposalIds, NEW P \in SUBSET Validators, NEW Q \in SUBSET Validators,
             FinalizeSlash(p, P, Q)
      PROVE  ExposureBounds'
  <2>1. PICK s \in Services, hit \in SUBSET Validators :
              /\ \A v \in Validators, t \in Services :
                    /\ amount'[v][t] = IF v \in hit /\ t = s THEN 0 ELSE amount[v][t]
                    /\ status'[v][t] = IF v \in hit /\ t = s THEN "Inactive" ELSE status[v][t]
              /\ \A v \in hit : status[v][s] = "Pending"
              /\ \A v \in Validators \ Substitutable :
                    total_allocated'[v] =
                      IF v \in hit THEN SatSub(total_allocated[v], amount[v][s])
                                   ELSE total_allocated[v]
              /\ allocation_count' = allocation_count
    BY <1>3, SlashEffects
  <2>2. ASSUME NEW v \in Validators
        PROVE  SlotsOf(v)' = SlotsOf(v)
    <3>1. {t \in Services : status'[v][t] \in {"Pending", "Inactive"}}
            = {t \in Services : status[v][t] \in {"Pending", "Inactive"}}
      BY <2>1
    <3>2. QED
      BY <3>1, Zenon DEF SlotsOf
  <2>3. ASSUME NEW v \in Validators
        PROVE  AmountsOf(v)' = AmountsOf(v) - (IF v \in hit THEN amount[v][s] ELSE 0)
    <3> DEFINE before == [t \in Services |-> amount[v][t]]
               after  == [t \in Services |-> amount'[v][t]]
               d      == IF v \in hit THEN 0 - amount[v][s] ELSE 0
    <3>1. /\ before \in [Services -> Int] /\ after \in [Services -> Int]
          /\ \A t \in Services \ {s} : after[t] = before[t]
          /\ d = after[s] - before[s]
      BY <1>u, <2>1
    <3>2. d = 0 - (IF v \in hit THEN amount[v][s] ELSE 0)
      OBVIOUS
    <3>3. AmountsOf(v) = SumFunction(before) /\ AmountsOf(v)' = SumFunction(after)
      BY Zenon DEF AmountsOf
    <3> HIDE DEF before, after, d
    <3>4. SumFunction(after) = SumFunction(before) + d
      BY <3>1, FiniteAssumption, TotalWrite
    <3>5. QED
      BY <1>u, <3>2, <3>3, <3>4
  <2>4. ASSUME NEW w \in Validators
        PROVE  /\ w \notin Substitutable => total_allocated'[w] <= AmountsOf(w)'
               /\ allocation_count'[w] <= SlotsOf(w)'
    <3>1. allocation_count'[w] <= SlotsOf(w)'
      BY <2>1, <2>2 DEF ExposureBounds
    <3>2. ASSUME w \notin Substitutable
          PROVE  total_allocated'[w] <= AmountsOf(w)'
      <4>1. total_allocated[w] <= AmountsOf(w)
        BY <3>2 DEF ExposureBounds
      <4>2. SatSub(total_allocated[w], amount[w][s]) <= AmountsOf(w) - amount[w][s]
        BY <1>t, <1>u, <4>1, SatSubMonotone
      <4>3. QED
        BY <1>t, <1>u, <2>1, <2>3, <3>2, <4>1, <4>2
    <3>3. QED
      BY <3>1, <3>2
  <2>5. QED
    BY <2>4 DEF ExposureBounds
<1>4. ASSUME NEW v \in Validators, NEW n \in Amounts, DepositStake(v, n)
      PROVE  ExposureBounds'
  <2>1. /\ total_allocated' = ResetOnFirst(total_allocated, v)
        /\ allocation_count' = ResetOnFirst(allocation_count, v)
        /\ UNCHANGED <<status, amount>>
    BY <1>4 DEF DepositStake, allocationVars
  <2>2. \A w \in Validators : /\ total_allocated'[w] \in {0, total_allocated[w]}
                              /\ allocation_count'[w] \in {0, allocation_count[w]}
    BY <2>1 DEF ResetOnFirst, TypeOK
  <2>3. \A w \in Validators : SlotsOf(w) \in Nat
    <3>1. \A w \in Validators :
             IsFiniteSet({s \in Services : status[w][s] \in {"Pending", "Inactive"}})
      BY FiniteAssumption, FS_Subset
    <3>2. QED
      BY <3>1, FS_CardinalityType DEF SlotsOf
  <2>4. \A w \in Validators : AmountsOf(w)' = AmountsOf(w) /\ SlotsOf(w)' = SlotsOf(w)
    BY <2>1, SumsFrame
  <2>5. QED
    BY <1>t, <1>u, <2>2, <2>3, <2>4 DEF ExposureBounds
<1>5. ASSUME UNCHANGED <<status, amount, total_allocated, allocation_count>>
      PROVE  ExposureBounds'
  BY <1>5, SumsFrame DEF ExposureBounds
<1>6. ASSUME NEW v \in Validators, NEW pairing, RebalanceAllocations(v, pairing)
      PROVE  ExposureBounds'
  BY <1>5, <1>6 DEF RebalanceAllocations
<1>7. ASSUME NEW v \in Validators, NEW i \in TicketIds,
             CompleteWithdrawal(v, i) \/ \E n \in Amounts : RequestWithdrawal(v, i, n)
      PROVE  ExposureBounds'
  BY <1>5, <1>7 DEF CompleteWithdrawal, RequestWithdrawal, allocationVars, exposureVars
<1>8. CASE (\E s \in Services : ProposeSlash(s)) \/ (\E p \in ProposalIds : VetoSlash(p))
  BY <1>5, <1>8 DEF ProposeSlash, VetoSlash, allocationVars, exposureVars
<1>9. CASE NetworkStep \/ UNCHANGED vars
  BY <1>5, <1>9 DEF NetworkStep, Tick, AdvanceEpoch, UpdateNetworkConfig, DeactivateService,
                    vars, allocationVars, exposureVars
<1>10. QED
  BY <1>1, <1>2, <1>3, <1>4, <1>6, <1>7, <1>8, <1>9 DEF Next, NetworkStep

(***************************************************************************)
(* A validator's total_allocated and allocation_count never exceed what    *)
(* its allocations add up to, so the cap on its restaking degree is never  *)
(* stricter than its exposure: not even after the reset of a               *)
(* re-registration (deposit_stake.rs:102), which only lowers them.  For    *)
(* total_allocated that takes a validator whose name no other account      *)
(* carries, since a finalization writes the account it is given            *)
(* (finalize_slash.rs:120-150).                                            *)
(***************************************************************************)
THEOREM ExposureBounded == Spec => []ExposureBounds
<1>1. Init => ExposureBounds
  <2> SUFFICES ASSUME Init, NEW v \in Validators
               PROVE  total_allocated[v] <= AmountsOf(v) /\ allocation_count[v] <= SlotsOf(v)
    BY DEF ExposureBounds
  <2> DEFINE none == [s \in Services |-> 0]
  <2>1. /\ total_allocated[v] = 0 /\ allocation_count[v] = 0
        /\ [s \in Services |-> amount[v][s]] = none
        /\ {s \in Services : status[v][s] \in {"Pending", "Inactive"}} = {}
    BY DEF Init
  <2>2. SumFunction(none) = 0
    BY FiniteAssumption, TotalZero
  <2>3. AmountsOf(v) = 0
    BY <2>1, <2>2, Zenon DEF AmountsOf
  <2>4. SlotsOf(v) = 0
    BY <2>1, FS_EmptySet, Zenon DEF SlotsOf
  <2>5. QED
    BY <2>1, <2>3, <2>4
<1>2. AccountInvariants /\ NoActivation /\ ExposureBounds /\ [Next]_vars => ExposureBounds'
  BY ExposureBoundsStep DEF AccountInvariants
<1>3. QED
  BY <1>1, <1>2, AccountsInvariant, NeverActive, PTL DEF Spec

-----------------------------------------------------------------------------
\* The abstract specification: every step of the program is a step of
\* SlashGovernance or leaves it alone.

\* Before the first proposal nothing is due.
LEMMA InitRefines == Init => Governance!Init
<1> SUFFICES ASSUME Init PROVE Governance!Init
  OBVIOUS
<1>1. Proposed = {}
  BY DEF Init, Proposed
<1>2. QED
  BY <1>1 DEF Init, Due, Governance!Init

LEMMA ProposeRefines ==
    ASSUME TypeOK, ProposalsMade, NEW s \in Services, ProposeSlash(s)
    PROVE  Governance!Open(slash_proposal_count, s)
<1> DEFINE p == slash_proposal_count
<1>1. /\ p \in Nat /\ p \notin Proposed
      /\ slash_proposal_count' = p + 1
      /\ dispute_left' = [dispute_left EXCEPT ![p] = config.slash_dispute_window]
  BY DEF ProposeSlash, TypeOK, Proposed
<1>2. Proposed' = Proposed \cup {p}
  BY <1>1 DEF Proposed
<1>3. \A q \in Proposed : q # p /\ q \in ProposalIds
  BY <1>1, WidthAssumption DEF Proposed, ProposalIds, TypeOK
<1>4. \A q \in Proposed : dispute_left'[q] = dispute_left[q]
  BY <1>1, <1>3 DEF TypeOK
<1>5. Due \subseteq Due' /\ Due' \subseteq Due \cup {p}
  BY <1>2, <1>4 DEF Due, DisputeWindowElapsed
<1>6. QED
  BY <1>1, <1>2, <1>5
     DEF ProposeSlash, ProposalAccepted, Governance!Open, serviceVars

LEMMA VetoRefines ==
    ASSUME TypeOK, ProposalsMade, NEW p \in ProposalIds, VetoSlash(p)
    PROVE  Governance!Veto(p)
<1>1. p \in Proposed /\ p \notin Due
  BY DEF VetoSlash, InDisputeWindow, Due, DisputeWindowElapsed
<1>2. Proposed' = Proposed /\ Due' = Due
  BY DEF VetoSlash, Proposed, Due, DisputeWindowElapsed
<1>3. QED
  BY <1>1, <1>2 DEF VetoSlash, Unsettled, Governance!Veto, Governance!Settled, serviceVars

LEMMA FinalizeRefines ==
    ASSUME TypeOK, ProposalsMade, NEW p \in ProposalIds, NEW P \in SUBSET Validators,
           NEW Q \in SUBSET Validators, FinalizeSlash(p, P, Q)
    PROVE  Governance!Execute(p)
<1>1. PICK total :
         /\ FinalizeAccepted(p)
         /\ finalized' = finalized \cup {p}
         /\ slashed' = slashed \cup {proposal_service[p]}
         /\ total_slashed' = [total_slashed EXCEPT ![p] = total]
         /\ UNCHANGED <<slash_proposal_count, proposal_service, dispute_left, vetoed>>
  BY DEF FinalizeSlash
<1>2. p \in Due /\ p \notin vetoed /\ p \notin finalized
  BY <1>1 DEF FinalizeAccepted, Unsettled, Due
<1>3. Proposed' = Proposed /\ Due' = Due
  BY <1>1 DEF Proposed, Due, DisputeWindowElapsed
<1>4. total_slashed'[p] = total
  BY <1>1 DEF TypeOK
<1>5. QED
  BY <1>1, <1>2, <1>3, <1>4 DEF Governance!Execute, Governance!Settled

\* The clock closes windows and opens none.
LEMMA TickRefines ==
    ASSUME TypeOK, ProposalsMade, Tick
    PROVE  Governance!TimePasses
<1>1. Proposed' = Proposed /\ Proposed \subseteq ProposalIds
  BY WidthAssumption DEF Tick, Proposed, ProposalIds, TypeOK, serviceVars, proposalVars
<1>2. \A p \in ProposalIds : dispute_left[p] = 0 => dispute_left'[p] = 0
  BY DEF Tick, SatSub
<1>3. Due \subseteq Due' /\ Due' \subseteq Proposed
  BY <1>1, <1>2 DEF Due, DisputeWindowElapsed
<1>4. QED
  BY <1>1, <1>3 DEF Tick, Governance!TimePasses, serviceVars

\* Everything else leaves the cases alone.
LEMMA OthersStutter ==
    ASSUME PositionStep \/ (NetworkStep /\ ~Tick) \/ UNCHANGED vars
    PROVE  UNCHANGED Governance!vars
<1>1. UNCHANGED <<proposal_service, vetoed, finalized, total_slashed, slashed>>
  BY GovernanceFrame
<1>2. UNCHANGED <<slash_proposal_count, dispute_left>>
  <2>1. CASE PositionStep
    BY <2>1, PositionKeepsProposals DEF proposalVars
  <2>2. CASE NetworkStep /\ ~Tick
    BY <2>2 DEF NetworkStep, AdvanceEpoch, UpdateNetworkConfig, DeactivateService,
                proposalVars
  <2>3. CASE UNCHANGED vars
    BY <2>3 DEF vars, proposalVars
  <2>4. QED
    BY <2>1, <2>2, <2>3
<1>3. Proposed' = Proposed /\ Due' = Due
  BY <1>2 DEF Proposed, Due, DisputeWindowElapsed
<1>4. QED
  BY <1>1, <1>3 DEF Governance!vars

LEMMA StepRefines ==
    ASSUME TypeOK, ProposalsMade, [Next]_vars
    PROVE  [Governance!Next]_(Governance!vars)
<1>1. ASSUME NEW s \in Services, ProposeSlash(s)
      PROVE  Governance!Next
  <2>1. slash_proposal_count \in ProposalIds
    BY <1>1, WidthAssumption DEF ProposeSlash, ProposalIds, TypeOK
  <2>2. QED
    BY <1>1, <2>1, ProposeRefines DEF Governance!Next
<1>2. ASSUME NEW p \in ProposalIds, VetoSlash(p)
      PROVE  Governance!Next
  BY <1>2, VetoRefines DEF Governance!Next
<1>3. ASSUME NEW p \in ProposalIds, NEW P \in SUBSET Validators, NEW Q \in SUBSET Validators,
             FinalizeSlash(p, P, Q)
      PROVE  Governance!Next
  BY <1>3, FinalizeRefines DEF Governance!Next
<1>4. ASSUME Tick
      PROVE  Governance!Next
  BY <1>4, TickRefines DEF Governance!Next
<1>5. CASE PositionStep \/ (NetworkStep /\ ~Tick) \/ UNCHANGED vars
  BY <1>5, OthersStutter
<1>6. QED
  BY <1>1, <1>2, <1>3, <1>4, <1>5 DEF Next, PositionStep, NetworkStep

(***************************************************************************)
(* Every behaviour of the program, seen through its proposals, is one of   *)
(* SlashGovernance: a slash is executed once, on the service of its        *)
(* proposal, after a window nobody shortened and nobody vetoed in.         *)
(***************************************************************************)
THEOREM GovernanceImplemented == Spec => ImplementsGovernance
<1>1. TypeOK /\ ProposalsMade /\ [Next]_vars => [Governance!Next]_(Governance!vars)
  BY StepRefines
<1>2. QED
  BY <1>1, InitRefines, TypeCorrect, PTL DEF Spec, ImplementsGovernance, Governance!Spec

=============================================================================
