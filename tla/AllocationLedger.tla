-------------------------- MODULE AllocationLedger --------------------------
(***************************************************************************)
(* instructions/allocation/: committing stake to services and taking it    *)
(* back.                                                                   *)
(*                                                                         *)
(* activation_epoch and deactivation_epoch are written by these handlers   *)
(* and read by none, so the model has no variable for them.                *)
(***************************************************************************)
EXTENDS RestakingAccounts

\* Mutant: every top-up takes a slot.
TakesSlot_always(v, s) == status[v][s] # "Deactivating"

\* A new account, or one a slash has left Inactive, takes a validator slot.
TakesSlot(v, s) == status[v][s] \in {"None", "Inactive"}

SingleAllocationCap(v, s, amt) == amount[v][s] + amt <= effective_stake[v]

DegreeCap(v, amt) ==
    total_allocated[v] + amt
        <= BpsMul(effective_stake[v], config.max_restaking_degree_bps)

\* Mutant: the state of the service is not looked at.
AllocationAccepted_anyService(v, s, amt) ==
    /\ ~ config.is_paused
    /\ amt > 0
    /\ SingleAllocationCap(v, s, amt)
    /\ DegreeCap(v, amt)
    /\ status[v][s] # "Deactivating"

AllocationAccepted(v, s, amt) ==
    /\ ~ config.is_paused
    /\ s \in active
    /\ s \notin slashed
    /\ amt > 0
    /\ SingleAllocationCap(v, s, amt)
    /\ DegreeCap(v, amt)
    /\ status[v][s] # "Deactivating"

AllocateStake(v, s, amt) ==
    LET slot   == IF TakesSlot(v, s) THEN 1 ELSE 0
        degree == DegreeBps(total_allocated[v] + amt, effective_stake[v])
    IN
    /\ AllocationAccepted(v, s, amt)
    /\ {amount[v][s] + amt, total_allocated[v] + amt,
        total_effective_allocated[v] + amt,
        service_allocated[s] + amt, service_effective[s] + amt} \subseteq U64
    /\ {service_validators[s] + slot, allocation_count[v] + slot, degree} \subseteq U32
    /\ status' = [status EXCEPT ![v][s] = IF TakesSlot(v, s) THEN "Pending" ELSE @]
    /\ amount' = [amount EXCEPT ![v][s] = @ + amt]
    /\ effective_amount' = [effective_amount EXCEPT ![v][s] = amount[v][s] + amt]
    /\ total_allocated' = [total_allocated EXCEPT ![v] = @ + amt]
    /\ total_effective_allocated' = [total_effective_allocated EXCEPT ![v] = @ + amt]
    /\ restaking_degree_bps' = [restaking_degree_bps EXCEPT ![v] = degree]
    /\ allocation_count' = [allocation_count EXCEPT ![v] = @ + slot]
    /\ service_validators' = [service_validators EXCEPT ![s] = @ + slot]
    /\ service_allocated' = [service_allocated EXCEPT ![s] = @ + amt]
    /\ service_effective' = [service_effective EXCEPT ![s] = @ + amt]
    /\ UNCHANGED <<config, networkVars, depositVars, ticketVars, active, slashed,
                   proposalVars, tokenVars, epoch_elapsed>>

\* Neither the pause flag nor the state of the service is looked at.
DeallocationAccepted(v, s, amt) ==
    /\ status[v][s] \in {"Pending", "Active"}
    /\ amt > 0
    /\ amt <= amount[v][s]

(***************************************************************************)
(* A full deallocation gives the slot back at once.                        *)
(***************************************************************************)
DeallocateStake(v, s, amt) ==
    LET rest   == amount[v][s] - amt
        slot   == IF rest = 0 THEN 1 ELSE 0
        degree == DegreeBps(total_allocated[v] - amt, effective_stake[v])
    IN
    /\ DeallocationAccepted(v, s, amt)
    /\ amt <= total_allocated[v]
    /\ amt <= service_allocated[s]
    /\ degree \in U32
    /\ status' = [status EXCEPT ![v][s] = IF rest = 0 THEN "Deactivating" ELSE @]
    /\ amount' = [amount EXCEPT ![v][s] = rest]
    /\ effective_amount' = [effective_amount EXCEPT ![v][s] = Least(rest, effective_stake[v])]
    /\ total_allocated' = [total_allocated EXCEPT ![v] = @ - amt]
    /\ total_effective_allocated' = [total_effective_allocated EXCEPT ![v] = SatSub(@, amt)]
    /\ restaking_degree_bps' = [restaking_degree_bps EXCEPT ![v] = degree]
    /\ allocation_count' = [allocation_count EXCEPT ![v] = SatSub(@, slot)]
    /\ service_validators' = [service_validators EXCEPT ![s] = SatSub(@, slot)]
    /\ service_allocated' = [service_allocated EXCEPT ![s] = @ - amt]
    /\ service_effective' = [service_effective EXCEPT ![s] = SatSub(@, amt)]
    /\ UNCHANGED <<config, networkVars, depositVars, ticketVars, active, slashed,
                   proposalVars, tokenVars, epoch_elapsed>>

=============================================================================
