----------------------------- MODULE StakerClient -----------------------------
(***************************************************************************)
(* The staking methods of packages/sdk/src/client.ts, called by one        *)
(* wallet, and the RPC calls they end in.                                  *)
(*                                                                         *)
(* An RPC call lands and is confirmed, is refused, or throws while its     *)
(* transaction is still valid: that one may land later, or expire.  The    *)
(* caller cannot tell the last two apart.  The program's handlers are      *)
(* those of module ElasticRestaking for a network without fees, slashes    *)
(* or pauses; amounts are in units of the seed script's deposit.           *)
(***************************************************************************)
EXTENDS Integers, FiniteSets, Sequences, FiniteSetsExt, Functions

CONSTANTS
    Names,         \* of the services, in the order of their ids
    TicketIds,     \* ids a withdrawal is requested with
    MaxDegree,     \* max_restaking_degree_bps / 10000
    MaxCalls,      \* bound on the client's calls
    MaxInFlight    \* bound on the transactions that were given up

NoMint == 0
ServiceIds == 0 .. (Len(Names) - 1)

ASSUME StakerAssumption ==
    /\ MaxDegree \in Nat /\ MaxCalls \in Nat /\ MaxInFlight \in Nat
    /\ IsFiniteSet(TicketIds)

VARIABLES
    mint,           \* stakeMint of the NetworkConfig, NoMint before there is one
    names,          \* names of the services registered
    tokens,         \* the wallet's token account: whether there is one, its balance
    minted,         \* what the mint has issued
    stake,          \* ValidatorState.stake (of the wallet's validator)
    pending,        \* ValidatorState.pendingWithdrawal
    totalAllocated, \* ValidatorState.totalAllocated
    allocation,     \* AllocationState.amount, per service
    closing,        \* services whose allocation is Deactivating
    ticket,         \* WithdrawalTicket: its amount, 0 when there is none
    ripe,           \* tickets whose cooldown is over
    inFlight,       \* transactions given up that may still land
    claimed,        \* tickets the wallet has tried to complete
    paid,           \* per ticket id, how often it was paid out
    calls           \* number of calls of the client

validatorVars == <<stake, pending, totalAllocated, allocation, closing, ticket, ripe>>
chain     == <<mint, names, tokens, minted, validatorVars, paid>>
clientVars == <<claimed, calls>>

ClientInit ==
    /\ mint = NoMint
    /\ names = <<>>
    /\ tokens = [exists |-> FALSE, balance |-> 0]
    /\ minted = 0
    /\ stake = 0 /\ pending = 0 /\ totalAllocated = 0
    /\ allocation = [s \in ServiceIds |-> 0]
    /\ closing = {}
    /\ ticket = [t \in TicketIds |-> 0]
    /\ ripe = {}
    /\ inFlight = {}
    /\ claimed = {}
    /\ paid = [t \in TicketIds |-> 0]
    /\ calls = 0

-----------------------------------------------------------------------------
\* Transactions: an instruction and the one argument that matters

Tx(instruction, argument) ==
    [instruction |-> instruction, argument |-> argument, blockhash |-> 0]

DepositStakeTx           == Tx("depositStake", 0)
AllocateStakeTx(s)       == Tx("allocateStake", s)
DeallocateStakeTx(s)     == Tx("deallocateStake", s)
RequestWithdrawalTx(t)   == Tx("requestWithdrawal", t)
CompleteWithdrawalTx(t)  == Tx("completeWithdrawal", t)

\* The handlers.  There is a validator from the first deposit on.  What its
\* allocations add up to is not what it records: see DepositStake.

Allocated == SumFunction(allocation)

InitializeNetwork(m) ==
    /\ mint = NoMint
    /\ mint' = m
    /\ UNCHANGED <<names, tokens, minted, validatorVars, paid>>

\* The address given is that of the next id.
AtTheCount(s) == s = Len(names)

RegisterService(s) ==
    /\ mint # NoMint
    /\ AtTheCount(s)
    /\ names' = Append(names, Names[s + 1])
    /\ UNCHANGED <<mint, tokens, minted, validatorVars, paid>>

CreateTokenAccount ==
    /\ ~tokens.exists
    /\ tokens' = [tokens EXCEPT !.exists = TRUE]
    /\ UNCHANGED <<mint, names, minted, validatorVars, paid>>

MintTo ==
    /\ tokens.exists
    /\ tokens' = [tokens EXCEPT !.balance = @ + 1]
    /\ minted' = minted + 1
    /\ UNCHANGED <<mint, names, validatorVars, paid>>

\* A deposit on no stake registers the position again: its totals start from
\* zero, its allocation accounts keep their amounts.
ResetOnFirst(total) == IF stake = 0 THEN 0 ELSE total

DepositStake ==
    /\ mint # NoMint
    /\ tokens.balance > 0
    /\ tokens' = [tokens EXCEPT !.balance = @ - 1]
    /\ stake' = stake + 1
    /\ pending' = ResetOnFirst(pending)
    /\ totalAllocated' = ResetOnFirst(totalAllocated)
    /\ UNCHANGED <<mint, names, minted, allocation, closing, ticket, ripe, paid>>

\* Mutant: no limit on what is allocated.
WithinDegree_unchecked(reserved, allocated) == reserved <= stake

WithinDegree(reserved, allocated) == allocated <= (stake - reserved) * MaxDegree

AllocateStake(s) ==
    /\ s < Len(names)
    /\ s \notin closing
    /\ allocation[s] + 1 <= stake
    /\ WithinDegree(0, totalAllocated + 1)
    /\ allocation' = [allocation EXCEPT ![s] = @ + 1]
    /\ totalAllocated' = totalAllocated + 1
    /\ UNCHANGED <<mint, names, tokens, minted, stake, pending, closing, ticket, ripe, paid>>

DeallocateStake(s) ==
    /\ s \notin closing
    /\ allocation[s] > 0
    /\ totalAllocated > 0
    /\ allocation' = [allocation EXCEPT ![s] = @ - 1]
    /\ totalAllocated' = totalAllocated - 1
    /\ closing' = IF allocation[s] = 1 THEN closing \cup {s} ELSE closing
    /\ UNCHANGED <<mint, names, tokens, minted, stake, pending, ticket, ripe, paid>>

\* Mutant: a ticket that exists is written over.
TicketFree_overwritten(t) == t \in TicketIds

\* init
TicketFree(t) == ticket[t] = 0

RequestWithdrawal(t) ==
    /\ TicketFree(t)
    /\ pending + 1 <= stake
    /\ WithinDegree(pending + 1, totalAllocated)
    /\ ticket' = [ticket EXCEPT ![t] = 1]
    /\ pending' = pending + 1
    /\ UNCHANGED <<mint, names, tokens, minted, stake, totalAllocated, allocation, closing,
                   ripe, paid>>

CompleteWithdrawal(t) ==
    /\ ticket[t] > 0
    /\ t \in ripe
    /\ ticket[t] <= pending
    /\ tokens' = [tokens EXCEPT !.balance = @ + ticket[t]]
    /\ stake' = stake - ticket[t]
    /\ pending' = pending - ticket[t]
    /\ ticket' = [ticket EXCEPT ![t] = 0]
    /\ ripe' = {u \in ripe : ticket'[u] > 0}
    /\ paid' = [paid EXCEPT ![t] = @ + 1]
    /\ UNCHANGED <<mint, names, minted, totalAllocated, allocation, closing>>

\* The cooldown takes hours, a transaction is valid for about a minute.
CooldownEnds ==
    /\ inFlight = {}
    /\ ripe' = {t \in TicketIds : ticket[t] > 0}
    /\ ripe' # ripe
    /\ UNCHANGED <<mint, names, tokens, minted, stake, pending, totalAllocated, allocation,
                   closing, ticket, paid, inFlight, clientVars>>

Executes(tx) ==
    \/ tx.instruction = "initializeNetwork"  /\ InitializeNetwork(tx.argument)
    \/ tx.instruction = "registerService"    /\ RegisterService(tx.argument)
    \/ tx.instruction = "createTokenAccount" /\ CreateTokenAccount
    \/ tx.instruction = "mintTo"             /\ MintTo
    \/ tx.instruction = "depositStake"       /\ DepositStake
    \/ tx.instruction = "allocateStake"      /\ AllocateStake(tx.argument)
    \/ tx.instruction = "deallocateStake"    /\ DeallocateStake(tx.argument)
    \/ tx.instruction = "requestWithdrawal"  /\ RequestWithdrawal(tx.argument)
    \/ tx.instruction = "completeWithdrawal" /\ CompleteWithdrawal(tx.argument)

-----------------------------------------------------------------------------
\* RPC calls

Confirmed(tx) == Executes(tx) /\ UNCHANGED inFlight

Refused(tx) == ~ENABLED Executes(tx) /\ UNCHANGED <<chain, inFlight>>

GivenUp(tx) ==
    LET used == {t.blockhash : t \in inFlight}
        hash == CHOOSE h \in 0 .. MaxInFlight : h \notin used
    IN
    /\ Cardinality(inFlight) < MaxInFlight
    /\ inFlight' = inFlight \cup {[tx EXCEPT !.blockhash = hash]}
    /\ UNCHANGED chain

Throws(tx) == Refused(tx) \/ GivenUp(tx)

LandsLate(tx) ==
    /\ Executes(tx)
    /\ inFlight' = inFlight \ {tx}
    /\ UNCHANGED clientVars

\* Too old, or refused.
Expires(tx) ==
    /\ inFlight' = inFlight \ {tx}
    /\ UNCHANGED <<chain, clientVars>>

\* An id "must not be re-used": its request may be repeated until the withdrawal
\* is claimed.
Requestable == TicketIds \ claimed

\* It is claimed only when no request for it can land any more.
Claimable == {t \in TicketIds : \A tx \in inFlight :
                 ~(tx.instruction = "requestWithdrawal" /\ tx.argument = t)}

\* The client's methods, in any order.
ClientTxs ==
    {DepositStakeTx}
    \cup {AllocateStakeTx(s) : s \in ServiceIds}
    \cup {DeallocateStakeTx(s) : s \in ServiceIds}
    \cup {RequestWithdrawalTx(t) : t \in Requestable}
    \cup {CompleteWithdrawalTx(t) : t \in Claimable}

ClientCall(tx) ==
    /\ calls < MaxCalls
    /\ calls' = calls + 1
    /\ claimed' = IF tx.instruction = "completeWithdrawal" THEN claimed \cup {tx.argument}
                                                           ELSE claimed
    /\ Confirmed(tx) \/ Throws(tx)

=============================================================================
