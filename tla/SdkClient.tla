------------------------------ MODULE SdkClient ------------------------------
(***************************************************************************)
(* packages/sdk/src/client.ts: wallets that drive the program through      *)
(* ElasticRestakingClient.  A method that needs a counter or a proposal    *)
(* fetches it, derives the addresses of its accounts and only then sends   *)
(* its transaction, so that anything may happen between the read and the   *)
(* execution: other wallets' transactions land, the authority changes, a   *)
(* window closes.  A transaction lands once, or expires; the sender may    *)
(* stop waiting for it before either.                                      *)
(*                                                                         *)
(* The module has the methods that administer the network: the registry,   *)
(* the authority, the proposals.  The accounts are those of types.ts, less *)
(* what only the staking instructions read (module ElasticRestaking).      *)
(***************************************************************************)
EXTENDS ProgramAddresses, FiniteSets, Sequences

CONSTANTS
    Deployer,       \* the wallet that initialized the network
    NoKey,          \* Pubkey::default()
    Nobody,         \* "no account", "no address", "no argument"
    InitialNames,   \* the services it starts with, all of them the deployer's
    NewNames,       \* names given to further services
    TooLong,        \* those longer than encodeFixedString allows
    HighThreshold,  \* those registered with attackThresholdBps above MAX_BPS
    OtherMint,      \* those registered with a mint that is not the network's rewardMint
    BaseNames,      \* those registered with isBaseService
    MaxServices,    \* MAX_SERVICES
    MaxProposals,   \* bound on the proposals made
    MaxCalls,       \* bound on the calls of one wallet
    MaxAbandoned    \* bound on the transactions nobody waits for any more

ServiceIds  == 0 .. (MaxServices - 1)
ProposalIds == 0 .. (MaxProposals - 1)

ASSUME SdkAssumption ==
    /\ MaxServices \in Nat /\ MaxProposals \in Nat /\ MaxCalls \in Nat /\ MaxAbandoned \in Nat
    /\ Len(InitialNames) \in 0 .. MaxServices
    /\ HighThreshold \cup OtherMint \subseteq NewNames
    /\ Deployer \in Wallets /\ NoKey \notin Wallets

VARIABLES
    networkConfig,   \* NetworkConfig
    services,        \* address -> ServiceState, or Nobody
    proposals,       \* address -> SlashProposal, or Nobody
    accounts,        \* addresses of the other accounts that exist
    inFlight,        \* transactions sent that have neither landed nor expired
    call,            \* per wallet, the method it is in and what it waits for
    returned,        \* per wallet, how its last method ended
    calls            \* per wallet, number of calls made

ledger == <<networkConfig, services, proposals, accounts>>
vars   == <<networkConfig, services, proposals, accounts, inFlight, call, returned, calls>>

AllNames == NewNames \cup {InitialNames[i] : i \in 1 .. Len(InitialNames)}

-----------------------------------------------------------------------------
\* Types

NetworkConfigType ==
    [authority : Wallets, pendingAuthority : Wallets \cup {NoKey},
     serviceCount : 0 .. MaxServices, slashProposalCount : 0 .. MaxProposals]

ServiceType ==
    [serviceId : ServiceIds, authority : Wallets, name : AllNames,
     rewardVault : {RewardVaultPda(i) : i \in ServiceIds}, isActive : BOOLEAN,
     isBaseService : BOOLEAN, isSlashed : BOOLEAN]

ProposalType ==
    [serviceId : ServiceIds, proposer : Wallets, inWindow : BOOLEAN,
     isVetoed : BOOLEAN, isFinalized : BOOLEAN]

ASSUME NobodyAssumption == Nobody \notin ServiceType \cup ProposalType

ServiceAddresses  == {ServicePda(i) : i \in ServiceIds}
ProposalAddresses == {SlashProposalPda(p) : p \in ProposalIds}

MethodCall(method, argument) == [method |-> method, argument |-> argument, tx |-> Nobody]

Idle == MethodCall("none", Nobody)

NotReturned == [outcome |-> "none", tx |-> Nobody]

NewService(serviceId, authority, name, rewardVault) ==
    [serviceId |-> serviceId, authority |-> authority, name |-> name,
     rewardVault |-> rewardVault, isActive |-> TRUE,
     isBaseService |-> name \in BaseNames, isSlashed |-> FALSE]

Init ==
    /\ networkConfig = [authority |-> Deployer, pendingAuthority |-> NoKey,
                        serviceCount |-> Len(InitialNames), slashProposalCount |-> 0]
    /\ services = [a \in ServiceAddresses |->
           IF a[2] < Len(InitialNames)
           THEN NewService(a[2], Deployer, InitialNames[a[2] + 1], RewardVaultPda(a[2]))
           ELSE Nobody]
    /\ proposals = [a \in ProposalAddresses |-> Nobody]
    /\ accounts = {RewardVaultPda(i) : i \in 0 .. (Len(InitialNames) - 1)}
    /\ inFlight = {}
    /\ call = [k \in Wallets |-> Idle]
    /\ returned = [k \in Wallets |-> NotReturned]
    /\ calls = [k \in Wallets |-> 0]

-----------------------------------------------------------------------------
\* Transactions, one operator per method

Tx(instruction, signer, service, target, argument) ==
    [instruction |-> instruction, signer |-> signer, service |-> service,
     target |-> target, argument |-> argument, record |-> Nobody, blockhash |-> 0]

ProposeAuthorityTx(k, key)       == Tx("proposeAuthority", k, Nobody, NetworkConfigPda, key)
AcceptAuthorityTx(k)             == Tx("acceptAuthority", k, Nobody, NetworkConfigPda, Nobody)
DeactivateServiceTx(k, address)  == Tx("deactivateService", k, address, Nobody, Nobody)

\* Mutant: the id after the count.
RegisterServiceTx_next(k, name) ==
    LET serviceId == networkConfig.serviceCount + 1
    IN  Tx("registerService", k, ServicePda(serviceId), RewardVaultPda(serviceId), name)

\* Built from what was fetched: the counter, or the proposal.
RegisterServiceTx(k, name) ==
    LET serviceId == networkConfig.serviceCount
    IN  Tx("registerService", k, ServicePda(serviceId), RewardVaultPda(serviceId), name)
ProposeSlashTx(k, s) ==
    Tx("proposeSlash", k, ServicePda(s), SlashProposalPda(networkConfig.slashProposalCount), s)
VetoSlashTx(k, p) ==
    Tx("vetoSlash", k, ServicePda(proposals[SlashProposalPda(p)].serviceId),
       SlashProposalPda(p), Nobody)
FinalizeSlashTx(k, p) ==
    [Tx("finalizeSlash", k, ServicePda(proposals[SlashProposalPda(p)].serviceId),
        SlashProposalPda(p), Nobody) EXCEPT !.record = SlashRecordPda(p)]

\* Methods that send without reading first.
DirectTxs(k) ==
    {ProposeAuthorityTx(k, key) : key \in Wallets}
    \cup {AcceptAuthorityTx(k)}
    \cup {DeactivateServiceTx(k, a) : a \in ServiceAddresses}

\* Methods that fetch an account first, with their argument.
FetchingCalls ==
    {MethodCall("registerService", n) : n \in NewNames}
    \cup {MethodCall("proposeSlash", s) : s \in ServiceIds}
    \cup {MethodCall(m, p) : m \in {"vetoSlash", "finalizeSlash"}, p \in ProposalIds}

TxOf(k) ==
    LET c == call[k] IN
    CASE c.method = "registerService" -> RegisterServiceTx(k, c.argument)
      [] c.method = "proposeSlash"    -> ProposeSlashTx(k, c.argument)
      [] c.method = "vetoSlash"       -> VetoSlashTx(k, c.argument)
      [] c.method = "finalizeSlash"   -> FinalizeSlashTx(k, c.argument)

-----------------------------------------------------------------------------
\* The wallets

Waiting(k) == call[k].method = "rpc"

\* A resent transaction differs from the one it repeats by its blockhash.
Send(k, tx) ==
    LET used   == {t.blockhash : t \in inFlight}
        signed == [tx EXCEPT !.blockhash =
                       CHOOSE h \in 0 .. Cardinality(inFlight) : h \notin used]
    IN
    /\ inFlight' = inFlight \cup {signed}
    /\ call' = [call EXCEPT ![k] = [method |-> "rpc", argument |-> Nobody, tx |-> signed]]
    /\ UNCHANGED ledger

Return(k, outcome, tx) ==
    /\ call' = [call EXCEPT ![k] = Idle]
    /\ returned' = [returned EXCEPT ![k] = [outcome |-> outcome, tx |-> tx]]
    /\ UNCHANGED calls

Enter(k) ==
    /\ call[k] = Idle
    /\ calls[k] < MaxCalls
    /\ calls' = [calls EXCEPT ![k] = @ + 1]
    /\ returned' = [returned EXCEPT ![k] = NotReturned]

Call(k, tx) == Enter(k) /\ Send(k, tx)

StartFetch(k, c) ==
    /\ Enter(k)
    /\ call' = [call EXCEPT ![k] = c]
    /\ UNCHANGED <<ledger, inFlight>>

\* Fetching an account that does not exist throws, and so does
\* encodeFixedString, which comes after the fetch.
Throws(c) ==
    \/ c.method = "registerService" /\ c.argument \in TooLong
    \/ /\ c.method \in {"vetoSlash", "finalizeSlash"}
       /\ proposals[SlashProposalPda(c.argument)] = Nobody

FetchAndSend(k) ==
    /\ call[k] \in FetchingCalls
    /\ ~Throws(call[k])
    /\ Send(k, TxOf(k))
    /\ UNCHANGED <<returned, calls>>

FetchThrows(k) ==
    /\ call[k] \in FetchingCalls
    /\ Throws(call[k])
    /\ Return(k, "error", Nobody)
    /\ UNCHANGED <<ledger, inFlight>>

\* The confirmation does not come in time; the transaction is still valid.
GiveUp(k) ==
    /\ Waiting(k)
    /\ Cardinality({t \in inFlight : call[t.signer].tx # t}) < MaxAbandoned
    /\ Return(k, "error", Nobody)
    /\ UNCHANGED <<ledger, inFlight>>

-----------------------------------------------------------------------------
\* The program

Settle(tx, outcome) ==
    /\ tx \in inFlight
    /\ inFlight' = inFlight \ {tx}
    /\ IF call[tx.signer].tx = tx
       THEN Return(tx.signer, outcome, IF outcome = "error" THEN Nobody ELSE tx)
       ELSE UNCHANGED <<call, returned, calls>>

FromAuthority(tx) == tx.signer = networkConfig.authority

\* What the handler asks of the arguments, which the client passes unchecked.
ArgumentsAccepted(name) == name \notin HighThreshold \cup OtherMint

\* Mutant: a handler that takes the accounts it is given.
RegisterAccepted_anyAddress(tx) ==
    networkConfig.serviceCount < MaxServices /\ ArgumentsAccepted(tx.argument)

\* Mutant: one service too many.
RegisterAccepted_offByOne(tx) ==
    LET serviceId == networkConfig.serviceCount IN
    /\ serviceId <= MaxServices
    /\ ArgumentsAccepted(tx.argument)
    /\ tx.service = ServicePda(serviceId)
    /\ tx.target = RewardVaultPda(serviceId)
    /\ tx.target \notin accounts

\* init with seeds from the current count
RegisterAccepted(tx) ==
    LET serviceId == networkConfig.serviceCount IN
    /\ serviceId < MaxServices
    /\ ArgumentsAccepted(tx.argument)
    /\ tx.service = ServicePda(serviceId)
    /\ tx.target = RewardVaultPda(serviceId)
    /\ services[tx.service] = Nobody
    /\ tx.target \notin accounts

RegisterService(tx) ==
    LET serviceId == networkConfig.serviceCount IN
    /\ tx.instruction = "registerService"
    /\ RegisterAccepted(tx)
    /\ services' = [services EXCEPT ![tx.service] =
           NewService(serviceId, tx.signer, tx.argument, tx.target)]
    /\ accounts' = accounts \cup {tx.target}
    /\ networkConfig' = [networkConfig EXCEPT !.serviceCount = serviceId + 1]
    /\ UNCHANGED proposals

\* The network authority's, or the service's own.
DeactivateAccepted(tx) ==
    LET service == services[tx.service] IN
    /\ service # Nobody
    /\ service.isActive
    /\ FromAuthority(tx) \/ tx.signer = service.authority

DeactivateService(tx) ==
    /\ tx.instruction = "deactivateService"
    /\ DeactivateAccepted(tx)
    /\ services' = [services EXCEPT ![tx.service].isActive = FALSE]
    /\ UNCHANGED <<networkConfig, proposals, accounts>>

\* Mutant: the nomination is open to everybody.
NominationAccepted_anySigner(tx) == tx.argument \notin {tx.signer, NoKey}

NominationAccepted(tx) ==
    /\ FromAuthority(tx)
    /\ tx.argument \notin {tx.signer, NoKey}

ProposeAuthority(tx) ==
    /\ tx.instruction = "proposeAuthority"
    /\ NominationAccepted(tx)
    /\ networkConfig' = [networkConfig EXCEPT !.pendingAuthority = tx.argument]
    /\ UNCHANGED <<services, proposals, accounts>>

AcceptAuthority(tx) ==
    /\ tx.instruction = "acceptAuthority"
    /\ tx.signer = networkConfig.pendingAuthority
    /\ networkConfig' = [networkConfig EXCEPT !.authority = tx.signer,
                                              !.pendingAuthority = NoKey]
    /\ UNCHANGED <<services, proposals, accounts>>

-----------------------------------------------------------------------------
\* Mutant: the address is taken, the account overwritten.
ProposalAccepted_overwrites(tx) ==
    LET service == services[tx.service] IN
    /\ FromAuthority(tx)
    /\ networkConfig.slashProposalCount < MaxProposals
    /\ service # Nobody
    /\ service.isActive /\ ~service.isSlashed /\ ~service.isBaseService

ProposalAccepted(tx) ==
    LET service == services[tx.service] IN
    /\ FromAuthority(tx)
    /\ networkConfig.slashProposalCount < MaxProposals
    /\ tx.target = SlashProposalPda(networkConfig.slashProposalCount)
    /\ proposals[tx.target] = Nobody
    /\ service # Nobody
    /\ service.isActive /\ ~service.isSlashed /\ ~service.isBaseService

ProposeSlash(tx) ==
    /\ tx.instruction = "proposeSlash"
    /\ ProposalAccepted(tx)
    /\ proposals' = [proposals EXCEPT ![tx.target] =
           [serviceId |-> tx.argument, proposer |-> tx.signer, inWindow |-> TRUE,
            isVetoed |-> FALSE, isFinalized |-> FALSE]]
    /\ networkConfig' = [networkConfig EXCEPT !.slashProposalCount = @ + 1]
    /\ UNCHANGED <<services, accounts>>

Open(proposal) == proposal # Nobody /\ ~proposal.isVetoed /\ ~proposal.isFinalized

\* The service account is the one of the proposal.
VetoAccepted(tx) ==
    LET proposal == proposals[tx.target] IN
    /\ FromAuthority(tx)
    /\ Open(proposal)
    /\ tx.service = ServicePda(proposal.serviceId)
    /\ proposal.inWindow

VetoSlash(tx) ==
    /\ tx.instruction = "vetoSlash"
    /\ VetoAccepted(tx)
    /\ proposals' = [proposals EXCEPT ![tx.target].isVetoed = TRUE]
    /\ UNCHANGED <<networkConfig, services, accounts>>

FinalizeAccepted(tx) ==
    LET proposal == proposals[tx.target] IN
    /\ Open(proposal)
    /\ tx.service = ServicePda(proposal.serviceId)
    /\ tx.record \notin accounts
    /\ ~proposal.inWindow

FinalizeSlash(tx) ==
    /\ tx.instruction = "finalizeSlash"
    /\ FinalizeAccepted(tx)
    /\ proposals' = [proposals EXCEPT ![tx.target].isFinalized = TRUE]
    /\ services' = [services EXCEPT ![tx.service].isSlashed = TRUE,
                                    ![tx.service].isActive = FALSE]
    /\ accounts' = accounts \cup {tx.record}
    /\ UNCHANGED networkConfig

\* The clock passes dispute_end.
WindowCloses(a) ==
    /\ proposals[a] # Nobody
    /\ proposals[a].inWindow
    /\ proposals' = [proposals EXCEPT ![a].inWindow = FALSE]
    /\ UNCHANGED <<networkConfig, services, accounts, inFlight, call, returned, calls>>

-----------------------------------------------------------------------------
Executes(tx) ==
    \/ RegisterService(tx)
    \/ DeactivateService(tx)
    \/ ProposeAuthority(tx)
    \/ AcceptAuthority(tx)
    \/ ProposeSlash(tx)
    \/ VetoSlash(tx)
    \/ FinalizeSlash(tx)

\* Whether some instruction handler takes the transaction.
Accepted(tx) ==
    CASE tx.instruction = "registerService"     -> RegisterAccepted(tx)
      [] tx.instruction = "deactivateService"   -> DeactivateAccepted(tx)
      [] tx.instruction = "proposeAuthority"    -> NominationAccepted(tx)
      [] tx.instruction = "acceptAuthority"     -> tx.signer = networkConfig.pendingAuthority
      [] tx.instruction = "proposeSlash"        -> ProposalAccepted(tx)
      [] tx.instruction = "vetoSlash"           -> VetoAccepted(tx)
      [] tx.instruction = "finalizeSlash"       -> FinalizeAccepted(tx)

Land(tx) == Executes(tx) /\ Settle(tx, "ok")

Refuse(tx) ==
    /\ ~Accepted(tx)
    /\ Settle(tx, "refused")
    /\ UNCHANGED ledger

\* Its blockhash is too old: it will never land.
Expire(tx) ==
    /\ Settle(tx, "error")
    /\ UNCHANGED ledger

Next ==
    \/ \E k \in Wallets : \E tx \in DirectTxs(k) : Call(k, tx)
    \/ \E k \in Wallets : \E c \in FetchingCalls : StartFetch(k, c)
    \/ \E k \in Wallets : FetchAndSend(k)
    \/ \E k \in Wallets : FetchThrows(k)
    \/ \E k \in Wallets : GiveUp(k)
    \/ \E tx \in inFlight : Land(tx)
    \/ \E tx \in inFlight : Refuse(tx)
    \/ \E tx \in inFlight : Expire(tx)
    \/ \E a \in ProposalAddresses : WindowCloses(a)

Spec == Init /\ [][Next]_vars

-----------------------------------------------------------------------------
\* Properties

TxOK(tx) ==
    /\ tx.signer \in Wallets
    /\ tx.instruction = "registerService" => tx.argument \in NewNames
    /\ tx.instruction = "deactivateService" => tx.service \in ServiceAddresses
    /\ tx.instruction = "proposeAuthority" => tx.argument \in Wallets
    /\ tx.instruction = "proposeSlash" =>
          tx.argument \in ServiceIds /\ tx.service = ServicePda(tx.argument)

(***************************************************************************)
(* Types.  No id is beyond the bounds of the registry, and a transaction   *)
(* on the way is one that a method of the client builds.                   *)
(***************************************************************************)
TypeOK ==
    /\ networkConfig \in NetworkConfigType
    /\ services \in [ServiceAddresses -> ServiceType \cup {Nobody}]
    /\ proposals \in [ProposalAddresses -> ProposalType \cup {Nobody}]
    /\ \A tx \in inFlight : TxOK(tx)

Registered == {ServicePda(i) : i \in 0 .. (networkConfig.serviceCount - 1)}
Proposed   == {SlashProposalPda(p) : p \in 0 .. (networkConfig.slashProposalCount - 1)}

(***************************************************************************)
(* The registry has no gap and no double: whatever registrations race on   *)
(* the same count, the services 0 .. serviceCount-1 exist, each at the     *)
(* address of its id with its own reward vault, and no other.  The web     *)
(* application and distributeRewards find a service by its id alone.       *)
(***************************************************************************)
RegistryDense ==
    /\ \A a \in ServiceAddresses : services[a] # Nobody <=> a \in Registered
    /\ \A i \in ServiceIds : services[ServicePda(i)] # Nobody =>
          LET service == services[ServicePda(i)] IN
          /\ service.serviceId = i
          /\ service.rewardVault = RewardVaultPda(i)
          /\ service.rewardVault \in accounts

\* What a signature stands for.
ReceiptHolds(tx) ==
    CASE tx.instruction = "registerService" ->
            /\ services[tx.service] # Nobody
            /\ services[tx.service].authority = tx.signer
            /\ services[tx.service].name = tx.argument
      [] tx.instruction = "proposeSlash" ->
            /\ proposals[tx.target] # Nobody
            /\ proposals[tx.target].serviceId = tx.argument
            /\ proposals[tx.target].proposer = tx.signer
      [] tx.instruction = "vetoSlash" ->
            proposals[tx.target].isVetoed /\ ~proposals[tx.target].isFinalized
      [] tx.instruction = "finalizeSlash" ->
            /\ proposals[tx.target].isFinalized /\ ~proposals[tx.target].isVetoed
            /\ services[tx.service].isSlashed
      [] OTHER -> TRUE

\* What a transaction on the way names.
NamesItsService(tx) ==
    tx.instruction \in {"vetoSlash", "finalizeSlash"} =>
        /\ tx.target \in Proposed
        /\ tx.service = ServicePda(proposals[tx.target].serviceId)

(***************************************************************************)
(* A call that returned a signature did what it was called for, on the     *)
(* account the client derived before sending, and keeps it: the service is *)
(* the caller's and bears the name, the proposal is against the service    *)
(* asked for, a veto or a finalization is the proposal's only outcome.     *)
(* One under way names the service of its proposal, although the proposal  *)
(* was read before and everything else has moved since: it can be late, it *)
(* cannot hit another service.                                             *)
(***************************************************************************)
ReceiptsHold ==
    /\ \A tx \in inFlight : NamesItsService(tx)
    /\ \A k \in Wallets : returned[k].outcome = "ok" => ReceiptHolds(returned[k].tx)

(***************************************************************************)
(* A registration whose arguments are in order is refused only because the *)
(* id it was built for is taken by now (possibly by the same wallet's      *)
(* earlier, abandoned attempt), so that calling again can succeed, or      *)
(* because the registry is full.  The client checks neither the threshold  *)
(* nor the mint (client.ts:231-268): a call with a wrong one is sent, and  *)
(* refused however often it is repeated (register_service.rs:69, 79).      *)
(***************************************************************************)
RefusalExplained ==
    \A k \in Wallets :
        returned[k].outcome = "refused" /\ returned[k].tx.instruction = "registerService" =>
            \/ returned[k].tx.service \in Registered
            \/ networkConfig.serviceCount = MaxServices
            \/ ~ArgumentsAccepted(returned[k].tx.argument)

Vetoed == {a \in ProposalAddresses : proposals[a] # Nobody /\ proposals[a].isVetoed}

Administers ==
    \/ networkConfig'.pendingAuthority \notin {networkConfig.pendingAuthority, NoKey}
    \/ networkConfig'.slashProposalCount # networkConfig.slashProposalCount
    \/ Vetoed' # Vetoed

(***************************************************************************)
(* The administration changes hands only as its holder said: parameters,   *)
(* nominations, proposals and vetoes come from the wallet that is the      *)
(* authority when they land, whoever it was when they were sent, and the   *)
(* authority moves only to the wallet it nominated last.                   *)
(***************************************************************************)
AdministeredByAuthority ==
    [][/\ Administers => \E tx \in inFlight \ inFlight' : tx.signer = networkConfig.authority
       /\ networkConfig'.authority # networkConfig.authority =>
              /\ networkConfig'.authority = networkConfig.pendingAuthority
              /\ \E tx \in inFlight \ inFlight' : tx.signer = networkConfig'.authority
      ]_vars

=============================================================================
