------------------------------ MODULE SdkProofs ------------------------------
(***************************************************************************)
(* Theorems about SdkClient, for any wallets, names and bounds: the types, *)
(* the density of the registry, the receipts, the refusals, and who        *)
(* administers.                                                            *)
(*                                                                         *)
(* The registry is inductive only together with the proposals, which have  *)
(* the same shape and name registered services, and with what is known of  *)
(* the transactions on the way.  What the ledger never takes back is the   *)
(* relation LedgerKeeps; the facts about transactions built from an        *)
(* earlier ledger, and about signatures returned, follow from it.  The     *)
(* refusals need more: that a reward vault exists only with its service.   *)
(***************************************************************************)
EXTENDS SdkClient, TLAPS

LedgerTyped ==
    /\ networkConfig \in NetworkConfigType
    /\ services \in [ServiceAddresses -> ServiceType \cup {Nobody}]
    /\ proposals \in [ProposalAddresses -> ProposalType \cup {Nobody}]

ProposalsDense ==
    \A a \in ProposalAddresses :
        /\ proposals[a] # Nobody <=> a \in Proposed
        /\ proposals[a] # Nobody => services[ServicePda(proposals[a].serviceId)] # Nobody

LedgerInv == LedgerTyped /\ RegistryDense /\ ProposalsDense

TransactionsInv == \A tx \in inFlight : TxOK(tx) /\ NamesItsService(tx)

\* The accounts a signature is about.
ReceiptAddressed(tx) ==
    /\ tx.instruction \in {"registerService", "finalizeSlash"} =>
           tx.service \in ServiceAddresses /\ services[tx.service] # Nobody
    /\ tx.instruction \in {"proposeSlash", "vetoSlash", "finalizeSlash"} =>
           tx.target \in ProposalAddresses /\ proposals[tx.target] # Nobody

ReceiptsInv ==
    /\ call = [k \in Wallets |-> call[k]]
    /\ returned = [k \in Wallets |-> returned[k]]
    /\ \A k \in Wallets : returned[k].outcome = "ok" =>
           ReceiptAddressed(returned[k].tx) /\ ReceiptHolds(returned[k].tx)

IInv == LedgerInv /\ TransactionsInv /\ ReceiptsInv

ServicesKept ==
    \A a \in ServiceAddresses : services[a] # Nobody =>
        /\ services'[a] # Nobody
        /\ services'[a].authority = services[a].authority
        /\ services'[a].name = services[a].name
        /\ services[a].isSlashed => services'[a].isSlashed

ProposalsKept ==
    \A a \in ProposalAddresses : proposals[a] # Nobody =>
        /\ proposals'[a] # Nobody
        /\ proposals'[a].serviceId = proposals[a].serviceId
        /\ proposals'[a].proposer = proposals[a].proposer
        /\ proposals[a].isVetoed /\ ~proposals[a].isFinalized =>
               proposals'[a].isVetoed /\ ~proposals'[a].isFinalized
        /\ proposals[a].isFinalized /\ ~proposals[a].isVetoed =>
               proposals'[a].isFinalized /\ ~proposals'[a].isVetoed

LedgerKeeps ==
    /\ ServicesKept
    /\ ProposalsKept
    /\ networkConfig'.slashProposalCount \in Nat
    /\ networkConfig'.slashProposalCount >= networkConfig.slashProposalCount

-----------------------------------------------------------------------------
\* Addresses

\* The seeds of an account of ProgramAddresses determine its id.
LEMMA SeedsInjective ==
    /\ \A i, j : ServicePda(i) = ServicePda(j) => i = j
    /\ \A i, j : SlashProposalPda(i) = SlashProposalPda(j) => i = j
    /\ \A i, j : RewardVaultPda(i) = RewardVaultPda(j) => i = j
  BY DEF ServicePda, SlashProposalPda, RewardVaultPda

\* "No account" is not an account.
LEMMA NobodyIsNoAccount ==
    ASSUME LedgerTyped
    PROVE  /\ \A a \in ServiceAddresses : services[a] # Nobody <=> services[a] \in ServiceType
           /\ \A a \in ProposalAddresses : proposals[a] # Nobody <=> proposals[a] \in ProposalType
  BY NobodyAssumption DEF LedgerTyped

\* The proposals made are at addresses of proposals.
LEMMA ProposedAddresses ==
    ASSUME LedgerTyped
    PROVE  Proposed \subseteq ProposalAddresses
  BY SdkAssumption DEF LedgerTyped, NetworkConfigType, Proposed, ProposalAddresses, ProposalIds

-----------------------------------------------------------------------------
\* The ledger

\* The network as the deployer left it has the shape of the registry.
LEMMA LedgerInit ==
    ASSUME Init
    PROVE  LedgerInv
  <1>1. networkConfig \in NetworkConfigType
    BY SdkAssumption DEF Init, NetworkConfigType
  <1>2. ASSUME NEW i \in ServiceIds, i < Len(InitialNames)
        PROVE  NewService(i, Deployer, InitialNames[i + 1], RewardVaultPda(i)) \in ServiceType
    <2>1. i + 1 \in 1 .. Len(InitialNames)
      BY <1>2, SdkAssumption DEF ServiceIds
    <2>2. InitialNames[i + 1] \in AllNames
      BY <2>1 DEF AllNames
    <2> QED
      BY <2>2, SdkAssumption DEF NewService, ServiceType
  <1>3. ASSUME NEW i \in ServiceIds
        PROVE  services[ServicePda(i)] =
                   IF i < Len(InitialNames)
                   THEN NewService(i, Deployer, InitialNames[i + 1], RewardVaultPda(i))
                   ELSE Nobody
    BY DEF Init, ServiceAddresses, ServicePda
  <1>4. services \in [ServiceAddresses -> ServiceType \cup {Nobody}]
    <2>1. services = [a \in ServiceAddresses |-> services[a]]
      BY DEF Init
    <2>2. \A a \in ServiceAddresses : services[a] \in ServiceType \cup {Nobody}
      BY <1>2, <1>3 DEF ServiceAddresses
    <2> QED
      BY <2>1, <2>2
  <1>5. proposals \in [ProposalAddresses -> ProposalType \cup {Nobody}]
    BY DEF Init
  <1>6. RegistryDense
    <2>1. ASSUME NEW i \in ServiceIds
          PROVE  services[ServicePda(i)] # Nobody <=> i < Len(InitialNames)
      BY <1>2, <1>3, NobodyAssumption
    <2>2. \A i \in ServiceIds : ServicePda(i) \in Registered <=> i < Len(InitialNames)
      BY SeedsInjective, SdkAssumption DEF Registered, Init, ServiceIds
    <2>3. ASSUME NEW i \in ServiceIds, services[ServicePda(i)] # Nobody
          PROVE  /\ services[ServicePda(i)].serviceId = i
                 /\ services[ServicePda(i)].rewardVault = RewardVaultPda(i)
                 /\ services[ServicePda(i)].rewardVault \in accounts
      <3>1. i < Len(InitialNames)
        BY <2>1, <2>3
      <3>2. i \in 0 .. (Len(InitialNames) - 1)
        BY <3>1, SdkAssumption DEF ServiceIds
      <3>3. RewardVaultPda(i) \in accounts
        BY <3>2 DEF Init
      <3>4. services[ServicePda(i)] =
                NewService(i, Deployer, InitialNames[i + 1], RewardVaultPda(i))
        BY <1>3, <3>1
      <3> QED
        BY <3>3, <3>4 DEF NewService
    <2> QED
      BY <2>1, <2>2, <2>3 DEF RegistryDense, ServiceAddresses
  <1>7. ProposalsDense
    BY DEF Init, ProposalsDense, Proposed, SlashProposalPda
  <1> QED
    BY <1>1, <1>4, <1>5, <1>6, <1>7 DEF LedgerInv, LedgerTyped

\* What a step that leaves the ledger alone keeps.
LEMMA LedgerStutters ==
    ASSUME LedgerInv, UNCHANGED ledger
    PROVE  LedgerInv' /\ LedgerKeeps
  <1> USE DEF ledger
  <1>1. LedgerTyped' /\ RegistryDense'
    BY DEF LedgerInv, LedgerTyped, RegistryDense, Registered
  <1>2. ProposalsDense'
    BY DEF LedgerInv, ProposalsDense, Proposed
  <1>3. ServicesKept /\ ProposalsKept
    BY DEF ServicesKept, ProposalsKept
  <1>4. networkConfig.slashProposalCount \in Nat
    BY SdkAssumption DEF LedgerInv, LedgerTyped, NetworkConfigType
  <1> QED
    BY <1>1, <1>2, <1>3, <1>4 DEF LedgerInv, LedgerKeeps

-----------------------------------------------------------------------------
\* Instructions

\* A registration takes the next id, whose accounts do not exist.
LEMMA RegisterServiceLedger ==
    ASSUME LedgerInv, NEW tx \in inFlight, TxOK(tx), RegisterService(tx)
    PROVE  LedgerInv' /\ LedgerKeeps /\ ReceiptAddressed(tx)' /\ ReceiptHolds(tx)'
  <1> DEFINE id == networkConfig.serviceCount
             service == NewService(id, tx.signer, tx.argument, tx.target)
  <1>1. /\ id \in ServiceIds /\ id + 1 \in 0 .. MaxServices
        /\ tx.service = ServicePda(id) /\ tx.service \in ServiceAddresses
        /\ tx.target = RewardVaultPda(id)
        /\ services[tx.service] = Nobody
    BY SdkAssumption DEF RegisterService, RegisterAccepted, LedgerInv, LedgerTyped,
       NetworkConfigType, ServiceIds, ServiceAddresses
  <1>2. /\ service \in ServiceType /\ service # Nobody
        /\ service.serviceId = id /\ service.rewardVault = RewardVaultPda(id)
        /\ service.authority = tx.signer /\ service.name = tx.argument
    <2>1. tx.signer \in Wallets /\ tx.argument \in AllNames
      BY DEF TxOK, RegisterService, AllNames
    <2>2. service \in ServiceType
      BY <1>1, <2>1 DEF NewService, ServiceType
    <2>3. service # Nobody
      BY <2>2, NobodyAssumption
    <2> QED
      BY <1>1, <2>2, <2>3 DEF NewService
  <1>3. services' = [services EXCEPT ![tx.service] = service]
    BY DEF RegisterService
  <1>4. /\ networkConfig' = [networkConfig EXCEPT !.serviceCount = id + 1]
        /\ accounts' = accounts \cup {tx.target}
        /\ UNCHANGED proposals
        /\ tx.instruction = "registerService"
    BY DEF RegisterService
  <1>5. LedgerTyped'
    BY <1>1, <1>2, <1>3, <1>4 DEF LedgerInv, LedgerTyped, NetworkConfigType
  <1>6. Registered' = Registered \cup {ServicePda(id)}
    BY <1>1, <1>4, SdkAssumption
       DEF Registered, LedgerInv, LedgerTyped, NetworkConfigType, ServiceIds
  <1>7. ASSUME NEW a \in ServiceAddresses, a # tx.service
        PROVE  services'[a] = services[a]
    BY <1>1, <1>3, <1>7 DEF LedgerInv, LedgerTyped
  <1>8. services'[tx.service] = service
    BY <1>1, <1>3 DEF LedgerInv, LedgerTyped
  <1>9. RegistryDense'
    <2>1. ASSUME NEW a \in ServiceAddresses
          PROVE  services'[a] # Nobody <=> a \in Registered'
      BY <1>1, <1>2, <1>6, <1>7, <1>8 DEF LedgerInv, RegistryDense
    <2>2. ASSUME NEW i \in ServiceIds, services'[ServicePda(i)] # Nobody
          PROVE  /\ services'[ServicePda(i)].serviceId = i
                 /\ services'[ServicePda(i)].rewardVault = RewardVaultPda(i)
                 /\ services'[ServicePda(i)].rewardVault \in accounts'
      <3>1. CASE i = id
        BY <1>1, <1>2, <1>4, <1>8, <3>1
      <3>2. CASE i # id
        <4>1. ServicePda(i) \in ServiceAddresses /\ ServicePda(i) # tx.service
          BY <1>1, <3>2, SeedsInjective DEF ServiceAddresses
        <4> QED
          BY <1>4, <1>7, <2>2, <4>1 DEF LedgerInv, RegistryDense
      <3> QED
        BY <3>1, <3>2
    <2> QED
      BY <2>1, <2>2 DEF RegistryDense
  <1>10. ServicesKept
    BY <1>1, <1>7 DEF ServicesKept
  <1>11. ProposalsDense'
    <2>1. Proposed' = Proposed
      BY <1>4 DEF Proposed, LedgerInv, LedgerTyped, NetworkConfigType
    <2>2. \A a \in ProposalAddresses : proposals[a] # Nobody =>
              ServicePda(proposals[a].serviceId) \in ServiceAddresses
      BY NobodyIsNoAccount DEF LedgerInv, ProposalType, ServiceAddresses
    <2> QED
      BY <1>4, <1>10, <2>1, <2>2 DEF LedgerInv, ProposalsDense, ServicesKept
  <1>12. /\ ProposalsKept
         /\ networkConfig'.slashProposalCount = networkConfig.slashProposalCount
         /\ networkConfig.slashProposalCount \in Nat
    BY <1>4, SdkAssumption DEF ProposalsKept, LedgerInv, LedgerTyped, NetworkConfigType
  <1>13. ReceiptAddressed(tx)' /\ ReceiptHolds(tx)'
    BY <1>1, <1>2, <1>4, <1>8 DEF ReceiptAddressed, ReceiptHolds
  <1> QED
    BY <1>5, <1>9, <1>10, <1>11, <1>12, <1>13 DEF LedgerInv, LedgerKeeps

\* A flag of a service that exists is set, and nothing else of it changes.
LEMMA RetirementLedger ==
    ASSUME LedgerInv, NEW a \in ServiceAddresses, services[a] # Nobody,
           NEW retired, retired \in ServiceType,
           retired.serviceId = services[a].serviceId, retired.authority = services[a].authority,
           retired.name = services[a].name, retired.rewardVault = services[a].rewardVault,
           services[a].isSlashed => retired.isSlashed,
           services' = [services EXCEPT ![a] = retired],
           UNCHANGED networkConfig, accounts \subseteq accounts'
    PROVE  /\ services' \in [ServiceAddresses -> ServiceType \cup {Nobody}]
           /\ RegistryDense' /\ ServicesKept
           /\ \A b \in ServiceAddresses : services'[b] # Nobody <=> services[b] # Nobody
  <1>1. services' \in [ServiceAddresses -> ServiceType \cup {Nobody}]
    BY DEF LedgerInv, LedgerTyped
  <1>2. ASSUME NEW b \in ServiceAddresses
        PROVE  services'[b] = IF b = a THEN retired ELSE services[b]
    BY DEF LedgerInv, LedgerTyped
  <1>3. retired # Nobody
    BY NobodyAssumption
  <1>4. \A b \in ServiceAddresses : services'[b] # Nobody <=> services[b] # Nobody
    BY <1>2, <1>3
  <1>5. ServicesKept
    BY <1>2, <1>3 DEF ServicesKept
  <1>6. Registered' = Registered
    BY DEF Registered
  <1>7. ASSUME NEW i \in ServiceIds, services'[ServicePda(i)] # Nobody
        PROVE  /\ services'[ServicePda(i)].serviceId = i
               /\ services'[ServicePda(i)].rewardVault = RewardVaultPda(i)
               /\ services'[ServicePda(i)].rewardVault \in accounts'
    <2>1. ServicePda(i) \in ServiceAddresses
      BY DEF ServiceAddresses
    <2>2. services[ServicePda(i)] # Nobody
      BY <1>4, <1>7, <2>1
    <2>3. /\ services[ServicePda(i)].serviceId = i
          /\ services[ServicePda(i)].rewardVault = RewardVaultPda(i)
          /\ services[ServicePda(i)].rewardVault \in accounts
      BY <2>2 DEF LedgerInv, RegistryDense
    <2> QED
      BY <1>2, <2>1, <2>3
  <1>8. RegistryDense'
    BY <1>4, <1>6, <1>7 DEF LedgerInv, RegistryDense
  <1> QED
    BY <1>1, <1>4, <1>5, <1>8

\* The proposals are left alone while no service disappears.
LEMMA ProposalsFrame ==
    ASSUME LedgerInv, UNCHANGED proposals,
           networkConfig'.slashProposalCount = networkConfig.slashProposalCount,
           \A a \in ServiceAddresses : services[a] # Nobody => services'[a] # Nobody
    PROVE  ProposalsDense' /\ ProposalsKept
  <1>1. Proposed' = Proposed
    BY DEF Proposed
  <1>2. \A a \in ProposalAddresses : proposals[a] # Nobody =>
            ServicePda(proposals[a].serviceId) \in ServiceAddresses
    BY NobodyIsNoAccount DEF LedgerInv, ProposalType, ServiceAddresses
  <1>3. ProposalsDense'
    BY <1>1, <1>2 DEF LedgerInv, ProposalsDense
  <1>4. ProposalsKept
    BY DEF ProposalsKept
  <1> QED
    BY <1>3, <1>4

\* A deactivation clears one flag.
LEMMA DeactivateServiceLedger ==
    ASSUME LedgerInv, NEW tx \in inFlight, TxOK(tx), DeactivateService(tx)
    PROVE  LedgerInv' /\ LedgerKeeps /\ ReceiptAddressed(tx)' /\ ReceiptHolds(tx)'
  <1> DEFINE retired == [services[tx.service] EXCEPT !.isActive = FALSE]
  <1>1. /\ tx.instruction = "deactivateService"
        /\ tx.service \in ServiceAddresses /\ services[tx.service] # Nobody
        /\ services' = [services EXCEPT ![tx.service] = retired]
        /\ UNCHANGED <<networkConfig, proposals, accounts>>
    BY DEF DeactivateService, DeactivateAccepted, TxOK
  <1>2. services[tx.service] \in ServiceType
    BY <1>1, NobodyIsNoAccount DEF LedgerInv
  <1>3. /\ retired \in ServiceType
        /\ retired.serviceId = services[tx.service].serviceId
        /\ retired.authority = services[tx.service].authority
        /\ retired.name = services[tx.service].name
        /\ retired.rewardVault = services[tx.service].rewardVault
        /\ services[tx.service].isSlashed => retired.isSlashed
    BY <1>2 DEF ServiceType
  <1>4. /\ services' \in [ServiceAddresses -> ServiceType \cup {Nobody}]
        /\ RegistryDense' /\ ServicesKept
        /\ \A b \in ServiceAddresses : services'[b] # Nobody <=> services[b] # Nobody
    <2> HIDE DEF retired
    <2> QED
      BY <1>1, <1>3, RetirementLedger
  <1>5. ProposalsDense' /\ ProposalsKept
    BY <1>1, <1>4, ProposalsFrame
  <1>6. networkConfig.slashProposalCount \in Nat
    BY SdkAssumption DEF LedgerInv, LedgerTyped, NetworkConfigType
  <1>7. ReceiptAddressed(tx)' /\ ReceiptHolds(tx)'
    BY <1>1 DEF ReceiptAddressed, ReceiptHolds
  <1> QED
    BY <1>1, <1>4, <1>5, <1>6, <1>7 DEF LedgerInv, LedgerTyped, LedgerKeeps

\* A nomination and its acceptance write the configuration only.
LEMMA AuthorityLedger ==
    ASSUME LedgerInv, NEW tx \in inFlight, TxOK(tx), ProposeAuthority(tx) \/ AcceptAuthority(tx)
    PROVE  LedgerInv' /\ LedgerKeeps /\ ReceiptAddressed(tx)' /\ ReceiptHolds(tx)'
  <1>1. /\ tx.instruction \in {"proposeAuthority", "acceptAuthority"}
        /\ UNCHANGED <<services, proposals, accounts>>
    BY DEF ProposeAuthority, AcceptAuthority
  <1>2. /\ networkConfig' \in NetworkConfigType
        /\ networkConfig'.serviceCount = networkConfig.serviceCount
        /\ networkConfig'.slashProposalCount = networkConfig.slashProposalCount
    <2>1. CASE ProposeAuthority(tx)
      BY <2>1 DEF ProposeAuthority, TxOK, LedgerInv, LedgerTyped, NetworkConfigType
    <2>2. CASE AcceptAuthority(tx)
      BY <2>2 DEF AcceptAuthority, TxOK, LedgerInv, LedgerTyped, NetworkConfigType
    <2> QED
      BY <2>1, <2>2
  <1>3. RegistryDense' /\ ServicesKept
    BY <1>1, <1>2 DEF LedgerInv, RegistryDense, Registered, ServicesKept
  <1>4. ProposalsDense' /\ ProposalsKept
    BY <1>1, <1>2, ProposalsFrame
  <1>5. networkConfig.slashProposalCount \in Nat
    BY SdkAssumption DEF LedgerInv, LedgerTyped, NetworkConfigType
  <1>6. ReceiptAddressed(tx)' /\ ReceiptHolds(tx)'
    BY <1>1 DEF ReceiptAddressed, ReceiptHolds
  <1> QED
    BY <1>1, <1>2, <1>3, <1>4, <1>5, <1>6 DEF LedgerInv, LedgerTyped, LedgerKeeps

\* A proposal takes the next id, and names a service that exists.
LEMMA ProposeSlashLedger ==
    ASSUME LedgerInv, NEW tx \in inFlight, TxOK(tx), ProposeSlash(tx)
    PROVE  LedgerInv' /\ LedgerKeeps /\ ReceiptAddressed(tx)' /\ ReceiptHolds(tx)'
  <1> DEFINE id == networkConfig.slashProposalCount
             proposal == [serviceId |-> tx.argument, proposer |-> tx.signer, inWindow |-> TRUE,
                          isVetoed |-> FALSE, isFinalized |-> FALSE]
  <1>1. /\ id \in ProposalIds /\ id + 1 \in 0 .. MaxProposals
        /\ tx.target = SlashProposalPda(id) /\ tx.target \in ProposalAddresses
        /\ proposals[tx.target] = Nobody
    BY SdkAssumption DEF ProposeSlash, ProposalAccepted, LedgerInv, LedgerTyped,
       NetworkConfigType, ProposalIds, ProposalAddresses
  <1>2. /\ tx.argument \in ServiceIds /\ tx.service = ServicePda(tx.argument)
        /\ services[tx.service] # Nobody /\ tx.signer \in Wallets
        /\ tx.instruction = "proposeSlash"
        /\ proposals' = [proposals EXCEPT ![tx.target] = proposal]
        /\ networkConfig' = [networkConfig EXCEPT !.slashProposalCount = id + 1]
        /\ UNCHANGED <<services, accounts>>
    BY DEF ProposeSlash, ProposalAccepted, TxOK
  <1>3. proposal \in ProposalType /\ proposal # Nobody
    <2>1. proposal \in ProposalType
      BY <1>2 DEF ProposalType
    <2> QED
      BY <2>1, NobodyAssumption
  <1>4. LedgerTyped'
    BY <1>1, <1>2, <1>3 DEF LedgerInv, LedgerTyped, NetworkConfigType
  <1>5. RegistryDense' /\ ServicesKept
    BY <1>2 DEF LedgerInv, LedgerTyped, NetworkConfigType, RegistryDense, Registered, ServicesKept
  <1>6. Proposed' = Proposed \cup {SlashProposalPda(id)}
    BY <1>1, <1>2, SdkAssumption
       DEF Proposed, LedgerInv, LedgerTyped, NetworkConfigType, ProposalIds
  <1>7. /\ \A a \in ProposalAddresses : a # tx.target => proposals'[a] = proposals[a]
        /\ proposals'[tx.target] = proposal
    BY <1>1, <1>2 DEF LedgerInv, LedgerTyped
  <1>8. ProposalsDense'
    BY <1>1, <1>2, <1>3, <1>6, <1>7 DEF LedgerInv, ProposalsDense
  <1>9. ProposalsKept
    BY <1>1, <1>7 DEF ProposalsKept
  <1>10. /\ networkConfig'.slashProposalCount \in Nat
         /\ networkConfig'.slashProposalCount >= networkConfig.slashProposalCount
    BY <1>2, SdkAssumption DEF LedgerInv, LedgerTyped, NetworkConfigType
  <1>11. ReceiptAddressed(tx)' /\ ReceiptHolds(tx)'
    BY <1>1, <1>2, <1>3, <1>7 DEF ReceiptAddressed, ReceiptHolds
  <1> QED
    BY <1>4, <1>5, <1>8, <1>9, <1>10, <1>11 DEF LedgerInv, LedgerKeeps

\* A proposal moves on, still against the same service by the same wallet.
LEMMA ProposalLedger ==
    ASSUME LedgerInv, NEW a \in ProposalAddresses, proposals[a] # Nobody,
           NEW moved, moved \in ProposalType,
           moved.serviceId = proposals[a].serviceId, moved.proposer = proposals[a].proposer,
           \/ /\ moved.isVetoed = proposals[a].isVetoed
              /\ moved.isFinalized = proposals[a].isFinalized
           \/ ~proposals[a].isVetoed /\ ~proposals[a].isFinalized,
           proposals' = [proposals EXCEPT ![a] = moved],
           UNCHANGED networkConfig,
           \A b \in ServiceAddresses : services[b] # Nobody => services'[b] # Nobody
    PROVE  /\ proposals' \in [ProposalAddresses -> ProposalType \cup {Nobody}]
           /\ ProposalsDense' /\ ProposalsKept
           /\ proposals'[a] = moved /\ moved # Nobody
  <1>1. proposals' \in [ProposalAddresses -> ProposalType \cup {Nobody}]
    BY DEF LedgerInv, LedgerTyped
  <1>2. \A b \in ProposalAddresses : proposals'[b] = IF b = a THEN moved ELSE proposals[b]
    BY DEF LedgerInv, LedgerTyped
  <1>3. moved # Nobody
    BY NobodyAssumption
  <1>4. Proposed' = Proposed
    BY DEF Proposed
  <1>5. \A b \in ProposalAddresses : proposals[b] # Nobody =>
            ServicePda(proposals[b].serviceId) \in ServiceAddresses
    BY NobodyIsNoAccount DEF LedgerInv, ProposalType, ServiceAddresses
  <1>6. ProposalsDense'
    BY <1>2, <1>3, <1>4, <1>5 DEF LedgerInv, ProposalsDense
  <1>7. ProposalsKept
    BY <1>2, <1>3 DEF ProposalsKept
  <1> QED
    BY <1>1, <1>2, <1>3, <1>6, <1>7

\* A veto and a finalization are for a proposal that was made.
LEMMA NamedProposal ==
    ASSUME LedgerInv, NEW tx, NamesItsService(tx),
           tx.instruction \in {"vetoSlash", "finalizeSlash"}
    PROVE  /\ tx.target \in ProposalAddresses /\ proposals[tx.target] # Nobody
           /\ proposals[tx.target] \in ProposalType
           /\ tx.service = ServicePda(proposals[tx.target].serviceId)
           /\ tx.service \in ServiceAddresses /\ services[tx.service] # Nobody
           /\ services[tx.service] \in ServiceType
  <1>1. tx.target \in Proposed /\ tx.service = ServicePda(proposals[tx.target].serviceId)
    BY DEF NamesItsService
  <1>2. tx.target \in ProposalAddresses
    BY <1>1, ProposedAddresses DEF LedgerInv
  <1>3. proposals[tx.target] # Nobody /\ services[tx.service] # Nobody
    BY <1>1, <1>2 DEF LedgerInv, ProposalsDense
  <1>4. proposals[tx.target] \in ProposalType
    BY <1>2, <1>3, NobodyIsNoAccount DEF LedgerInv
  <1>5. tx.service \in ServiceAddresses
    BY <1>1, <1>4 DEF ProposalType, ServiceAddresses
  <1> QED
    BY <1>1, <1>2, <1>3, <1>4, <1>5, NobodyIsNoAccount DEF LedgerInv

\* A veto moves its proposal, which was made.
LEMMA VetoSlashLedger ==
    ASSUME LedgerInv, NEW tx \in inFlight, NamesItsService(tx), VetoSlash(tx)
    PROVE  LedgerInv' /\ LedgerKeeps /\ ReceiptAddressed(tx)' /\ ReceiptHolds(tx)'
  <1> DEFINE old   == proposals[tx.target]
             moved == [old EXCEPT !.isVetoed = TRUE]
  <1>1. /\ tx.instruction = "vetoSlash"
        /\ ~old.isVetoed /\ ~old.isFinalized
        /\ proposals' = [proposals EXCEPT ![tx.target] = moved]
        /\ UNCHANGED <<networkConfig, services, accounts>>
    BY DEF VetoSlash, VetoAccepted, Open
  <1>2. tx.target \in ProposalAddresses /\ old # Nobody /\ old \in ProposalType
    BY <1>1, NamedProposal
  <1>3. /\ moved \in ProposalType
        /\ moved.serviceId = old.serviceId /\ moved.proposer = old.proposer
        /\ moved.isVetoed /\ ~moved.isFinalized
    BY <1>1, <1>2 DEF ProposalType
  <1>4. /\ proposals' \in [ProposalAddresses -> ProposalType \cup {Nobody}]
        /\ ProposalsDense' /\ ProposalsKept
        /\ proposals'[tx.target] = moved /\ moved # Nobody
    <2> HIDE DEF moved
    <2> QED
      BY <1>1, <1>2, <1>3, ProposalLedger
  <1>5. RegistryDense' /\ ServicesKept
    BY <1>1 DEF LedgerInv, RegistryDense, Registered, ServicesKept
  <1>6. networkConfig.slashProposalCount \in Nat
    BY SdkAssumption DEF LedgerInv, LedgerTyped, NetworkConfigType
  <1>7. ReceiptAddressed(tx)' /\ ReceiptHolds(tx)'
    BY <1>1, <1>2, <1>3, <1>4 DEF ReceiptAddressed, ReceiptHolds
  <1> QED
    BY <1>1, <1>4, <1>5, <1>6, <1>7 DEF LedgerInv, LedgerTyped, LedgerKeeps

\* A finalization moves its proposal and retires the service it names.
LEMMA FinalizeSlashLedger ==
    ASSUME LedgerInv, NEW tx \in inFlight, NamesItsService(tx), FinalizeSlash(tx)
    PROVE  LedgerInv' /\ LedgerKeeps /\ ReceiptAddressed(tx)' /\ ReceiptHolds(tx)'
  <1> DEFINE old     == proposals[tx.target]
             moved   == [old EXCEPT !.isFinalized = TRUE]
             retired == [services[tx.service] EXCEPT !.isSlashed = TRUE, !.isActive = FALSE]
  <1>1. /\ tx.instruction = "finalizeSlash"
        /\ ~old.isVetoed /\ ~old.isFinalized
        /\ proposals' = [proposals EXCEPT ![tx.target] = moved]
        /\ accounts' = accounts \cup {tx.record}
        /\ UNCHANGED networkConfig
    BY DEF FinalizeSlash, FinalizeAccepted, Open
  <1>2. /\ tx.target \in ProposalAddresses /\ old # Nobody /\ old \in ProposalType
        /\ tx.service \in ServiceAddresses /\ services[tx.service] # Nobody
        /\ services[tx.service] \in ServiceType
    BY <1>1, NamedProposal
  <1>3. services' = [services EXCEPT ![tx.service] = retired]
    BY <1>2 DEF FinalizeSlash, LedgerInv, LedgerTyped
  <1>4. /\ moved \in ProposalType
        /\ moved.serviceId = old.serviceId /\ moved.proposer = old.proposer
        /\ moved.isFinalized /\ ~moved.isVetoed
    BY <1>1, <1>2 DEF ProposalType
  <1>5. /\ retired \in ServiceType
        /\ retired.serviceId = services[tx.service].serviceId
        /\ retired.authority = services[tx.service].authority
        /\ retired.name = services[tx.service].name
        /\ retired.rewardVault = services[tx.service].rewardVault
        /\ retired.isSlashed
    BY <1>2 DEF ServiceType
  <1>6. /\ services' \in [ServiceAddresses -> ServiceType \cup {Nobody}]
        /\ RegistryDense' /\ ServicesKept
        /\ \A b \in ServiceAddresses : services'[b] # Nobody <=> services[b] # Nobody
        /\ services'[tx.service].isSlashed
    <2> HIDE DEF retired
    <2>1. services'[tx.service] = retired
      BY <1>2, <1>3 DEF LedgerInv, LedgerTyped
    <2> QED
      BY <1>1, <1>2, <1>3, <1>5, <2>1, RetirementLedger
  <1>7. /\ proposals' \in [ProposalAddresses -> ProposalType \cup {Nobody}]
        /\ ProposalsDense' /\ ProposalsKept
        /\ proposals'[tx.target] = moved /\ moved # Nobody
    <2> HIDE DEF moved
    <2> QED
      BY <1>1, <1>2, <1>4, <1>6, ProposalLedger
  <1>8. networkConfig.slashProposalCount \in Nat
    BY SdkAssumption DEF LedgerInv, LedgerTyped, NetworkConfigType
  <1>9. ReceiptAddressed(tx)' /\ ReceiptHolds(tx)'
    BY <1>1, <1>2, <1>4, <1>6, <1>7 DEF ReceiptAddressed, ReceiptHolds
  <1> QED
    BY <1>1, <1>6, <1>7, <1>8, <1>9 DEF LedgerInv, LedgerTyped, LedgerKeeps

\* Whatever instruction it is, the transaction that lands earns its receipt.
LEMMA ExecutesLedger ==
    ASSUME LedgerInv, NEW tx \in inFlight, TxOK(tx), NamesItsService(tx), Executes(tx)
    PROVE  LedgerInv' /\ LedgerKeeps /\ ReceiptAddressed(tx)' /\ ReceiptHolds(tx)'
  BY RegisterServiceLedger, DeactivateServiceLedger, AuthorityLedger, ProposeSlashLedger,
     VetoSlashLedger, FinalizeSlashLedger DEF Executes

\* The clock moves a proposal without settling it.
LEMMA WindowClosesLedger ==
    ASSUME LedgerInv, NEW a \in ProposalAddresses, WindowCloses(a)
    PROVE  LedgerInv' /\ LedgerKeeps
  <1> DEFINE moved == [proposals[a] EXCEPT !.inWindow = FALSE]
  <1>1. /\ proposals[a] # Nobody
        /\ proposals' = [proposals EXCEPT ![a] = moved]
        /\ UNCHANGED <<networkConfig, services, accounts>>
    BY DEF WindowCloses
  <1>2. proposals[a] \in ProposalType
    BY <1>1, NobodyIsNoAccount DEF LedgerInv
  <1>3. /\ moved \in ProposalType
        /\ moved.serviceId = proposals[a].serviceId /\ moved.proposer = proposals[a].proposer
        /\ moved.isVetoed = proposals[a].isVetoed /\ moved.isFinalized = proposals[a].isFinalized
    BY <1>2 DEF ProposalType
  <1>4. /\ proposals' \in [ProposalAddresses -> ProposalType \cup {Nobody}]
        /\ ProposalsDense' /\ ProposalsKept
    <2> HIDE DEF moved
    <2> QED
      BY <1>1, <1>3, ProposalLedger
  <1>5. RegistryDense' /\ ServicesKept
    BY <1>1 DEF LedgerInv, RegistryDense, Registered, ServicesKept
  <1>6. networkConfig.slashProposalCount \in Nat
    BY SdkAssumption DEF LedgerInv, LedgerTyped, NetworkConfigType
  <1> QED
    BY <1>1, <1>4, <1>5, <1>6 DEF LedgerInv, LedgerTyped, LedgerKeeps

-----------------------------------------------------------------------------
\* Transactions on the way and receipts

\* What a transaction names stays what it was when it was built.
LEMMA TransactionsFrame ==
    ASSUME LedgerInv, LedgerKeeps, TransactionsInv, inFlight' \subseteq inFlight
    PROVE  TransactionsInv'
  <1> SUFFICES ASSUME NEW tx \in inFlight'
               PROVE  TxOK(tx)' /\ NamesItsService(tx)'
    BY DEF TransactionsInv
  <1>1. TxOK(tx) /\ NamesItsService(tx)
    BY DEF TransactionsInv
  <1>2. TxOK(tx)'
    BY <1>1 DEF TxOK
  <1>3. ASSUME tx.instruction \in {"vetoSlash", "finalizeSlash"}
        PROVE  tx.target \in Proposed' /\ tx.service = ServicePda(proposals'[tx.target].serviceId)
    <2>1. /\ tx.target \in ProposalAddresses /\ proposals[tx.target] # Nobody
          /\ tx.service = ServicePda(proposals[tx.target].serviceId)
      BY <1>1, <1>3, NamedProposal
    <2>2. proposals'[tx.target].serviceId = proposals[tx.target].serviceId
      BY <2>1 DEF LedgerKeeps, ProposalsKept
    <2>3. tx.target \in Proposed
      BY <1>1, <1>3 DEF NamesItsService
    <2>4. Proposed \subseteq Proposed'
      BY SdkAssumption DEF LedgerInv, LedgerTyped, NetworkConfigType, LedgerKeeps, Proposed
    <2> QED
      BY <2>1, <2>2, <2>3, <2>4
  <1>4. NamesItsService(tx)'
    BY <1>3 DEF NamesItsService
  <1> QED
    BY <1>2, <1>4

\* Signing sets the blockhash alone.
LEMMA SendTransactions ==
    ASSUME LedgerInv, TransactionsInv, NEW k \in Wallets,
           NEW i, NEW s, NEW address, NEW target, NEW argument, NEW record,
           NEW tx, tx = [instruction |-> i, signer |-> s, service |-> address, target |-> target,
                         argument |-> argument, record |-> record, blockhash |-> 0],
           TxOK(tx), NamesItsService(tx), Send(k, tx)
    PROVE  TransactionsInv'
  <1>1. UNCHANGED ledger
    BY DEF Send
  <1>2. PICK h : inFlight' = inFlight \cup {[tx EXCEPT !.blockhash = h]}
    BY Zenon DEF Send
  <1> DEFINE signed == [tx EXCEPT !.blockhash = h]
  <1>3. /\ signed.instruction = tx.instruction /\ signed.signer = tx.signer
        /\ signed.service = tx.service /\ signed.target = tx.target
        /\ signed.argument = tx.argument
    OBVIOUS
  <1>4. inFlight' = inFlight \cup {signed}
    BY <1>2
  <1> HIDE DEF signed
  <1>5. TxOK(signed) /\ NamesItsService(signed)
    BY <1>3 DEF TxOK, NamesItsService
  <1>6. \A t : TxOK(t) => TxOK(t)'
    BY DEF TxOK
  <1>7. \A t : NamesItsService(t) => NamesItsService(t)'
    BY <1>1 DEF NamesItsService, Proposed, ledger
  <1> QED
    BY <1>4, <1>5, <1>6, <1>7 DEF TransactionsInv

\* A receipt holds for ever.
LEMMA ReceiptKept ==
    ASSUME LedgerKeeps, NEW tx, ReceiptAddressed(tx), ReceiptHolds(tx)
    PROVE  ReceiptAddressed(tx)' /\ ReceiptHolds(tx)'
  <1>1. CASE tx.instruction = "registerService"
    BY <1>1 DEF LedgerKeeps, ServicesKept, ReceiptAddressed, ReceiptHolds
  <1>2. CASE tx.instruction = "proposeSlash"
    BY <1>2 DEF LedgerKeeps, ProposalsKept, ReceiptAddressed, ReceiptHolds
  <1>3. CASE tx.instruction = "vetoSlash"
    BY <1>3 DEF LedgerKeeps, ProposalsKept, ReceiptAddressed, ReceiptHolds
  <1>4. CASE tx.instruction = "finalizeSlash"
    BY <1>4 DEF LedgerKeeps, ServicesKept, ProposalsKept, ReceiptAddressed, ReceiptHolds
  <1>5. CASE tx.instruction \notin {"registerService", "proposeSlash", "vetoSlash",
                                     "finalizeSlash"}
    BY <1>5 DEF ReceiptAddressed, ReceiptHolds
  <1> QED
    BY <1>1, <1>2, <1>3, <1>4, <1>5

\* No method of a wallet returns, or it returns without a signature.
LEMMA ReceiptsFrame ==
    ASSUME LedgerKeeps, ReceiptsInv, NEW k \in Wallets,
           NEW c, call' = [call EXCEPT ![k] = c] \/ UNCHANGED call,
           NEW r, r.outcome # "ok", returned' = [returned EXCEPT ![k] = r] \/ UNCHANGED returned
    PROVE  ReceiptsInv'
  <1>1. call' = [j \in Wallets |-> call'[j]] /\ returned' = [j \in Wallets |-> returned'[j]]
    BY DEF ReceiptsInv
  <1>2. ASSUME NEW j \in Wallets, returned'[j].outcome = "ok"
        PROVE  ReceiptAddressed(returned[j].tx)' /\ ReceiptHolds(returned[j].tx)'
    <2>1. returned'[j] = returned[j]
      BY <1>2 DEF ReceiptsInv
    <2>2. PICK tx : tx = returned[j].tx
      OBVIOUS
    <2>3. ReceiptAddressed(tx) /\ ReceiptHolds(tx)
      BY <1>2, <2>1, <2>2 DEF ReceiptsInv
    <2>4. ReceiptAddressed(tx)' /\ ReceiptHolds(tx)'
      BY <2>3, ReceiptKept
    <2>5. tx = returned'[j].tx
      BY <2>1, <2>2
    <2> QED
      BY <2>4, <2>5 DEF ReceiptAddressed, ReceiptHolds
  <1> QED
    BY <1>1, <1>2 DEF ReceiptsInv

\* A transaction that landed returns a signature, if somebody waits for it.
LEMMA ReceiptsLanding ==
    ASSUME LedgerKeeps, ReceiptsInv, NEW tx, tx.signer \in Wallets,
           ReceiptAddressed(tx)', ReceiptHolds(tx)', Settle(tx, "ok")
    PROVE  ReceiptsInv'
  <1> DEFINE k == tx.signer
  <1>1. CASE call[k].tx = tx
    <2>1. /\ call' = [call EXCEPT ![k] = Idle]
          /\ returned' = [returned EXCEPT ![k] = [outcome |-> "ok", tx |-> tx]]
      BY <1>1 DEF Settle, Return
    <2>2. call' = [j \in Wallets |-> call'[j]] /\ returned' = [j \in Wallets |-> returned'[j]]
      BY <2>1 DEF ReceiptsInv
    <2>3. ASSUME NEW j \in Wallets, returned'[j].outcome = "ok"
          PROVE  ReceiptAddressed(returned[j].tx)' /\ ReceiptHolds(returned[j].tx)'
      <3>1. CASE j = k
        <4>1. returned'[j].tx = tx
          BY <2>1, <3>1 DEF ReceiptsInv
        <4> QED
          BY <4>1 DEF ReceiptAddressed, ReceiptHolds
      <3>2. CASE j # k
        <4>1. returned'[j] = returned[j]
          BY <2>1, <3>2 DEF ReceiptsInv
        <4>2. PICK t : t = returned[j].tx
          OBVIOUS
        <4>3. ReceiptAddressed(t) /\ ReceiptHolds(t)
          BY <2>3, <4>1, <4>2 DEF ReceiptsInv
        <4>4. ReceiptAddressed(t)' /\ ReceiptHolds(t)'
          BY <4>3, ReceiptKept
        <4>5. t = returned'[j].tx
          BY <4>1, <4>2
        <4> QED
          BY <4>4, <4>5 DEF ReceiptAddressed, ReceiptHolds
      <3> QED
        BY <3>1, <3>2
    <2> QED
      BY <2>2, <2>3 DEF ReceiptsInv
  <1>2. CASE call[k].tx # tx
    <2>1. UNCHANGED <<call, returned>>
      BY <1>2 DEF Settle
    <2>2. NotReturned.outcome # "ok"
      BY DEF NotReturned
    <2> QED
      BY <2>1, <2>2, ReceiptsFrame
  <1> QED
    BY <1>1, <1>2

-----------------------------------------------------------------------------
\* Steps

\* The network as deployed, with nothing sent.
LEMMA InvInit ==
    ASSUME Init
    PROVE  IInv
  <1>1. LedgerInv
    BY LedgerInit
  <1>2. TransactionsInv
    BY DEF Init, TransactionsInv
  <1>3. ReceiptsInv
    BY DEF Init, ReceiptsInv, NotReturned
  <1> QED
    BY <1>1, <1>2, <1>3 DEF IInv

\* A method that sends at once.
LEMMA CallInv ==
    ASSUME IInv, NEW k \in Wallets, NEW tx \in DirectTxs(k), Call(k, tx)
    PROVE  IInv'
  <1>1. LedgerInv' /\ LedgerKeeps
    BY LedgerStutters DEF IInv, Call, Send
  <1>2. TxOK(tx) /\ NamesItsService(tx)
    BY DEF DirectTxs, ProposeAuthorityTx, AcceptAuthorityTx, DeactivateServiceTx, Tx, TxOK,
       NamesItsService
  <1>3. PICK i, address, target, argument, record :
            tx = [instruction |-> i, signer |-> k, service |-> address, target |-> target,
                  argument |-> argument, record |-> record, blockhash |-> 0]
    BY DEF DirectTxs, ProposeAuthorityTx, AcceptAuthorityTx, DeactivateServiceTx, Tx
  <1>4. TransactionsInv'
    BY <1>2, <1>3, SendTransactions DEF IInv, Call
  <1>5. ReceiptsInv'
    <2>1. PICK c : call' = [call EXCEPT ![k] = c]
      BY DEF Call, Send
    <2>2. returned' = [returned EXCEPT ![k] = NotReturned] /\ NotReturned.outcome # "ok"
      BY DEF Call, Enter, NotReturned
    <2> QED
      BY <1>1, <2>1, <2>2, ReceiptsFrame DEF IInv
  <1> QED
    BY <1>1, <1>4, <1>5 DEF IInv

\* A wallet's step that sends nothing and returns no signature.
LEMMA IdleInv ==
    ASSUME IInv, UNCHANGED ledger, inFlight' \subseteq inFlight, NEW k \in Wallets,
           NEW c, call' = [call EXCEPT ![k] = c] \/ UNCHANGED call,
           NEW r, r.outcome # "ok", returned' = [returned EXCEPT ![k] = r] \/ UNCHANGED returned
    PROVE  IInv'
  <1>1. LedgerInv' /\ LedgerKeeps
    BY LedgerStutters DEF IInv
  <1>2. TransactionsInv'
    BY <1>1, TransactionsFrame DEF IInv
  <1>3. ReceiptsInv'
    BY <1>1, ReceiptsFrame DEF IInv
  <1> QED
    BY <1>1, <1>2, <1>3 DEF IInv

\* The transaction is built from accounts fetched in the same ledger.
LEMMA FetchedTx ==
    ASSUME IInv, NEW k \in Wallets, call[k] \in FetchingCalls, ~Throws(call[k]),
           NEW tx, tx = TxOf(k)
    PROVE  /\ TxOK(tx) /\ NamesItsService(tx)
           /\ \E i, address, target, argument, record :
                  tx = [instruction |-> i, signer |-> k, service |-> address, target |-> target,
                        argument |-> argument, record |-> record, blockhash |-> 0]
  <1>1. CASE \E n \in NewNames : call[k] = MethodCall("registerService", n)
    <2>1. PICK n \in NewNames : call[k] = MethodCall("registerService", n)
      BY <1>1
    <2>2. tx = RegisterServiceTx(k, n)
      BY <2>1 DEF TxOf, MethodCall
    <2>3. tx = [instruction |-> "registerService", signer |-> k,
                service |-> ServicePda(networkConfig.serviceCount),
                target |-> RewardVaultPda(networkConfig.serviceCount),
                argument |-> n, record |-> Nobody, blockhash |-> 0]
      BY <2>2 DEF RegisterServiceTx, Tx
    <2>4. TxOK(tx) /\ NamesItsService(tx)
      BY <2>3 DEF TxOK, NamesItsService
    <2> QED
      BY <2>3, <2>4
  <1>2. CASE \E s \in ServiceIds : call[k] = MethodCall("proposeSlash", s)
    <2>1. PICK s \in ServiceIds : call[k] = MethodCall("proposeSlash", s)
      BY <1>2
    <2>2. tx = ProposeSlashTx(k, s)
      BY <2>1 DEF TxOf, MethodCall
    <2>3. tx = [instruction |-> "proposeSlash", signer |-> k, service |-> ServicePda(s),
                target |-> SlashProposalPda(networkConfig.slashProposalCount),
                argument |-> s, record |-> Nobody, blockhash |-> 0]
      BY <2>2 DEF ProposeSlashTx, Tx
    <2>4. TxOK(tx) /\ NamesItsService(tx)
      BY <2>3 DEF TxOK, NamesItsService
    <2> QED
      BY <2>3, <2>4
  <1>3. CASE \E m \in {"vetoSlash", "finalizeSlash"}, p \in ProposalIds :
                 call[k] = MethodCall(m, p)
    <2>1. PICK m \in {"vetoSlash", "finalizeSlash"}, p \in ProposalIds :
              call[k] = MethodCall(m, p)
      BY <1>3
    <2>2. proposals[SlashProposalPda(p)] # Nobody
      BY <2>1 DEF Throws, MethodCall
    <2>3. SlashProposalPda(p) \in Proposed
      BY <2>2 DEF IInv, LedgerInv, ProposalsDense, ProposalAddresses
    <2>4. tx = VetoSlashTx(k, p) \/ tx = FinalizeSlashTx(k, p)
      BY <2>1 DEF TxOf, MethodCall
    <2>5. /\ tx.instruction \in {"vetoSlash", "finalizeSlash"} /\ tx.signer = k
          /\ tx.target = SlashProposalPda(p)
          /\ tx.service = ServicePda(proposals[SlashProposalPda(p)].serviceId)
      BY <2>4 DEF VetoSlashTx, FinalizeSlashTx, Tx
    <2>6. TxOK(tx) /\ NamesItsService(tx)
      BY <2>3, <2>5 DEF TxOK, NamesItsService
    <2>7. \E i, address, target, argument, record :
              tx = [instruction |-> i, signer |-> k, service |-> address, target |-> target,
                    argument |-> argument, record |-> record, blockhash |-> 0]
      BY <2>4 DEF VetoSlashTx, FinalizeSlashTx, Tx
    <2> QED
      BY <2>6, <2>7
  <1> QED
    BY <1>1, <1>2, <1>3 DEF FetchingCalls

\* A method that fetched first.
LEMMA FetchAndSendInv ==
    ASSUME IInv, NEW k \in Wallets, FetchAndSend(k)
    PROVE  IInv'
  <1>1. LedgerInv' /\ LedgerKeeps
    BY LedgerStutters DEF IInv, FetchAndSend, Send
  <1>2. PICK tx : tx = TxOf(k)
    OBVIOUS
  <1>3. call[k] \in FetchingCalls /\ ~Throws(call[k]) /\ Send(k, tx) /\ UNCHANGED returned
    BY <1>2 DEF FetchAndSend
  <1>4. TxOK(tx) /\ NamesItsService(tx)
    BY <1>2, <1>3, FetchedTx
  <1>5. PICK i, address, target, argument, record :
            tx = [instruction |-> i, signer |-> k, service |-> address, target |-> target,
                  argument |-> argument, record |-> record, blockhash |-> 0]
    BY <1>2, <1>3, FetchedTx
  <1>6. TransactionsInv'
    BY <1>3, <1>4, <1>5, SendTransactions DEF IInv
  <1>7. ReceiptsInv'
    <2>1. PICK c : call' = [call EXCEPT ![k] = c]
      BY <1>3 DEF Send
    <2>2. NotReturned.outcome # "ok"
      BY DEF NotReturned
    <2> QED
      BY <1>1, <1>3, <2>1, <2>2, ReceiptsFrame DEF IInv
  <1> QED
    BY <1>1, <1>6, <1>7 DEF IInv

\* What lands executes, and its caller is told.
LEMMA LandInv ==
    ASSUME IInv, NEW tx \in inFlight, Land(tx)
    PROVE  IInv'
  <1>1. TxOK(tx) /\ NamesItsService(tx) /\ tx.signer \in Wallets
    BY DEF IInv, TransactionsInv, TxOK
  <1>2. LedgerInv' /\ LedgerKeeps /\ ReceiptAddressed(tx)' /\ ReceiptHolds(tx)'
    BY <1>1, ExecutesLedger DEF IInv, Land
  <1>3. TransactionsInv'
    BY <1>2, TransactionsFrame DEF IInv, Land, Settle
  <1>4. ReceiptsInv'
    BY <1>1, <1>2, ReceiptsLanding DEF IInv, Land
  <1> QED
    BY <1>2, <1>3, <1>4 DEF IInv

\* Refused, expired: the ledger is as it was.
LEMMA UnsettledInv ==
    ASSUME IInv, NEW tx \in inFlight, Refuse(tx) \/ Expire(tx)
    PROVE  IInv'
  <1>1. tx.signer \in Wallets
    BY DEF IInv, TransactionsInv, TxOK
  <1>2. PICK outcome \in {"refused", "error"} : Settle(tx, outcome) /\ UNCHANGED ledger
    BY DEF Refuse, Expire
  <1>3. inFlight' \subseteq inFlight
    BY <1>2 DEF Settle
  <1>4. PICK r : r.outcome # "ok" /\ (\/ returned' = [returned EXCEPT ![tx.signer] = r]
                                      \/ UNCHANGED returned)
    <2>1. CASE call[tx.signer].tx = tx
      <3> DEFINE r == [outcome |-> outcome, tx |-> IF outcome = "error" THEN Nobody ELSE tx]
      <3>1. returned' = [returned EXCEPT ![tx.signer] = r]
        BY <1>2, <2>1 DEF Settle, Return
      <3>2. r.outcome # "ok"
        OBVIOUS
      <3> QED
        BY <3>1, <3>2
    <2>2. CASE call[tx.signer].tx # tx
      <3>1. UNCHANGED returned
        BY <1>2, <2>2 DEF Settle
      <3>2. NotReturned.outcome # "ok"
        BY DEF NotReturned
      <3> QED
        BY <3>1, <3>2
    <2> QED
      BY <2>1, <2>2
  <1>5. call' = [call EXCEPT ![tx.signer] = Idle] \/ UNCHANGED call
    BY <1>2 DEF Settle, Return
  <1> QED
    BY <1>1, <1>2, <1>3, <1>4, <1>5, IdleInv

\* Every step keeps the inductive invariant.
LEMMA InvStep ==
    ASSUME IInv, [Next]_vars
    PROVE  IInv'
  <1>1. ASSUME NEW k \in Wallets, NEW tx \in DirectTxs(k), Call(k, tx)
        PROVE  IInv'
    BY <1>1, CallInv
  <1>2. ASSUME NEW k \in Wallets, NEW c \in FetchingCalls, StartFetch(k, c)
        PROVE  IInv'
    <2>1. NotReturned.outcome # "ok"
      BY DEF NotReturned
    <2> QED
      BY <1>2, <2>1, IdleInv DEF StartFetch, Enter
  <1>3. ASSUME NEW k \in Wallets, FetchAndSend(k)
        PROVE  IInv'
    BY <1>3, FetchAndSendInv
  <1>4. ASSUME NEW k \in Wallets, FetchThrows(k) \/ GiveUp(k)
        PROVE  IInv'
    <2> DEFINE r == [outcome |-> "error", tx |-> Nobody]
    <2>1. r.outcome # "ok"
      OBVIOUS
    <2>2. /\ UNCHANGED ledger /\ UNCHANGED inFlight
          /\ call' = [call EXCEPT ![k] = Idle]
          /\ returned' = [returned EXCEPT ![k] = r]
      BY <1>4 DEF FetchThrows, GiveUp, Return
    <2> HIDE DEF r
    <2> QED
      BY <2>1, <2>2, IdleInv
  <1>5. ASSUME NEW tx \in inFlight, Land(tx)
        PROVE  IInv'
    BY <1>5, LandInv
  <1>6. ASSUME NEW tx \in inFlight, Refuse(tx) \/ Expire(tx)
        PROVE  IInv'
    BY <1>6, UnsettledInv
  <1>7. ASSUME (\E a \in ProposalAddresses : WindowCloses(a)) \/ UNCHANGED vars
        PROVE  IInv'
    <2>1. LedgerInv' /\ LedgerKeeps
      BY <1>7, WindowClosesLedger, LedgerStutters DEF IInv, vars, ledger
    <2>2. UNCHANGED <<inFlight, call, returned>>
      BY <1>7 DEF WindowCloses, vars
    <2>3. TransactionsInv'
      BY <2>1, <2>2, TransactionsFrame DEF IInv
    <2>4. ReceiptsInv'
      <3>1. CASE \E k : k \in Wallets
        <4>1. NotReturned.outcome # "ok"
          BY DEF NotReturned
        <4> QED
          BY <2>1, <2>2, <3>1, <4>1, ReceiptsFrame DEF IInv
      <3>2. CASE Wallets = {}
        BY <2>2, <3>2 DEF IInv, ReceiptsInv
      <3> QED
        BY <3>1, <3>2
    <2> QED
      BY <2>1, <2>3, <2>4 DEF IInv
  <1> QED
    BY <1>1, <1>2, <1>3, <1>4, <1>5, <1>6, <1>7 DEF Next

-----------------------------------------------------------------------------
\* The inductive invariant.
THEOREM InvariantHolds == Spec => []IInv
  BY InvInit, InvStep, PTL DEF Spec

(***************************************************************************)
(* No id leaves the bounds of the registry, and every transaction on the   *)
(* way is one a method of the client builds.                               *)
(***************************************************************************)
THEOREM TypesHold == Spec => []TypeOK
  <1>1. IInv => TypeOK
    BY DEF IInv, LedgerInv, LedgerTyped, TransactionsInv, TypeOK
  <1> QED
    BY <1>1, InvariantHolds, PTL

(***************************************************************************)
(* Whatever registrations race on one count, the registry has no gap and   *)
(* no double: registerService and register_service agree on the addresses. *)
(***************************************************************************)
THEOREM RegistryIsDense == Spec => []RegistryDense
  <1>1. IInv => RegistryDense
    BY DEF IInv, LedgerInv
  <1> QED
    BY <1>1, InvariantHolds, PTL

(***************************************************************************)
(* A signature returned stands for what the method was called for, then    *)
(* and for ever, and a veto or finalization under way cannot hit a service *)
(* other than its proposal's.                                              *)
(***************************************************************************)
THEOREM ReceiptsAreGood == Spec => []ReceiptsHold
  <1>1. IInv => ReceiptsHold
    BY DEF IInv, TransactionsInv, ReceiptsInv, ReceiptsHold
  <1> QED
    BY <1>1, InvariantHolds, PTL

-----------------------------------------------------------------------------
\* The administration

Quiet == /\ networkConfig' = networkConfig
         /\ Vetoed' = Vetoed

HandedOver ==
    networkConfig'.authority # networkConfig.authority =>
        /\ networkConfig'.authority = networkConfig.pendingAuthority
        /\ \E tx \in inFlight \ inFlight' : tx.signer = networkConfig'.authority

\* Only a veto makes a proposal vetoed.
LEMMA VetoedFrame ==
    ASSUME LedgerTyped, NEW a \in ProposalAddresses,
           NEW moved, moved # Nobody, moved.isVetoed <=> a \in Vetoed,
           proposals' = [proposals EXCEPT ![a] = moved]
    PROVE  Vetoed' = Vetoed
  <1>1. \A b \in ProposalAddresses : proposals'[b] = IF b = a THEN moved ELSE proposals[b]
    BY DEF LedgerTyped
  <1> QED
    BY <1>1 DEF Vetoed

\* Vetoes, proposals and nominations are the authority's when they land.
LEMMA LandAdministers ==
    ASSUME IInv, NEW tx \in inFlight, Land(tx)
    PROVE  /\ Administers => \E t \in inFlight \ inFlight' : t.signer = networkConfig.authority
           /\ HandedOver
  <1>1. tx \in inFlight \ inFlight'
    BY DEF Land, Settle
  <1>2. TxOK(tx) /\ NamesItsService(tx) /\ LedgerTyped
    BY DEF IInv, LedgerInv, TransactionsInv
  <1>3. CASE RegisterService(tx) \/ DeactivateService(tx)
    <2>1. /\ networkConfig'.authority = networkConfig.authority
          /\ networkConfig'.pendingAuthority = networkConfig.pendingAuthority
          /\ networkConfig'.slashProposalCount = networkConfig.slashProposalCount
          /\ UNCHANGED proposals
      BY <1>2, <1>3 DEF RegisterService, DeactivateService, LedgerTyped, NetworkConfigType
    <2>2. Vetoed' = Vetoed
      BY <2>1 DEF Vetoed
    <2> QED
      BY <2>1, <2>2 DEF Administers, HandedOver
  <1>4. CASE ProposeAuthority(tx)
    <2>1. /\ tx.signer = networkConfig.authority
          /\ networkConfig'.authority = networkConfig.authority
      BY <1>2, <1>4 DEF ProposeAuthority, NominationAccepted, FromAuthority, LedgerTyped,
         NetworkConfigType
    <2> QED
      BY <1>1, <2>1 DEF HandedOver
  <1>5. CASE AcceptAuthority(tx)
    <2>1. /\ tx.signer = networkConfig.pendingAuthority
          /\ networkConfig'.authority = tx.signer
          /\ networkConfig'.pendingAuthority = NoKey
          /\ networkConfig'.slashProposalCount = networkConfig.slashProposalCount
          /\ UNCHANGED proposals
      BY <1>2, <1>5 DEF AcceptAuthority, LedgerTyped, NetworkConfigType
    <2>2. Vetoed' = Vetoed
      BY <2>1 DEF Vetoed
    <2> QED
      BY <1>1, <2>1, <2>2 DEF Administers, HandedOver
  <1>6. CASE ProposeSlash(tx) \/ VetoSlash(tx)
    <2>1. /\ tx.signer = networkConfig.authority
          /\ networkConfig'.authority = networkConfig.authority
      BY <1>2, <1>6 DEF ProposeSlash, VetoSlash, ProposalAccepted, VetoAccepted, FromAuthority,
         LedgerTyped, NetworkConfigType
    <2> QED
      BY <1>1, <2>1 DEF HandedOver
  <1>7. CASE FinalizeSlash(tx)
    <2> DEFINE moved == [proposals[tx.target] EXCEPT !.isFinalized = TRUE]
    <2>1. /\ UNCHANGED networkConfig
          /\ proposals' = [proposals EXCEPT ![tx.target] = moved]
          /\ tx.instruction = "finalizeSlash"
      BY <1>7 DEF FinalizeSlash
    <2>2. tx.target \in ProposalAddresses /\ proposals[tx.target] \in ProposalType
          /\ proposals[tx.target] # Nobody
      BY <1>2, <2>1, NamedProposal DEF IInv
    <2>3. moved \in ProposalType /\ (moved.isVetoed <=> tx.target \in Vetoed)
      BY <2>2 DEF ProposalType, Vetoed
    <2>4. moved # Nobody
      BY <2>3, NobodyAssumption
    <2>5. Vetoed' = Vetoed
      <3> HIDE DEF moved
      <3> QED
        BY <1>2, <2>1, <2>2, <2>3, <2>4, VetoedFrame
    <2> QED
      BY <2>1, <2>5 DEF Administers, HandedOver
  <1> QED
    BY <1>3, <1>4, <1>5, <1>6, <1>7 DEF Land, Executes

\* Every other step leaves the administration alone.
LEMMA OthersQuiet ==
    ASSUME IInv, [Next]_vars, ~ \E tx \in inFlight : Land(tx)
    PROVE  Quiet
  <1>1. CASE UNCHANGED ledger
    BY <1>1 DEF Quiet, Vetoed, ledger
  <1>2. CASE \E a \in ProposalAddresses : WindowCloses(a)
    <2>1. PICK a \in ProposalAddresses : WindowCloses(a)
      BY <1>2
    <2> DEFINE moved == [proposals[a] EXCEPT !.inWindow = FALSE]
    <2>2. /\ UNCHANGED networkConfig
          /\ proposals' = [proposals EXCEPT ![a] = moved]
          /\ proposals[a] # Nobody
      BY <2>1 DEF WindowCloses
    <2>3. proposals[a] \in ProposalType
      BY <2>2, NobodyIsNoAccount DEF IInv, LedgerInv
    <2>4. moved \in ProposalType /\ (moved.isVetoed <=> a \in Vetoed)
      BY <2>2, <2>3 DEF ProposalType, Vetoed
    <2>5. moved # Nobody
      BY <2>4, NobodyAssumption
    <2> HIDE DEF moved
    <2> QED
      BY <2>2, <2>4, <2>5, VetoedFrame DEF Quiet, IInv, LedgerInv
  <1>3. UNCHANGED ledger \/ \E a \in ProposalAddresses : WindowCloses(a)
    BY DEF Next, vars, ledger, Call, Send, StartFetch, FetchAndSend, FetchThrows, GiveUp, Refuse,
       Expire
  <1> QED
    BY <1>1, <1>2, <1>3

(***************************************************************************)
(* The authority of propose_authority.rs, propose_slash.rs and             *)
(* veto_slash.rs is the one at the time of execution, and accept_authority *)
(* passes it to the last nominee alone, however the calls of the client    *)
(* interleave with the hand-over.                                          *)
(***************************************************************************)
THEOREM AuthorityAdministers == Spec => AdministeredByAuthority
  <1>1. ASSUME IInv, [Next]_vars
        PROVE  /\ Administers =>
                      \E tx \in inFlight \ inFlight' : tx.signer = networkConfig.authority
               /\ HandedOver
    <2>1. CASE \E tx \in inFlight : Land(tx)
      BY <1>1, <2>1, LandAdministers
    <2>2. CASE ~ \E tx \in inFlight : Land(tx)
      BY <1>1, <2>2, OthersQuiet DEF Quiet, Administers, HandedOver
    <2> QED
      BY <2>1, <2>2
  <1>2. IInv /\ [Next]_vars =>
            [/\ Administers =>
                    \E tx \in inFlight \ inFlight' : tx.signer = networkConfig.authority
             /\ networkConfig'.authority # networkConfig.authority =>
                    /\ networkConfig'.authority = networkConfig.pendingAuthority
                    /\ \E tx \in inFlight \ inFlight' : tx.signer = networkConfig'.authority
            ]_vars
    BY <1>1 DEF HandedOver
  <1> QED
    BY <1>2, InvariantHolds, PTL DEF Spec, AdministeredByAuthority

-----------------------------------------------------------------------------
\* Refusals

\* Built from a count the registry had once.
Registration(tx) ==
    \E i \in 0 .. networkConfig.serviceCount :
        tx.service = ServicePda(i) /\ tx.target = RewardVaultPda(i)

VaultsRegistered ==
    \A i \in ServiceIds : RewardVaultPda(i) \in accounts => i < networkConfig.serviceCount

BuiltFrom(tx) ==
    /\ tx.instruction = "registerService" => Registration(tx)
    /\ tx.instruction = "finalizeSlash" => \E p : tx.record = SlashRecordPda(p)

RefusalInv ==
    /\ \A tx \in inFlight : BuiltFrom(tx)
    /\ VaultsRegistered
    /\ RefusalExplained

\* The registry only grows.
LEMMA CountGrows ==
    ASSUME IInv, [Next]_vars
    PROVE  /\ networkConfig.serviceCount \in 0 .. MaxServices
           /\ networkConfig'.serviceCount \in 0 .. MaxServices
           /\ networkConfig'.serviceCount >= networkConfig.serviceCount
  <1>1. networkConfig.serviceCount \in 0 .. MaxServices
    BY DEF IInv, LedgerInv, LedgerTyped, NetworkConfigType
  <1>2. networkConfig'.serviceCount \in 0 .. MaxServices
    BY InvStep DEF IInv, LedgerInv, LedgerTyped, NetworkConfigType
  <1>3. CASE UNCHANGED networkConfig
    BY <1>1, <1>3, SdkAssumption
  <1>4. ASSUME NEW tx \in inFlight, Executes(tx)
        PROVE  networkConfig'.serviceCount \in {networkConfig.serviceCount,
                                                networkConfig.serviceCount + 1}
    BY <1>4
       DEF Executes, RegisterService, DeactivateService, ProposeAuthority, AcceptAuthority,
           ProposeSlash, VetoSlash, FinalizeSlash, IInv, LedgerInv, LedgerTyped, NetworkConfigType
  <1>5. UNCHANGED networkConfig \/ \E tx \in inFlight : Executes(tx)
    BY DEF Next, vars, ledger, Call, Send, StartFetch, FetchAndSend, FetchThrows, GiveUp, Land,
       Refuse, Expire, WindowCloses
  <1> QED
    BY <1>1, <1>2, <1>3, <1>4, <1>5, SdkAssumption

\* Signing keeps the accounts named.
LEMMA SendBuilt ==
    ASSUME NEW k \in Wallets,
           NEW i, NEW s, NEW address, NEW target, NEW argument, NEW record,
           NEW tx, tx = [instruction |-> i, signer |-> s, service |-> address, target |-> target,
                         argument |-> argument, record |-> record, blockhash |-> 0],
           \A t \in inFlight : BuiltFrom(t), BuiltFrom(tx), Send(k, tx)
    PROVE  \A t \in inFlight' : BuiltFrom(t)
  <1>1. PICK h : inFlight' = inFlight \cup {[tx EXCEPT !.blockhash = h]}
    BY Zenon DEF Send
  <1> DEFINE signed == [tx EXCEPT !.blockhash = h]
  <1>2. /\ signed.instruction = tx.instruction /\ signed.service = tx.service
        /\ signed.target = tx.target /\ signed.record = tx.record
    OBVIOUS
  <1>3. inFlight' = inFlight \cup {signed}
    BY <1>1
  <1> HIDE DEF signed
  <1>4. BuiltFrom(signed)
    BY <1>2 DEF BuiltFrom, Registration
  <1> QED
    BY <1>3, <1>4

LEMMA BuiltStep ==
    ASSUME IInv, RefusalInv, [Next]_vars
    PROVE  \A t \in inFlight' : BuiltFrom(t)
  <1>1. ASSUME NEW k \in Wallets, NEW tx \in DirectTxs(k), Call(k, tx)
        PROVE  \A t \in inFlight' : BuiltFrom(t)
    <2>1. PICK i, address, target, argument, record :
              tx = [instruction |-> i, signer |-> k, service |-> address, target |-> target,
                    argument |-> argument, record |-> record, blockhash |-> 0]
      BY DEF DirectTxs, ProposeAuthorityTx, AcceptAuthorityTx, DeactivateServiceTx, Tx
    <2>2. BuiltFrom(tx)
      BY DEF DirectTxs, ProposeAuthorityTx, AcceptAuthorityTx, DeactivateServiceTx, Tx, BuiltFrom
    <2> QED
      BY <1>1, <2>1, <2>2, SendBuilt DEF RefusalInv, Call
  <1>2. ASSUME NEW k \in Wallets, FetchAndSend(k)
        PROVE  \A t \in inFlight' : BuiltFrom(t)
    <2>1. PICK tx : tx = TxOf(k)
      OBVIOUS
    <2>2. call[k] \in FetchingCalls /\ ~Throws(call[k]) /\ Send(k, tx)
      BY <1>2, <2>1 DEF FetchAndSend
    <2>3. PICK i, address, target, argument, record :
              tx = [instruction |-> i, signer |-> k, service |-> address, target |-> target,
                    argument |-> argument, record |-> record, blockhash |-> 0]
      BY <2>1, <2>2, FetchedTx
    <2>4. BuiltFrom(tx)
      <3>1. ASSUME NEW n \in NewNames, call[k] = MethodCall("registerService", n)
            PROVE  BuiltFrom(tx)
        <4>1. tx = RegisterServiceTx(k, n)
          BY <2>1, <3>1 DEF TxOf, MethodCall
        <4>2. /\ tx.instruction = "registerService"
              /\ tx.service = ServicePda(networkConfig.serviceCount)
              /\ tx.target = RewardVaultPda(networkConfig.serviceCount)
          BY <4>1 DEF RegisterServiceTx, Tx
        <4>3. networkConfig.serviceCount \in 0 .. networkConfig.serviceCount
          BY SdkAssumption DEF IInv, LedgerInv, LedgerTyped, NetworkConfigType
        <4> QED
          BY <4>2, <4>3 DEF BuiltFrom, Registration
      <3>2. ASSUME NEW p \in ProposalIds, call[k] = MethodCall("finalizeSlash", p)
            PROVE  BuiltFrom(tx)
        <4>1. tx = FinalizeSlashTx(k, p)
          BY <2>1, <3>2 DEF TxOf, MethodCall
        <4>2. tx.instruction = "finalizeSlash" /\ tx.record = SlashRecordPda(p)
          BY <4>1 DEF FinalizeSlashTx, Tx
        <4> QED
          BY <4>2 DEF BuiltFrom
      <3>3. ASSUME NEW s \in ServiceIds, call[k] = MethodCall("proposeSlash", s)
            PROVE  BuiltFrom(tx)
        <4>1. tx = ProposeSlashTx(k, s)
          BY <2>1, <3>3 DEF TxOf, MethodCall
        <4> QED
          BY <4>1 DEF ProposeSlashTx, Tx, BuiltFrom
      <3>4. ASSUME NEW p \in ProposalIds, call[k] = MethodCall("vetoSlash", p)
            PROVE  BuiltFrom(tx)
        <4>1. tx = VetoSlashTx(k, p)
          BY <2>1, <3>4 DEF TxOf, MethodCall
        <4> QED
          BY <4>1 DEF VetoSlashTx, Tx, BuiltFrom
      <3> QED
        BY <2>2, <3>1, <3>2, <3>3, <3>4 DEF FetchingCalls
    <2> QED
      BY <2>2, <2>3, <2>4, SendBuilt DEF RefusalInv
  <1>3. CASE inFlight' \subseteq inFlight
    BY <1>3 DEF RefusalInv
  <1>4. \/ \E k \in Wallets : \E tx \in DirectTxs(k) : Call(k, tx)
        \/ \E k \in Wallets : FetchAndSend(k)
        \/ inFlight' \subseteq inFlight
    BY DEF Next, vars, StartFetch, FetchThrows, GiveUp, Land, Refuse, Expire, Settle, WindowCloses
  <1> QED
    BY <1>1, <1>2, <1>3, <1>4

\* A reward vault comes with the registration of its service.
LEMMA VaultsStep ==
    ASSUME IInv, RefusalInv, [Next]_vars
    PROVE  VaultsRegistered'
  <1> DEFINE count == networkConfig.serviceCount
  <1>1. count \in Nat /\ count' \in Nat /\ count' >= count
    BY CountGrows, SdkAssumption
  <1>2. CASE UNCHANGED accounts
    BY <1>1, <1>2 DEF RefusalInv, VaultsRegistered, ServiceIds
  <1>3. ASSUME NEW tx \in inFlight, RegisterService(tx)
        PROVE  VaultsRegistered'
    <2>1. /\ accounts' = accounts \cup {RewardVaultPda(count)}
          /\ count' = count + 1
      BY <1>3 DEF RegisterService, RegisterAccepted, IInv, LedgerInv, LedgerTyped,
         NetworkConfigType
    <2>2. ASSUME NEW i \in ServiceIds, RewardVaultPda(i) \in accounts'
          PROVE  i < count'
      <3>1. RewardVaultPda(i) \in accounts \/ i = count
        BY <2>1, <2>2, SeedsInjective
      <3> QED
        BY <1>1, <2>1, <3>1 DEF RefusalInv, VaultsRegistered, ServiceIds
    <2> QED
      BY <2>2 DEF VaultsRegistered
  <1>4. ASSUME NEW tx \in inFlight, FinalizeSlash(tx)
        PROVE  VaultsRegistered'
    <2>1. PICK p : accounts' = accounts \cup {SlashRecordPda(p)}
      BY <1>4 DEF FinalizeSlash, RefusalInv, BuiltFrom
    <2>2. \A i : RewardVaultPda(i) # SlashRecordPda(p)
      BY DEF RewardVaultPda, SlashRecordPda
    <2> QED
      BY <1>1, <2>1, <2>2 DEF RefusalInv, VaultsRegistered, ServiceIds
  <1>5. \/ UNCHANGED accounts
        \/ \E tx \in inFlight : RegisterService(tx) \/ FinalizeSlash(tx)
    BY DEF Next, vars, ledger, Call, Send, StartFetch, FetchAndSend, FetchThrows, GiveUp, Land,
       Executes, DeactivateService, ProposeAuthority, AcceptAuthority, ProposeSlash, VetoSlash,
       Refuse, Expire, WindowCloses
  <1> QED
    BY <1>2, <1>3, <1>4, <1>5

\* Why a registration that the program does not take is not taken.
LEMMA RefusedRegistration ==
    ASSUME IInv, RefusalInv, NEW tx \in inFlight, ~Accepted(tx),
           tx.instruction = "registerService"
    PROVE  \/ tx.service \in Registered
           \/ networkConfig.serviceCount = MaxServices
           \/ ~ArgumentsAccepted(tx.argument)
  <1> DEFINE count == networkConfig.serviceCount
  <1>1. count \in 0 .. MaxServices
    BY DEF IInv, LedgerInv, LedgerTyped, NetworkConfigType
  <1>2. ~RegisterAccepted(tx)
    BY DEF Accepted
  <1>3. PICK i \in 0 .. count : tx.service = ServicePda(i) /\ tx.target = RewardVaultPda(i)
    BY DEF RefusalInv, BuiltFrom, Registration
  <1>4. CASE i < count
    <2>1. i \in 0 .. (count - 1)
      BY <1>1, <1>4, SdkAssumption
    <2> QED
      BY <1>3, <2>1 DEF Registered
  <1>5. CASE i = count /\ count < MaxServices /\ ArgumentsAccepted(tx.argument)
    <2>1. i \in ServiceIds /\ ServicePda(i) \in ServiceAddresses
      BY <1>1, <1>5, SdkAssumption DEF ServiceIds, ServiceAddresses
    <2>2. tx.target \notin accounts
      BY <1>1, <1>3, <1>5, <2>1, SdkAssumption DEF RefusalInv, VaultsRegistered
    <2>3. services[tx.service] # Nobody
      BY <1>2, <1>3, <1>5, <2>2 DEF RegisterAccepted
    <2> QED
      BY <1>3, <2>1, <2>3 DEF IInv, LedgerInv, RegistryDense
  <1> QED
    BY <1>1, <1>3, <1>4, <1>5, SdkAssumption

\* Which steps return "refused".
LEMMA RefusedReturns ==
    ASSUME IInv, [Next]_vars, NEW k \in Wallets, returned'[k].outcome = "refused"
    PROVE  \/ returned'[k] = returned[k]
           \/ \E tx \in inFlight : returned'[k].tx = tx /\ ~Accepted(tx) /\ UNCHANGED ledger
  <1>1. returned = [j \in Wallets |-> returned[j]]
    BY DEF IInv, ReceiptsInv
  <1>2. ASSUME NEW j, NEW outcome, NEW t, Return(j, outcome, t)
        PROVE  returned'[k] = returned[k] \/ returned'[k] = [outcome |-> outcome, tx |-> t]
    BY <1>1, <1>2 DEF Return
  <1>3. ASSUME NEW j, Enter(j)
        PROVE  returned'[k] = returned[k]
    <2>1. returned'[k] = returned[k] \/ returned'[k] = NotReturned
      BY <1>1, <1>3 DEF Enter
    <2> QED
      BY <2>1 DEF NotReturned
  <1>4. ASSUME NEW tx \in inFlight, NEW outcome \in {"ok", "error"}, Settle(tx, outcome)
        PROVE  returned'[k] = returned[k]
    <2>1. CASE call[tx.signer].tx = tx
      <3>1. PICK t : Return(tx.signer, outcome, t)
        BY <1>4, <2>1 DEF Settle
      <3>2. returned'[k] = returned[k] \/ returned'[k] = [outcome |-> outcome, tx |-> t]
        BY <1>2, <3>1
      <3> QED
        BY <3>2
    <2>2. CASE call[tx.signer].tx # tx
      BY <1>4, <2>2 DEF Settle
    <2> QED
      BY <2>1, <2>2
  <1>5. ASSUME NEW tx \in inFlight, Refuse(tx)
        PROVE  returned'[k] = returned[k] \/
                   (returned'[k].tx = tx /\ ~Accepted(tx) /\ UNCHANGED ledger)
    <2>1. ~Accepted(tx) /\ UNCHANGED ledger
      BY <1>5 DEF Refuse
    <2>2. CASE call[tx.signer].tx = tx
      <3>1. Return(tx.signer, "refused", tx)
        BY <1>5, <2>2 DEF Refuse, Settle
      <3>2. returned'[k] = returned[k] \/ returned'[k] = [outcome |-> "refused", tx |-> tx]
        BY <1>2, <3>1
      <3> QED
        BY <2>1, <3>2
    <2>3. CASE call[tx.signer].tx # tx
      BY <1>5, <2>3 DEF Refuse, Settle
    <2> QED
      BY <2>2, <2>3
  <1>6. ASSUME NEW j, FetchThrows(j) \/ GiveUp(j)
        PROVE  returned'[k] = returned[k]
    <2>1. Return(j, "error", Nobody)
      BY <1>6 DEF FetchThrows, GiveUp
    <2>2. returned'[k] = returned[k] \/ returned'[k] = [outcome |-> "error", tx |-> Nobody]
      BY <1>2, <2>1
    <2> QED
      BY <2>2
  <1>7. CASE UNCHANGED returned
    BY <1>7
  <1>8. \/ \E j : Enter(j) \/ FetchThrows(j) \/ GiveUp(j)
        \/ \E tx \in inFlight : Settle(tx, "ok") \/ Settle(tx, "error") \/ Refuse(tx)
        \/ UNCHANGED returned
    BY DEF Next, vars, Call, StartFetch, FetchAndSend, Land, Expire, WindowCloses
  <1> QED
    BY <1>3, <1>4, <1>5, <1>6, <1>7, <1>8

LEMMA RefusalStep ==
    ASSUME IInv, RefusalInv, [Next]_vars
    PROVE  RefusalInv'
  <1> DEFINE Explained(tx) == \/ tx.service \in Registered
                              \/ networkConfig.serviceCount = MaxServices
                              \/ ~ArgumentsAccepted(tx.argument)
  <1>1. ASSUME NEW tx, Explained(tx)
        PROVE  \/ tx.service \in Registered'
               \/ networkConfig'.serviceCount = MaxServices
               \/ ~ArgumentsAccepted(tx.argument)
    <2>1. Registered \subseteq Registered'
      BY CountGrows, SdkAssumption DEF Registered
    <2> QED
      BY <1>1, <2>1, CountGrows, SdkAssumption
  <1>2. ASSUME NEW k \in Wallets, returned'[k].outcome = "refused",
               returned'[k].tx.instruction = "registerService"
        PROVE  \/ returned'[k].tx.service \in Registered'
               \/ networkConfig'.serviceCount = MaxServices
               \/ ~ArgumentsAccepted(returned'[k].tx.argument)
    <2>1. PICK tx : tx = returned'[k].tx
      OBVIOUS
    <2>2. CASE returned'[k] = returned[k]
      <3>1. tx = returned[k].tx
        BY <2>1, <2>2
      <3>2. Explained(tx)
        BY <1>2, <2>2, <3>1 DEF RefusalInv, RefusalExplained
      <3> QED
        BY <1>1, <2>1, <3>2
    <2>3. CASE \E t \in inFlight : returned'[k].tx = t /\ ~Accepted(t)
      <3>1. tx \in inFlight /\ ~Accepted(tx) /\ tx.instruction = "registerService"
        BY <1>2, <2>1, <2>3
      <3>2. Explained(tx)
        BY <3>1, RefusedRegistration
      <3> QED
        BY <1>1, <2>1, <3>2
    <2> QED
      BY <1>2, <2>2, <2>3, RefusedReturns
  <1>3. RefusalExplained'
    BY <1>2 DEF RefusalExplained
  <1>4. ASSUME NEW t \in inFlight'
        PROVE  BuiltFrom(t)'
    <2>1. BuiltFrom(t)
      BY BuiltStep
    <2>2. ASSUME Registration(t)
          PROVE  Registration(t)'
      BY <2>2, CountGrows, SdkAssumption DEF Registration
    <2> QED
      BY <2>1, <2>2 DEF BuiltFrom
  <1> QED
    BY <1>3, <1>4, VaultsStep DEF RefusalInv

(***************************************************************************)
(* client.ts:268: a registration with a threshold and a mint that          *)
(* register_service.rs:69 and 79 take is refused for an id taken since the *)
(* count was fetched, or a full registry, and for nothing else.            *)
(***************************************************************************)
THEOREM RefusalsExplained == Spec => []RefusalExplained
  <1>1. Init => RefusalInv
    <2>1. ASSUME Init, NEW i \in ServiceIds, RewardVaultPda(i) \in accounts
          PROVE  i < networkConfig.serviceCount
      <3>1. PICK j \in 0 .. (Len(InitialNames) - 1) : RewardVaultPda(i) = RewardVaultPda(j)
        BY <2>1 DEF Init
      <3>2. i = j
        BY <3>1, SeedsInjective
      <3> QED
        BY <2>1, <3>2, SdkAssumption DEF Init
    <2> QED
      BY <2>1 DEF Init, RefusalInv, VaultsRegistered, RefusalExplained, NotReturned
  <1>2. RefusalInv => RefusalExplained
    BY DEF RefusalInv
  <1> QED
    BY <1>1, <1>2, RefusalStep, InvariantHolds, PTL DEF Spec

=============================================================================
