------------------------------ MODULE ChainData ------------------------------
(***************************************************************************)
(* apps/web/hooks: what the dashboard and the registry page show of the    *)
(* chain, through two queries of react-query (version 5, outside this      *)
(* repository): one for the account of the network config, one for the     *)
(* accounts of the service addresses 0 .. MaxServiceId-1.  A query is      *)
(* fetched when a page that uses it comes up, then every minute; its data  *)
(* outlive a failed fetch.  There is no order between the two.             *)
(***************************************************************************)
EXTENDS ProgramAddresses, FiniteSets

CONSTANTS
    MaxServiceId,   \* 20
    MaxOnChain,     \* bound on the services registered
    Undefined,      \* data of a query without an answer
    Failed,         \* the same once its fetch has failed
    Missing,        \* null: the account does not exist
    NoAddress       \* undefined

ASSUME ChainDataAssumption == MaxServiceId \in Nat /\ MaxOnChain \in Nat

VARIABLES
    onChain,       \* whether the network is initialized, how many services it has
    connected,     \* useWallet
    configQuery, servicesQuery

chainDataVars == <<onChain, connected, configQuery, servicesQuery>>

NoData == [data |-> Undefined, fetching |-> FALSE]

\* Without an answer so far, a query that is fetched again is loading again.
Fetch(query) ==
    [data |-> IF query.data = Failed THEN Undefined ELSE query.data, fetching |-> TRUE]

IsLoading(query) == query.fetching /\ query.data = Undefined

Observes(page) ==
    [config   |-> page = "home",
     services |-> page \in {"home", "services"}]

\* Mounting fetches what has no data; stale data are refetched as by the interval.
Mounted(query, observed) ==
    IF observed /\ query.data \in {Undefined, Failed} THEN Fetch(query) ELSE query

ChainDataInit(page) ==
    /\ onChain = [initialized |-> FALSE, services |-> 0]
    /\ connected = FALSE
    /\ configQuery = Mounted(NoData, Observes(page).config)
    /\ servicesQuery = Mounted(NoData, Observes(page).services)

\* A page without queries is visited for longer than unused data are kept.
ChainDataMount(page) ==
    /\ configQuery' = IF Observes(page).services
                      THEN Mounted(configQuery, Observes(page).config) ELSE NoData
    /\ servicesQuery' = IF Observes(page).services
                        THEN Mounted(servicesQuery, TRUE) ELSE NoData
    /\ UNCHANGED <<onChain, connected>>

\* Mutant: no refetchInterval.
RefetchDue_never(query) == ~query.fetching /\ query.data = Undefined

RefetchDue(query) == ~query.fetching

RefetchConfig(page) ==
    /\ Observes(page).config
    /\ RefetchDue(configQuery)
    /\ configQuery' = Fetch(configQuery)
    /\ UNCHANGED <<onChain, connected, servicesQuery>>

RefetchServices(page) ==
    /\ Observes(page).services
    /\ RefetchDue(servicesQuery)
    /\ servicesQuery' = Fetch(servicesQuery)
    /\ UNCHANGED <<onChain, connected, configQuery>>

Answered(data) == [data |-> data, fetching |-> FALSE]

\* After the retries.
FetchFailed(query) == Answered(IF query.data = Undefined THEN Failed ELSE query.data)

UseNetworkConfig ==
    /\ configQuery.fetching
    /\ configQuery' = Answered(IF onChain.initialized THEN NetworkConfigPda ELSE Missing)
    /\ UNCHANGED <<onChain, connected, servicesQuery>>

ConfigFails ==
    /\ configQuery.fetching
    /\ configQuery' = FetchFailed(configQuery)
    /\ UNCHANGED <<onChain, connected, servicesQuery>>

\* Mutant: ids counted from one.
FoundIds_oneBased == {i \in 1 .. MaxServiceId : i <= onChain.services}

\* Ids whose account exists.
FoundIds == {i \in 0 .. (MaxServiceId - 1) : i < onChain.services}

UseServices ==
    /\ servicesQuery.fetching
    /\ servicesQuery' = Answered(FoundIds)
    /\ UNCHANGED <<onChain, connected, configQuery>>

ServicesFail ==
    /\ servicesQuery.fetching
    /\ servicesQuery' = FetchFailed(servicesQuery)
    /\ UNCHANGED <<onChain, connected, configQuery>>

\* Navbar and wallet extension
ToggleWallet ==
    /\ connected' = ~connected
    /\ UNCHANGED <<onChain, configQuery, servicesQuery>>

InitializeOnChain ==
    /\ ~onChain.initialized
    /\ onChain' = [onChain EXCEPT !.initialized = TRUE]
    /\ UNCHANGED <<connected, configQuery, servicesQuery>>

\* No instruction closes the account of a service.
RegisterOnChain ==
    /\ onChain.initialized
    /\ onChain.services < MaxOnChain
    /\ onChain' = [onChain EXCEPT !.services = @ + 1]
    /\ UNCHANGED <<connected, configQuery, servicesQuery>>

ChainDataNext(page) ==
    \/ RefetchConfig(page) \/ RefetchServices(page)
    \/ UseNetworkConfig \/ ConfigFails
    \/ UseServices \/ ServicesFail
    \/ ToggleWallet
    \/ InitializeOnChain \/ RegisterOnChain

-----------------------------------------------------------------------------
\* The dashboard

DashboardIsLive == connected /\ ~IsLoading(configQuery) /\ ~IsLoading(servicesQuery)

ConfigBanner ==
    CASE ~DashboardIsLive                                          -> "none"
      [] DashboardIsLive /\ configQuery.data = NetworkConfigPda    -> "address"
      [] DashboardIsLive /\ configQuery.data # NetworkConfigPda    -> "not initialized"

ServicesFound == IF servicesQuery.data \in {Undefined, Failed} THEN {} ELSE servicesQuery.data

OnChainCount == Cardinality(ServicesFound)

MockActiveServices == 8

\* The card "Active Services": the mock value unless services were found.
ActiveServicesStat == IF DashboardIsLive /\ OnChainCount > 0 THEN OnChainCount
                                                              ELSE MockActiveServices

\* The registry page: rows 1 .. 8 of mock data, with the address of what is on chain.
MockServices == 1 .. 8

RegistryIsLive == connected /\ ~IsLoading(servicesQuery)

DisplayTotal == IF RegistryIsLive /\ OnChainCount > 0 THEN OnChainCount
                                                      ELSE Cardinality(MockServices)

OnChainAddress(row) == IF row - 1 \in ServicesFound THEN ServicePda(row - 1) ELSE NoAddress

-----------------------------------------------------------------------------
(***************************************************************************)
(* services/page.tsx:152, use-services.ts:24: the addresses shown are of   *)
(* services that exist, the row-th registered one in each row and no gap   *)
(* before it, however old the data; no count shown as live exceeds what is *)
(* registered, or the ids the query looks at.                              *)
(***************************************************************************)
ShownExist ==
    /\ \A row \in MockServices : OnChainAddress(row) # NoAddress =>
          /\ \E i \in 0 .. (onChain.services - 1) : OnChainAddress(row) = ServicePda(i)
          /\ \A above \in 1 .. (row - 1) : OnChainAddress(above) = ServicePda(above - 1)
    /\ OnChainCount <= onChain.services /\ OnChainCount <= MaxServiceId
    /\ ActiveServicesStat # MockActiveServices => ActiveServicesStat = DisplayTotal

=============================================================================
