-------------------------------- MODULE WebApp --------------------------------
(***************************************************************************)
(* The web application: one page at a time.  A page's state lives as long  *)
(* as the page is shown; the queries belong to providers.tsx, above the    *)
(* pages, and go on when the user leaves.  The staking and the admin page  *)
(* show fixed data and have no handlers beyond their own input fields.     *)
(***************************************************************************)
EXTENDS NetworkPage, AnalyzerPage, ChainData

VARIABLE page

Pages == {"home", "services", "network", "analyzer"}

vars == <<page, networkVars, analyzerPageVars, chainDataVars>>

Init ==
    /\ page \in Pages
    /\ NetworkPageInit
    /\ AnalyzerPageInit
    /\ ChainDataInit(page)

Navigate(to) ==
    /\ to # page
    /\ page' = to
    /\ NetworkPageUnmount
    /\ AnalyzerPageUnmount
    /\ ChainDataMount(to)

OnNetworkPage ==
    /\ page = "network"
    /\ NetworkPageNext
    /\ UNCHANGED <<page, analyzerPageVars, chainDataVars>>

OnAnalyzerPage ==
    /\ page = "analyzer"
    /\ AnalyzerPageNext
    /\ UNCHANGED <<page, networkVars, chainDataVars>>

OnAnyPage ==
    /\ ChainDataNext(page)
    /\ UNCHANGED <<page, networkVars, analyzerPageVars>>

Next ==
    \/ \E to \in Pages : Navigate(to)
    \/ OnNetworkPage
    \/ OnAnalyzerPage
    \/ OnAnyPage

\* The interval fires; an RPC node asked again and again answers at some time.
ChainDataFairness ==
    /\ WF_chainDataVars(RefetchConfig(page))
    /\ WF_chainDataVars(RefetchServices(page))
    /\ SF_chainDataVars(UseNetworkConfig)
    /\ SF_chainDataVars(UseServices)

Spec ==
    /\ Init /\ [][Next]_vars
    /\ NetworkPageFairness /\ AnalyzerPageFairness /\ ChainDataFairness

-----------------------------------------------------------------------------
(***************************************************************************)
(* The buttons that say "Slashing..." (network/page.tsx:199) and           *)
(* "Computing..." (analyzer/page.tsx:187) do not stay so, with timers of   *)
(* slashes before a reset still running, sliders moving and pages left.  At*)
(* most one computation is under way, and its button says so: a reset      *)
(* takes the results away, not the computation that will bring others.     *)
(***************************************************************************)
ButtonsReturn ==
    /\ isSlashing ~> ~isSlashing
    /\ isComputing ~> ~isComputing
    /\ []OneComputation

(***************************************************************************)
(* page.tsx:183, use-network-config.ts:31: a dashboard that is left open   *)
(* with a wallet connected ends up showing the network config once there   *)
(* is one, whatever it showed before: it read "not yet initialized" before *)
(* the initialization, or after fetches that failed.                       *)
(***************************************************************************)
BannerClears ==
    <>[](page = "home" /\ connected /\ onChain.initialized) => <>[](ConfigBanner = "address")

(***************************************************************************)
(* Types.                                                                  *)
(***************************************************************************)
TypeOK ==
    /\ page \in Pages
    /\ effectiveStake \in [Validators -> 0 .. Stake]
    /\ hoveredNode \in Validators \cup Services \cup {None}
    /\ slashTarget \in Services \cup {None}
    /\ timers \in 0 .. MaxTimers
    /\ params \in Settings
    /\ results \in Settings \cup {NoResults}
    /\ computing \subseteq Settings
    /\ onChain.services > 0 => onChain.initialized
    /\ page # "network" => timers = 0
    /\ page # "analyzer" => computing = {}

=============================================================================
