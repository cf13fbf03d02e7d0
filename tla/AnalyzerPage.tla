----------------------------- MODULE AnalyzerPage -----------------------------
(***************************************************************************)
(* apps/web/app/analyzer/page.tsx: sliders, the computation, which runs    *)
(* from a timer with the parameters of the moment it was asked for, and    *)
(* what is shown of its results next to the parameters of now.  The        *)
(* figures and the optimal degree are functions of the parameters; the     *)
(* state keeps the parameters the results are those of.                    *)
(***************************************************************************)
EXTENDS NetworkAnalysis

CONSTANTS
    SliderValues,   \* per parameter, positions of its slider
    DefaultParams,  \* per parameter, its default
    NoResults       \* null

Figures == {"fig3", "fig5", "fig6"}

\* The parameters and the positions of their sliders.
Settings ==
    {p \in [DOMAIN SliderValues -> UNION {SliderValues[key] : key \in DOMAIN SliderValues}] :
        \A key \in DOMAIN SliderValues : p[key] \in SliderValues[key]}

ASSUME AnalyzerPageAssumption ==
    /\ DOMAIN SliderValues = {"numValidators", "numServices", "stakePerValidator",
                              "attackThreshold", "attackPrize", "maxDegree"}
    /\ \A key \in DOMAIN SliderValues : SliderValues[key] \subseteq Nat \ {0}
    /\ DefaultParams \in Settings

VARIABLES
    params,
    activeFigure,
    isComputing,
    results,    \* the parameters of the results, or NoResults
    computing   \* the parameters of the computations whose timers run

analyzerPageVars == <<params, activeFigure, isComputing, results, computing>>

AnalyzerPageInit ==
    /\ params = DefaultParams
    /\ activeFigure = "fig3"
    /\ isComputing = FALSE
    /\ results = NoResults
    /\ computing = {}

AnalyzerPageUnmount ==
    /\ params' = DefaultParams
    /\ activeFigure' = "fig3"
    /\ isComputing' = FALSE
    /\ results' = NoResults
    /\ computing' = {}

MoveSlider(key, value) ==
    /\ params' = [params EXCEPT ![key] = value]
    /\ UNCHANGED <<activeFigure, isComputing, results, computing>>

ShowFigure(fig) ==
    /\ activeFigure' = fig
    /\ UNCHANGED <<params, isComputing, results, computing>>

ComputeEnabled == ~isComputing

HandleCompute ==
    /\ ComputeEnabled
    /\ isComputing' = TRUE
    /\ computing' = computing \cup {params}
    /\ UNCHANGED <<params, activeFigure, results>>

ButtonAfter == FALSE

\* The computation blocks the page; it does not throw for any setting.
ComputeTimeout(p) ==
    /\ p \in computing
    /\ results' = p
    /\ computing' = computing \ {p}
    /\ isComputing' = ButtonAfter
    /\ UNCHANGED <<params, activeFigure>>

HandleResetDefaults ==
    /\ params' = DefaultParams
    /\ results' = NoResults
    /\ UNCHANGED <<activeFigure, isComputing, computing>>

AnalyzerPageNext ==
    \/ \E key \in DOMAIN SliderValues : \E value \in SliderValues[key] : MoveSlider(key, value)
    \/ \E fig \in Figures : ShowFigure(fig)
    \/ HandleCompute
    \/ \E p \in computing : ComputeTimeout(p)
    \/ HandleResetDefaults

AnalyzerPageFairness == WF_analyzerPageVars(\E p \in computing : ComputeTimeout(p))

-----------------------------------------------------------------------------
\* What is shown

SymmetricOf(p, d) ==
    [n |-> p.numValidators, S |-> p.numServices, d |-> d,
     sigma |-> p.stakePerValidator, pi |-> p.attackPrize]

RobustnessAt(p, d) == MinAttackCost(SymmetricOf(p, d))

\* Mutant: of equal degrees the last one wins.
Beats_orEqual(p, d, e) ==
    IF e < d THEN AtLeast(RobustnessAt(p, d), RobustnessAt(p, e))
             ELSE Above(RobustnessAt(p, d), RobustnessAt(p, e))

\* Degree d takes the place of e, or keeps it.
Beats(p, d, e) ==
    IF d < e THEN AtLeast(RobustnessAt(p, d), RobustnessAt(p, e))
             ELSE Above(RobustnessAt(p, d), RobustnessAt(p, e))

OptimalDegree(p) ==
    CHOOSE d \in 1 .. p.maxDegree : \A e \in (1 .. p.maxDegree) \ {d} : Beats(p, d, e)

TotalPrize(p) == p.attackPrize * p.numServices

MoreThan(x, amount) == x.num > amount * x.den

\* Results of then against the parameters of now.
NetworkSecurity ==
    LET robustness == RobustnessAt(results, OptimalDegree(results)) IN
    CASE MoreThan(robustness, TotalPrize(params))                  -> "all subsets"
      [] /\ ~MoreThan(robustness, TotalPrize(params))
         /\ MoreThan(robustness, params.attackPrize)               -> "single service"
      [] OTHER                                                     -> "vulnerable"

\* Empty until there are results; one of three is visible.
ChartShown(fig) ==
    [visible |-> activeFigure = fig, empty |-> results = NoResults,
     degrees |-> IF results = NoResults THEN 0 ELSE results.maxDegree]

\* "Attack is unprofitable."
InsightUnprofitable ==
    MoreThan(RobustnessAt(results, OptimalDegree(results)), TotalPrize(params))

-----------------------------------------------------------------------------
\* At most one computation is under way, and the button says so.
OneComputation ==
    /\ isComputing <=> computing # {}
    /\ Cardinality(computing) <= 1

(***************************************************************************)
(* As long as no slider has moved since the computation, what the page     *)
(* calls secure against all subsets, or unprofitable to attack, is secure  *)
(* against attacks of every size at the degree it reports, and that degree *)
(* is one the network has services for, although the maximum degree may be *)
(* set beyond their number.                                                *)
(***************************************************************************)
VerdictSound ==
    results # NoResults =>
        LET best == OptimalDegree(results) IN
        /\ best <= results.numServices
        /\ results = params =>
              /\ InsightUnprofitable <=> NetworkSecurity = "all subsets"
              /\ InsightUnprofitable => SymmetricSecure(SymmetricOf(results, best))

(***************************************************************************)
(* analyzer/page.tsx:384 says "Secure against single-service attacks": no  *)
(* attack on one service pays, at the degree the page reports.             *)
(***************************************************************************)
SingleServiceVerdict ==
    results # NoResults /\ results = params /\ NetworkSecurity = "single service" =>
        SymmetricMargin(SymmetricOf(results, OptimalDegree(results)), 1) >= 0

=============================================================================
