--------------------------- MODULE SlashGovernance ---------------------------
(***************************************************************************)
(* What the governance of slashes promises, without accounts, amounts or   *)
(* clocks.  A case is opened against one defendant; it can be stopped      *)
(* until it is due and executed after that, once, and never both.  Stake   *)
(* is taken and a defendant condemned by the execution of a case alone.    *)
(***************************************************************************)
CONSTANTS Cases, Defendants, Immune, Nobody

VARIABLES
    opened, due, vetoed, executed,   \* cases
    defendant,   \* of each case
    condemned,   \* defendants
    taken        \* by each case

vars == <<opened, due, vetoed, executed, defendant, condemned, taken>>

Settled == vetoed \cup executed

Init ==
    /\ opened = {} /\ due = {} /\ vetoed = {} /\ executed = {}
    /\ defendant = [c \in Cases |-> Nobody]
    /\ condemned = {}
    /\ taken = [c \in Cases |-> 0]

\* A case may be due at once.
Open(c, d) ==
    /\ c \notin opened
    /\ d \notin Immune \cup condemned
    /\ opened' = opened \cup {c}
    /\ due \subseteq due' /\ due' \subseteq due \cup {c}
    /\ defendant' = [defendant EXCEPT ![c] = d]
    /\ UNCHANGED <<vetoed, executed, condemned, taken>>

\* Any number of cases becomes due; none ceases to be.
TimePasses ==
    /\ due \subseteq due' /\ due' \subseteq opened
    /\ UNCHANGED <<opened, vetoed, executed, defendant, condemned, taken>>

Veto(c) ==
    /\ c \in opened \ (due \cup Settled)
    /\ vetoed' = vetoed \cup {c}
    /\ UNCHANGED <<opened, due, executed, defendant, condemned, taken>>

\* Any amount.
Execute(c) ==
    /\ c \in due \ Settled
    /\ executed' = executed \cup {c}
    /\ condemned' = condemned \cup {defendant[c]}
    /\ taken' = [taken EXCEPT ![c] = taken'[c]]
    /\ UNCHANGED <<opened, due, vetoed, defendant>>

Next ==
    \/ \E c \in Cases, d \in Defendants : Open(c, d)
    \/ TimePasses
    \/ \E c \in Cases : Veto(c) \/ Execute(c)

Spec == Init /\ [][Next]_vars

(***************************************************************************)
(* What follows of the steps: nobody is condemned but by an executed case, *)
(* the immune are not, no case is both vetoed and executed, and a case     *)
(* takes nothing before its execution.                                     *)
(***************************************************************************)
Justice ==
    /\ condemned = {defendant[c] : c \in executed}
    /\ condemned \cap Immune = {}
    /\ vetoed \cap executed = {}
    /\ \A c \in Cases \ executed : taken[c] = 0

=============================================================================
