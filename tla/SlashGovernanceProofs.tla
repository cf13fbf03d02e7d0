------------------------ MODULE SlashGovernanceProofs ------------------------
(***************************************************************************)
(* What SlashGovernance promises, from its steps.                          *)
(***************************************************************************)
EXTENDS SlashGovernance, TLAPS

\* Cases are executed after they were due, and due after they were opened, against
\* somebody who is not immune.
Docket ==
    /\ opened \subseteq Cases /\ due \subseteq opened /\ executed \subseteq due
    /\ \A c \in opened : defendant[c] \notin Immune
    /\ DOMAIN defendant = Cases /\ DOMAIN taken = Cases

IInv == Docket /\ Justice

LEMMA InitIInv == Init => IInv
BY DEF Init, IInv, Docket, Justice

LEMMA OpenKeeps ==
    ASSUME IInv, NEW c \in Cases, NEW d \in Defendants, Open(c, d)
    PROVE  IInv'
<1>1. /\ defendant'[c] = d /\ d \notin Immune
      /\ \A b \in opened : b # c /\ defendant'[b] = defendant[b]
      /\ DOMAIN defendant' = Cases
  BY DEF Open, IInv, Docket
<1>2. Docket'
  BY <1>1 DEF Open, IInv, Docket
<1>3. {defendant'[b] : b \in executed} = {defendant[b] : b \in executed}
  BY <1>1 DEF IInv, Docket
<1>4. Justice'
  BY <1>3 DEF Open, IInv, Justice
<1>5. QED
  BY <1>2, <1>4 DEF IInv

LEMMA ExecuteKeeps ==
    ASSUME IInv, NEW c \in Cases, Execute(c)
    PROVE  IInv'
<1>1. /\ c \in due /\ c \notin vetoed /\ c \notin executed
      /\ executed' = executed \cup {c}
      /\ condemned' = condemned \cup {defendant[c]}
      /\ UNCHANGED <<opened, due, vetoed, defendant>>
  BY DEF Execute, Settled
<1>2. DOMAIN taken' = Cases /\ \A b \in Cases \ {c} : taken'[b] = taken[b]
  <2>1. DOMAIN taken = Cases /\ taken' = [taken EXCEPT ![c] = taken'[c]]
    BY DEF Execute, IInv, Docket
  <2>2. DOMAIN taken' = Cases
    BY <2>1
  <2>3. ASSUME NEW b \in Cases, b # c
        PROVE  taken'[b] = taken[b]
    BY <2>1, <2>3
  <2>4. QED
    BY <2>2, <2>3
<1>3. Docket'
  BY <1>1, <1>2 DEF IInv, Docket
<1>4. condemned' = {defendant'[b] : b \in executed'}
  BY <1>1 DEF IInv, Justice
<1>5. Justice'
  BY <1>1, <1>2, <1>4 DEF IInv, Docket, Justice
<1>6. QED
  BY <1>3, <1>5 DEF IInv

(***************************************************************************)
(* Whatever cases are opened, and in whatever order they fall due, are     *)
(* stopped or executed, justice is done.                                   *)
(***************************************************************************)
THEOREM JusticeDone == Spec => []Justice
<1>1. IInv /\ [Next]_vars => IInv'
  <2>1. ASSUME IInv, TimePasses PROVE IInv'
    BY <2>1 DEF TimePasses, IInv, Docket, Justice
  <2>2. ASSUME IInv, NEW c \in Cases, Veto(c) PROVE IInv'
    BY <2>2 DEF Veto, Settled, IInv, Docket, Justice
  <2>3. ASSUME IInv, UNCHANGED vars PROVE IInv'
    BY <2>3 DEF vars, IInv, Docket, Justice
  <2>4. QED
    BY <2>1, <2>2, <2>3, OpenKeeps, ExecuteKeeps DEF Next
<1>2. IInv => Justice
  BY DEF IInv
<1>3. QED
  BY <1>1, <1>2, InitIInv, PTL DEF Spec

=============================================================================
