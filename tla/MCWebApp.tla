------------------------------- MODULE MCWebApp -------------------------------
(***************************************************************************)
(* Two validators over three services, one of them slashed from the start; *)
(* two positions for most sliders.                                         *)
(***************************************************************************)
EXTENDS WebApp

ShownValidators == {"v0", "v4"}
ShownServices   == {"s0", "s2", "s3"}

SmallSliders ==
    [numValidators |-> {2}, numServices |-> {2, 3}, stakePerValidator |-> {1, 4},
     attackThreshold |-> {1}, attackPrize |-> {1, 2}, maxDegree |-> {2, 4}]

SmallDefaults ==
    [numValidators |-> 2, numServices |-> 2, stakePerValidator |-> 1,
     attackThreshold |-> 1, attackPrize |-> 2, maxDegree |-> 2]

=============================================================================
