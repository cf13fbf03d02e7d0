-------------------------- MODULE DocumentedClaims --------------------------
(***************************************************************************)
(* What the README and the comments of the program say of it, where the    *)
(* code does otherwise, refuted by a run.  Claims that are refuted by a    *)
(* plain reading are in the README of this project.                        *)
(***************************************************************************)
EXTENDS ElasticRestaking

(***************************************************************************)
(* finalize_slash.rs:161: effective stake "is reduced by exactly the       *)
(* amount they had effectively allocated"; README.md:57: a validator       *)
(* cannot lose more than it staked.  So what a finalization moves to the   *)
(* treasury is what the validators' effective stakes lose.                 *)
(***************************************************************************)
SlashTakesWhatStakeLoses ==
    [][finalized' # finalized =>
          treasury' - treasury = Total(effective_stake) - Total(effective_stake')]_vars

=============================================================================
