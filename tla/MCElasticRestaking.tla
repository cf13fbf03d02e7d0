------------------------- MODULE MCElasticRestaking -------------------------
(***************************************************************************)
(* Values of the constants for TLC.  One unit of time is the default       *)
(* epoch_duration and slash_dispute_window (3600 s), one unit of stake the *)
(* default min_stake_amount; the defaults are those of constants.rs:17-28. *)
(***************************************************************************)
EXTENDS DocumentedClaims, SlashRefinement, TLC

CONSTANTS v1, v2, s1, s2

ValidatorSymmetry == Permutations(Validators)
FullSymmetry      == Permutations(Validators) \cup Permutations(Services)

Default ==
    [target_restaking_degree_bps |-> 20000,
     max_restaking_degree_bps    |-> 50000,
     epoch_duration              |-> 1,
     withdrawal_cooldown_epochs  |-> 2,
     slash_dispute_window        |-> 1,
     min_stake_amount            |-> 1,
     deposit_fee_bps             |-> 0,
     is_paused                   |-> FALSE]

\* No cooldown, half of every deposit kept as a fee.
Fee         == [Default EXCEPT !.withdrawal_cooldown_epochs = 0, !.deposit_fee_bps = 5000]
Paused      == [Default EXCEPT !.is_paused = TRUE]
\* A cap below the target: refused by update_network_config.
Refused     == [Default EXCEPT !.max_restaking_degree_bps = 10000]
\* Epochs and dispute windows of no length.
Immediate   == [Default EXCEPT !.epoch_duration = 0, !.slash_dispute_window = 0]
LongWindow  == [Default EXCEPT !.slash_dispute_window = 2, !.epoch_duration = 2]

OnlyDefault     == {Default}
FeeConfigs      == {Default, Fee, Refused}
PauseConfigs    == {Default, Paused}
WindowConfigs   == {Default, Immediate}
TimingConfigs   == {Default, Fee, LongWindow}

=============================================================================
