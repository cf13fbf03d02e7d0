--------------------------- MODULE ProgramAddresses ---------------------------
(***************************************************************************)
(* packages/sdk/src/pdas.ts and constants.ts: the addresses of the         *)
(* program's accounts.  An address is the tuple of its seeds; the hash     *)
(* that makes 32 bytes of them is taken to be injective.                   *)
(***************************************************************************)
EXTENDS Integers

CONSTANTS Wallets   \* the public keys that sign

NetworkConfigPda                    == <<"network_config">>
ServicePda(serviceId)               == <<"service", serviceId>>
ValidatorPda(authority)             == <<"validator", authority>>
AllocationPda(authority, serviceId) == <<"allocation", authority, serviceId>>
WithdrawalTicketPda(authority, ticketId) == <<"withdrawal", authority, ticketId>>
SlashProposalPda(proposalId)        == <<"slash_proposal", proposalId>>
SlashRecordPda(proposalId)          == <<"slash_record", proposalId>>
StakeVaultPda                       == <<"stake_vault">>
RewardVaultPda(serviceId)           == <<"reward_vault", serviceId>>

=============================================================================
