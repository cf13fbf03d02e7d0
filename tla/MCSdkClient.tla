---------------------------- MODULE MCSdkClient ----------------------------
(***************************************************************************)
(* Two wallets, the first of which deployed the network.                   *)
(***************************************************************************)
EXTENDS SdkClient

CONSTANTS k1, k2, oracle, bridge, consensus, overlong, steep

OneService == <<oracle>>

=============================================================================
