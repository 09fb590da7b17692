--------------------------- MODULE MCBridgeClients ---------------------------
(***************************************************************************)
(* BridgeClients for TLC.  StartAutoConnect starts a goroutine only when   *)
(* five seconds have passed since it last did, and StartWarmup only when   *)
(* none is running, so the slots are never used up.                        *)
(***************************************************************************)
EXTENDS BridgeClients, TLC

ASSUME EnoughSlots ==
  Cardinality(AutoConnect) >= MaxTicks /\ Cardinality(Warm) >= 1

Symmetry ==
  Permutations(Tool) \cup Permutations(AutoConnect) \cup Permutations(Warm)
=============================================================================
