----------------------------- MODULE MCSyncCycle -----------------------------
(* The scheduled cycle with a few lawyers; the constants are in the cfg. *)
EXTENDS SyncCycle
=============================================================================
