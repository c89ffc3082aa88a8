----------------------------- MODULE MC_BrokerSync -----------------------------
(***************************************************************************)
(* Small instances of BrokerSync.                                          *)
(***************************************************************************)
EXTENDS BrokerSync

================================================================================
