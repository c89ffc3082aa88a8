---------------------------- MODULE MC_LotInventory ----------------------------
(***************************************************************************)
(* Small instances of LotInventory.                                        *)
(***************************************************************************)
EXTENDS LotInventory
================================================================================
