------------------------------ MODULE MC_DailyRun ------------------------------
(***************************************************************************)
(* A small instance of DailyRun.                                           *)
(***************************************************************************)
EXTENDS DailyRun
================================================================================
