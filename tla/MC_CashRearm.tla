---------------------------- MODULE MC_CashRearm ----------------------------
EXTENDS CashRearm, TLC

\* Two sessions for the lighter damage, three for the heavier.
Waits == 1 :> 2 @@ 2 :> 3
================================================================================
