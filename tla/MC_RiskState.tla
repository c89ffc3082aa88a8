---------------------------- MODULE MC_RiskState ----------------------------
EXTENDS RiskState
=============================================================================
