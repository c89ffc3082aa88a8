---------------------------- MODULE MC_StrategicGrant ----------------------------
EXTENDS StrategicGrant
================================================================================
