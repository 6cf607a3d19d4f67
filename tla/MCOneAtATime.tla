---------------------------- MODULE MCOneAtATime ----------------------------
EXTENDS OneAtATime, MCOrderBook

\* The instance is among those that the theorems of OneAtATimeProofs are about.
ASSUME OneAtATimeAssumption == LimitEnvironment
=============================================================================
