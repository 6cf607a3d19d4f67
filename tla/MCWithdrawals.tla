---------------------------- MODULE MCWithdrawals ----------------------------
EXTENDS Withdrawals, TLC

Permuted == Permutations(Ticks) \cup Permutations(Jobs)

OwnOutcomes == [depth: {0}, success: BOOLEAN, own: {TRUE}]
OwnSuccess == [depth: {0}, success: {TRUE}, own: {TRUE}]
SomeOutcomes == OwnOutcomes \cup [depth: {0}, success: {TRUE}, own: {FALSE}]
=============================================================================
