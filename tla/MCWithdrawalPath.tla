--------------------------- MODULE MCWithdrawalPath --------------------------
EXTENDS WithdrawalPath

AllTransfers == Transfers \cup {NoTransfer}
=============================================================================
