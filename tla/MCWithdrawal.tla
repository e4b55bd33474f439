---------------------------- MODULE MCWithdrawal ----------------------------
EXTENDS WithdrawalClaims, WithdrawalInv, TLC

CONSTANTS w1, w2, u1, u2, q1, q2

ByHand == [manual |-> TRUE, least |-> 4, flat |-> 0, percent |-> 0]
ByGateway == [manual |-> FALSE, least |-> 2, flat |-> 0, percent |-> 50]
BothChannels == {ByHand, ByGateway}
OnlyByHand == {ByHand}
FundsOf == [u \in Users |-> 7]
SlotSymmetry == Permutations(Handlers) \cup Permutations(Withdrawals)
=============================================================================
