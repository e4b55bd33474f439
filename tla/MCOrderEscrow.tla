--------------------------- MODULE MCOrderEscrow ---------------------------
(***************************************************************************)
(* Small instances of OrderEscrow for TLC.                                 *)
(***************************************************************************)
EXTENDS OrderEscrowClaims, OrderEscrowInv, TLC

CONSTANTS r1, r2, o1, p1, p2

Template == [kind |-> "beli", method |-> "escrow", source |-> "wallet",
             cost |-> 2, fee |-> 3, service |-> 1, checking |-> 1,
             discount |-> 0, commission |-> 0]

FoodWallet == [Template EXCEPT !.kind = "food", !.checking = 0, !.commission = 1]
FoodVoucher == [FoodWallet EXCEPT !.discount = 1]
FoodCod == [FoodWallet EXCEPT !.method = "cod"]
BeliWallet == Template
BeliQris == [Template EXCEPT !.source = "qris"]
KirimWallet == [Template EXCEPT !.kind = "kirim", !.cost = 0]

FoodVoucherCod == [FoodVoucher EXCEPT !.method = "cod"]

AllKinds == {FoodWallet, FoodCod, BeliQris, KirimWallet}
MoneyShapes == {BeliQris, FoodCod, FoodVoucher, FoodVoucherCod}
RunnerShapes == {FoodWallet, BeliWallet}
OneFood == {FoodWallet}
OneBeli == {BeliWallet}

OnePrice == {4}
MCMinBalance == [r \in Runners |-> IF r \in Unverified THEN 1 ELSE 0]
MCBalance ==
    [a \in Accounts |-> CASE a = Customer -> 9 [] a \in Runners -> 3 [] OTHER -> 0]
SlotSymmetry == Permutations(Procs)
NoPrice == {}
=============================================================================
