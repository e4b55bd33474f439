--------------------------- MODULE MCPromotion ---------------------------
(***************************************************************************)
(* Small instances of Promotion for TLC.                                   *)
(***************************************************************************)
EXTENDS Promotion, PromotionInv, TLC

CONSTANTS a, m1

Plain == [reach |-> "auto", merchant |-> AnyMerchant, percent |-> FALSE,
          value |-> 600 * Rupiah, scope |-> "item", minimum |-> 0, perUser |-> 1,
          first |-> FALSE, budget |-> MinBudget + 50, max |-> 2]
Twice == [Plain EXCEPT !.perUser = 2, !.scope = "delivery"]
Voucher == [Plain EXCEPT !.reach = "code", !.percent = TRUE, !.value = 50,
                         !.scope = "total", !.first = TRUE, !.perUser = 3,
                         !.max = 1]

AutoAndVoucher == {Plain, Voucher}
OnlyTwice == {Twice}

OneBasket == {[item |-> 800 * Rupiah, delivery |-> 400 * Rupiah]}
MCAgeOne == a :> 1
SlotSymmetry == Permutations(Procs) \cup Permutations(Orders) \cup Permutations(Users)
=============================================================================
