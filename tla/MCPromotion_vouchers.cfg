SPECIFICATION Spec
CONSTANTS
  a = a m1 = m1
  Promos = {a}
  Age <- MCAgeOne
  Orders = {o1, o2}
  Users = {u1, u2}
  Merchants = {m1}
  Procs = {q1, q2}
  Connections = 4
  MayFail = {"orders"}
  Offers <- AutoAndVoucher
  Baskets <- OneBasket
  NoRow = NoRow Idle = Idle Free = Free
  NoPromo = NoPromo NoCode = NoCode AnyMerchant = AnyMerchant
INVARIANTS TermsKept CountersAgree DiscountIsAccounted
PROPERTIES UserLimitKept
SYMMETRY SlotSymmetry
CHECK_DEADLOCK FALSE
