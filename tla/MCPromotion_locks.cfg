SPECIFICATION FairSpec
CONSTANTS
  a = a m1 = m1
  Promos = {a}
  Age <- MCAgeOne
  Orders = {o1, o2}
  Users = {u1}
  Merchants = {m1}
  Procs = {q1, q2}
  Connections = 4
  MayFail = {"usages", "orders"}
  Offers <- OnlyTwice
  Baskets <- OneBasket
  NoRow = NoRow Idle = Idle Free = Free
  NoPromo = NoPromo NoCode = NoCode AnyMerchant = AnyMerchant
PROPERTIES RequestsEnd
CHECK_DEADLOCK FALSE
