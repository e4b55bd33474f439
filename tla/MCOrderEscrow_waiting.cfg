SPECIFICATION FairSpec
CONSTANTS
  r1 = r1 r2 = r2 o1 = o1 p1 = p1 p2 = p2
  Orders = {o1}
  Runners = {r1}
  Procs = {p1}
  Customer = Customer Merchant = Merchant System = System
  NoRunner = NoRunner NoRow = NoRow Idle = Idle
  Shapes <- AllKinds
  AdjustedCosts <- NoPrice
  Unverified = {r1}
  MinBalance <- MCMinBalance
  Travellers = {r1}
  Capacity = 1
  InitialBalance <- MCBalance
  MaxStale = 1
PROPERTIES NobodyWaitsForEver
CHECK_DEADLOCK FALSE
