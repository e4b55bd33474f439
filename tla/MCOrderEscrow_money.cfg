SPECIFICATION Spec
CONSTANTS
  r1 = r1 r2 = r2 o1 = o1 p1 = p1 p2 = p2
  Orders = {o1}
  Runners = {r1}
  Procs = {p1, p2}
  Customer = Customer Merchant = Merchant System = System
  NoRunner = NoRunner NoRow = NoRow Idle = Idle
  Shapes <- MoneyShapes
  AdjustedCosts <- OnePrice
  Unverified = {r1}
  MinBalance <- MCMinBalance
  Travellers = {}
  Capacity = 1
  InitialBalance <- MCBalance
  MaxStale = 0
INVARIANTS EscrowBacked  VoucherFollowsOrder
PROPERTIES OrderMovesForward 
SYMMETRY SlotSymmetry
CHECK_DEADLOCK FALSE
