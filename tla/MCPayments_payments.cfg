SPECIFICATION Spec
CONSTANTS
  o1 = o1 t1 = t1 n1 = n1 q1 = q1 q2 = q2
  Orders = {o1}
  Tops = {t1}
  Base <- SameBase
  PGFee = 1
  MaxCode = 2
  Notes = {n1}
  Procs = {q1, q2}
  Trouble = {"lapse", "gateway", "crowd", "crash", "commit"}
  NoRow = NoRow Idle = Idle Free = Free Nobody = Nobody
INVARIANTS TotalsDiffer  CreditAgrees
SYMMETRY SlotSymmetry
CHECK_DEADLOCK FALSE
