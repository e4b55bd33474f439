SPECIFICATION WithdrawalSpec
CONSTANTS
  w1 = w1 w2 = w2 u1 = u1 u2 = u2 q1 = q1 q2 = q2
  Withdrawals = {w1, w2}
  Users = {u1}
  Verified = {}
  Handlers = {q1, q2}
  Channels <- BothChannels
  Amounts = {2, 4}
  Funds <- FundsOf
  DailyLimit = 5
  SumMayFail = FALSE
  LockMayExpire = FALSE
  NoWithdrawal = NoWithdrawal Resting = Resting NotLocked = NotLocked Orphan = Orphan
INVARIANTS MoneyKept LimitKept
SYMMETRY SlotSymmetry
CHECK_DEADLOCK FALSE
