SPECIFICATION Spec
CONSTANTS
  u1 = u1 u2 = u2 u3 = u3 d1 = d1 d2 = d2 n1 = n1 n2 = n2 n3 = n3 q1 = q1 q2 = q2
  Users = {u1, u2, u3}
  Founders = {u1, u2}
  HomeOf <- MCHome
  NumberOf <- MCNumber
  Numbers = {n1, n2, n3}
  Devices = {d1, d2}
  Secrets = {s1, s2}
  Invites = {i1, i2}
  Procs = {q1, q2}
  Agendas <- MCAgendas
  NoRow = NoRow NoDevice = NoDevice NoSecret = NoSecret NoVersion = NoVersion
  Idle = Idle Nobody = Nobody
INVARIANTS OneSession EnabledIsProven  OnboardingAgrees
SYMMETRY SlotSymmetry
CHECK_DEADLOCK FALSE
