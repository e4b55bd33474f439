CONSTANTS
    r1 = r1  r2 = r2  t1 = t1  o1 = o1  o2 = o2  chat = chat
    s1 = s1  s2 = s2  m1 = m1  cron = cron
    NoToken = NoToken  Idle = Idle
    Users = {r1, r2}
    Tokens = {t1}
    Orders = {o1, o2}
    Regular = {o1}
    Subjects = {o1, o2, chat}
    Runners = {r1, r2}
    OnTrip = {r1, r2}
    Senders = {s1, s2}
    Matchers = {m1}
    Cron = cron
    BurstLimit = 1
    MaxRetries = 1
    QueueSize = 1
    Fanout = 1
    Attempts = 2
    Scenes <- MCScenes
SPECIFICATION FairSpec
CHECK_DEADLOCK FALSE
INVARIANTS TypeOK NobodyIsFlooded
PROPERTIES NotesEnd ImplementsOutbox OrderLookedAt
