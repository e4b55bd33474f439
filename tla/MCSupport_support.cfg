CONSTANTS
    Tickets = {t1, t2}
    Agents = {a1, a2}
    MaxConcurrent = 1
    Limit = 2
    MaxMessages = 3
    FAQs = {f1}
    Procs = {p1, p2}
    Agendas <- MCScenes
    NoRow = NoRow NoAgent = NoAgent NoMessage = NoMessage Idle = Idle
SPECIFICATION FairSupportSpec
CHECK_DEADLOCK FALSE
INVARIANTS TicketsTypeOK OneWinner PollMissesNothing
PROPERTIES TicketsEnd
