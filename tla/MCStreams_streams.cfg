CONSTANTS
    o1 = o1  o2 = o2  q1 = q1
    st1 = st1  ru1 = ru1  me1 = me1  tr1 = tr1
    Idle = Idle
    Orders = {o1, o2}
    MerchantOrders = {o2}
    OrderStreams = {st1}
    RunnerStreams = {ru1}
    MerchantStreams = {me1}
    TrackStreams = {tr1}
    Near = {1, 2}
    Requests = {q1}
    BufferSize = 1
    Scenes <- MCScenes
SPECIFICATION FairSpec
INVARIANTS TypeOK 
PROPERTIES CancelledStreamEnds PoolSettles
CHECK_DEADLOCK FALSE
