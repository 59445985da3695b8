CONSTANTS
    MaxPath = 2
    MaxSeq = 3
    MaxFragments = 2
    BufferSize = 2
    Gap = 0
    DegradedAfter = 0
    DeadAfter = 1
    MaxLoss = 2
    ReplayWindow = 1
    MaxHsTime = 3
    MaxStarts = 3
    Peer = {p1}
    Holder = {h1}
    NoSession = NoSession
    SessionTimeout = 0
    MaxAge = 1
    MaxCounter = 2
    MaxSerial = 2
    n1 = n1
    n2 = n2
    n3 = n3
    HpNode = {n1, n2, n3}
    Caller <- MCCaller
    NoPeer = NoPeer
    RetryCount = 2
    MaxInbox = 1
    MaxPunches = 2
    Rate = 1
    Capacity = 2
    Sizes = {1, 2}
    Waiter = {w1}
    CountMod = 4
    MaxTime = 3
    MaxConns = 2
    HealNode = {s1}
    HealLoop = {l1, l2}
    App = App
    Missing = Missing
    Emptied = Emptied
    Partial = Partial
SPECIFICATION TransportSpec
INVARIANTS TransportTypeOK HandshakeSound NoReplay PunchSetsSound  
PROPERTIES StreamInOrder SentIsDelivered  PunchEnds 
CHECK_DEADLOCK FALSE
