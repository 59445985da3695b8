CONSTANTS
    m1 = m1
    m2 = m2
    Bits = 3
    DhtNode <- MCDhtNode
    Manager <- MCManager
    K = 2
    StaleAfter = 0
    Key = {k1, k2}
    Value = {v1}
    NoValue = NoValue
    Ttls = {0, 1, 6}
    Wrap = 7
    MaxDhtTime = 1
    MaxDhtMsgs = 1
    BootHost = {h1, h2}
    Priority = {0, 1}
    MaxConfig = 3
    KnownId = {i1}
    MaxBoot = 4
    ResThread = {m1, m2}
    ResName = {n1}
    ResId = {i1, i2}
    Unset = Unset
    ResTtl = 1
    MaxResTime = 4
    LanHost = {m1, m2}
    Nobody = Nobody
    OnlineFor = 1
    MaxLanTime = 1
    MaxAir = 2
    Link = {m1, m2}
    Pinger = {m1, m2}
    VpnTarget = {t1}
    NoTarget = NoTarget
    MaxLoops = 2
    MaxFrames = 3
    PoolUser = {m1, m2, c}
    Addr = {d1, d2}
    Stream = {s1, s2, s3}
    NoStream = NoStream
    MaxSize = 2
    UsizeMax = 7
    Faults = {"die", "clone"}
SPECIFICATION NetworkSpec
INVARIANTS NetworkTypeOK TableSound ValuesExact CachesHonest LanTableSound HeardOnceInOrder PongIsOwn PoolCountsExact
SYMMETRY MCSymmetry
CHECK_DEADLOCK FALSE
