CONSTANTS
    m1 = m1
    m2 = m2
    q1 = q1
    q2 = q2
    Worker = {m1, m2}
    Node = {q1, q2}
    NoNode = NoNode
    Blocks = 2
    MaxFailedBlocks = 2
    MaxTasks = 2
    MaxTries = 3
    ChunkSize = 2
    Client = {m1, m2}
    Target = {t1}
    NoTarget = NoTarget
    NoData = NoData
    Data <- MCData
    SendFaults = TRUE
    MaxEdits = 1
    Proc = {m1, m2}
    File = {q1, q2}
    BkData <- MCBkData
    Keep = 1
    Torn = Torn
    BkFaults = TRUE
    MaxCommands = 3
    MaxSecs = 1
    Store = {m1, m2}
    Name = {n1}
    Content = {1, 2}
    Window = 1
    Absent = Absent
    Cut = Cut
    MaxNow = 3
    MaxWrites = 3
    MaxMail = 1
SPECIFICATION MetadataSpec
PROPERTY NewestWins
CHECK_DEADLOCK FALSE
