CONSTANTS
    n1 = n1
    n2 = n2
    n3 = n3
    Node = {n1, n2, n3}
    None = None
    MissThreshold = 1
    MaxTerm = 3
    Peers <- PairPeers
    Churn <- SelfChurn
    Bootstrap <- PairBootstrap
    SyncPairs <- SyncCalls
    CandidateHash <- Hashes
    LocalValue <- LocalValues
SPECIFICATION Spec
PROPERTY TermNeverDecreases
