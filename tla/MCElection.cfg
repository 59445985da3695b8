CONSTANTS
    n1 = n1
    n2 = n2
    n3 = n3
    Node = {n1, n2, n3}
    None = None
    MissThreshold = 1
    MaxTerm = 2
    Peers <- OtherPeers
    Churn <- NoCalls
    Bootstrap <- PairBootstrap
    SyncPairs <- NoCalls
    CandidateHash <- Hashes
    LocalValue <- LocalValues
SPECIFICATION FairSpec
INVARIANTS ElectedByMajority SingleVoteUntilDecided
 
