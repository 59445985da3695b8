CONSTANTS
    Thread = {t1, t2}
    Name = {na, nb}
    Id = {ia, ib}
    None = None
    Ops = {"register", "upsert", "heartbeat"}
    DiskFaults = TRUE
    MaxCrashes = 2
SYMMETRY StoreSymmetry
CONSTRAINT Claimed
SPECIFICATION Spec
INVARIANTS ExclusiveOwner ReverseExact CleanMeansSaved
PROPERTIES IsNameTable
