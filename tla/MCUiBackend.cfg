SPECIFICATION FairSpec
CONSTANTS
    f1 = f1
    f2 = f2
    c1 = c1
    c2 = c2
    File = {f1, f2}
    CidOf <- MCCidOf
    None = None
    MaxUploads = 3
    Faults = {"no_cid", "compute", "anchor"}
INVARIANTS
    TypeOK
    OneOperation
    PendingHasTimer
    HashCoversCid
PROPERTIES
    OperationEnds
    BusyEndsWithOperation
    BroadcastSlotIsFreed
