SPECIFICATION FairSpec
CONSTANTS
    e1 = e1
    e2 = e2
    e3 = e3
    e4 = e4
    c1 = c1
    c2 = c2
    Envelope = {e1, e2, e4}
    Cid = {c1, c2}
    CidOf <- MCCidOf
    Invalid = Invalid
    ReceiveError = ReceiveError
    BatchSize = 2
    MaxAttempts = 2
    MaxStream = 1
    Faults = {"transient", "give_up", "tx_lost", "shutdown", "end"}
PROPERTIES
    EventuallyAnchored
    FiniteStreamReturns
    ShutdownReturns
    WorkIsBounded
