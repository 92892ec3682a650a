SPECIFICATION Spec
CONSTANTS
    c1 = c1
    c2 = c2
    m1 = m1
    m2 = m2
    Client = {p, q}
    Cid = {c1, c2}
    Metadata = {m1, m2}
    Time = {1, 2}
    NoEntry = NoEntry
    Request <- MCRequestRepeated
    MaxAttempts <- MCMaxAttempts
    MaxPolls = 2
    Faults = {"rpc", "tx_lost", "crash"}
SYMMETRY MCSymmetry
INVARIANTS
    TypeOK
    ReturnedIsFinal
PROPERTIES
    ImplementsClient
    CallsAreBounded
