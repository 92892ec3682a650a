SPECIFICATION PublishFairSpec
CONSTANTS
    c1 = c1
    c2 = c2
    i1 = i1
    i2 = i2
    i3 = i3
    pub = pub
    ui = ui
    Tool = tool
    Publisher = {pub}
    UiHost = {ui}
    Client <- MCClient
    Cid = {c1, c2}
    Inputs = {i1, i2, i3}
    Metadata <- MCEnvelope
    Publishes <- MCPublishes
    NoEnvelope = NoEnvelope
    Time = {1}
    NoEntry = NoEntry
    Request <- MCRequest
    MaxAttempts <- MCMaxAttempts
    MaxPolls = 1
    BatchSize = 2
    Policy <- MCPolicy
    CounterMax = 3
    Faults = {"crash"}
    PublishFaults = {"storage", "blank_cid", "delivery", "ledger", "shutdown"}
INVARIANTS
    PublishTypeOK
    AnchoredIsPublished
    LosesOnlyToAnother
PROPERTIES
    BackoffGrows
    OperationReturns
    AnchoredCallSucceeds
    RepeatedAnchorSucceeds
    BroadcastGetsAnchored
