SPECIFICATION AgreementSpec
CONSTANTS
    c1 = c1
    c2 = c2
    a1 = a1
    a2 = a2
    a3 = a3
    Cid = {c1, c2}
    Metadata = {m1, m2}
    Time = {1, 2}
    AccountId = {a1, a2, a3}
    PdaOf <- MCPdaOf
    NoEntry = NoEntry
    NoTx = NoTx
    MaxEntries = 2
    MaxAccepted = 2
INVARIANTS
    TypeOK
    FirstAcceptedWins
    EntryAtItsPda
    GuestAgreesWithCore
PROPERTIES
    ImplementsRegistry
    OutcomeIsTruthful
CHECK_DEADLOCK FALSE
