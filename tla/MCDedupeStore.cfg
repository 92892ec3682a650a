SPECIFICATION Spec
CONSTANTS
    h1 = h1
    h2 = h2
    p = p
    q = q
    Process = {p, q}
    Hash = {h1, h2}
    NL = NL
    Torn = Torn
    NoHash = NoHash
    MaxTokens = 4
    Faults = {"io", "kill", "power"}
SYMMETRY Symmetry
INVARIANTS
    TypeOK
    TakenIsDurable
    UntornRemembers
PROPERTIES
    NewAgainOnlyByStaleReader
    ImplementsLedger
