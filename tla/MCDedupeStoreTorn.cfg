SPECIFICATION Spec
CONSTANTS
    h1 = h1
    h2 = h2
    p = p
    q = q
    Process = {p}
    Hash = {h1, h2}
    NL = NL
    Torn = Torn
    NoHash = NoHash
    MaxTokens = 4
    Faults = {"kill"}
PROPERTIES
    NewOnlyOnce
