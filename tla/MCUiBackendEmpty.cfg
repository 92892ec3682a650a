SPECIFICATION Spec
CONSTANTS
    f1 = f1
    f2 = f2
    c1 = c1
    c2 = c2
    File = {f1, f2}
    CidOf <- MCCidOf
    None = None
    MaxUploads = 2
    Faults = {"no_cid"}
INVARIANTS
    EmptyCidWasReported
