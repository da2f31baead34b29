\* Permits and both rates under concurrent admission, debit and release.
CONSTANTS
    a = a  b = b  r1 = r1  r2 = r2
    Global = Global  NoLimit = NoLimit  NoWindow = NoWindow
    Models = {a, b}
    MaxConcurrent <- SharedPermits
    Rpm <- SharedRpm
    Tpm <- SharedTpm
    Costs = {1}
    Minute = 2
    Requests = {r1, r2}
    MaxTime = 2
SYMMETRY Slots
SPECIFICATION Spec
INVARIANTS TypeOK PermitsConserved BurstBound RejectionReturnsTokens
