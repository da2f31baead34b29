\* Two batches across nodes, keys and topologies, their results fetched twice.
CONSTANTS
    None = None
    signer1 = signer1  signer2 = signer2  plain = plain
    alice = alice  bob = bob  x = x  y = y  z = z  p = p  q = q  secret = secret
    Nodes = {signer1, signer2, plain}
    Keys = {alice, bob}
    Models = {x, y}
    Providers = {p, q}
    Secret <- MCSecret
    MayUse <- MCMayUse
    Topologies <- MCTopologies
    Specs <- MCSpecs
    MaxJobs = 2
    MaxPair = 2
    MaxStreams = 2
SYMMETRY Signers
SPECIFICATION Spec
INVARIANTS OwnerOnly AnyNode OneProvider UsagePerLine
CHECK_DEADLOCK FALSE
