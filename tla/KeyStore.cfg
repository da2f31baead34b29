\* Concurrent requests under rotation, revocation, renaming and verdicts.
CONSTANTS
    alice = alice  bob = bob  bad = bad  m1 = m1  m2 = m2  p1 = p1  p2 = p2
    h1 = h1  h1b = h1b  h2 = h2  hb = hb
    ta = ta  taNew = taNew  tb = tb  junk = junk  r1 = r1  r2 = r2
    Malformed = Malformed  Absent = Absent  NoName = NoName  NoList = NoList
    NoModel = NoModel  NoTime = NoTime  NoEntry = NoEntry  NoCall = NoCall
    Labels = {alice, bob, bad}
    CtrlLabels = {bad}
    Passwords = {p1, p2}
    Hashes = {h1, h1b, h2, hb}
    Verifies <- MCVerifies
    Credential <- MCCredential
    Seed <- MCSeed
    Models = {m1, m2}
    Tokens = {ta, taNew}
    Requests = {r1, r2}
    Rosters <- MCRosters
    Overlays <- MCOverlays
    MaxGen = 2
    MaxTime = 1
SYMMETRY Slots
SPECIFICATION Spec
INVARIANTS TypeOK CacheTransparent DisplayIdsUnique ScopeAgreesWithEnforce
PROPERTIES VerdictsSurviveIdentityPull ImplementsGate
