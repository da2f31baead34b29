\* With introspection and without, and a cache of one token.
CONSTANTS
    t1 = t1  t2 = t2  k1 = k1  k2 = k2  m1 = m1  m2 = m2  staff = staff  guest = guest
    NoKid = NoKid  NoModel = NoModel  NoEntry = NoEntry  Never = Never
    Requests = {r1, r2}
    Tokens = {t1, t2}
    Kids = {k1, k2}
    Models = {m1, m2}
    Roles = {staff, guest}
    SignedBy <- MCSignedBy  Header <- MCHeader  RolesOf <- MCRolesOf
    Expiry <- MCExpiry  RoleModels <- MCRoleModels
    Inline = {k1}
    Rosters <- MCPair
    Introspection = {TRUE, FALSE}  Ttl = 1  Leeway = 1
    MaxVerified = 1  EvictBatch = 1
    MaxTime = 2
SYMMETRY RequestSymmetry
SPECIFICATION Spec
INVARIANTS TrustWindow CacheBounded Granted
