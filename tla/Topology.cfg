\* Swaps under requests that keep older snapshots.
CONSTANTS
    base = base  a = a  b = b  chat = chat  dialect = dialect  foreign = foreign
    oai = oai  gpt = gpt  mini = mini  e1 = e1  e2 = e2  r1 = r1  r2 = r2
    Absent = Absent  NoPrefix = NoPrefix  Unlimited = Unlimited  Blank = Blank  NoCall = NoCall
    Names = {base, a, b}
    Kinds = {chat, dialect, foreign}
    Buildable = {chat, dialect}
    Segments = {oai, gpt, mini, Blank}
    Prefixes <- MCPrefixes
    Models <- MCTargetModels
    Limits = {1, 2}
    Endpoints = {e1, e2}
    BaseProviders <- MCBaseProviders
    BaseRoutes <- MCBaseRoutes
    Pulls <- MCPulls
    Catalog <- MCCatalog
    Requests = {r1, r2}
    MaxSwaps = 2
    MaxListings = 1
SYMMETRY Slots
SPECIFICATION Spec
INVARIANTS LimitHolds ListedAsServed
PROPERTIES UntouchedKept ImplementsLayer
