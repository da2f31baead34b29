\* One key, two client addresses, two sessions, a database that may fail.
CONSTANTS
    NoRow = NoRow  NoTime = NoTime  NoSource = NoSource  NoName = NoName
    New = New  None = None
    Ids = {k1}  Named = {}  Name = team
    Narrowings = {{}, {m}}
    Spans = {2, 20}
    Day = 2  CostWindow = 3  Retention = 4
    CostCap = 1  RequestCap = 1
    MaxTime = 4  MaxEvents = 1  MaxEdits = 3  MaxErrors = 1
    Addresses = {ip1, ip2}
    Attempts = {a1, a2}
    MAX_FAILURES = 2  WINDOW = 3
    MaxEntries = 1  MaxRecent = 4
    Tokens = {t1, t2}
    Flows = {f1, f2}
    Callbacks = {c1, c2}
    SessionTtl = 2  FlowMaxAge = 1
SPECIFICATION FairSpec
INVARIANT Consistent
PROPERTIES StandsUntilEnded RefusalsEnd
CHECK_DEADLOCK FALSE
