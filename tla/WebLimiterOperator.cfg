\* The limiter takes over a shorter suspension of the operator, then lifts it.
CONSTANTS
    NoRow = NoRow  NoTime = NoTime  NoSource = NoSource  NoName = NoName
    Ids = {k1}
    Named = {}  Name = team
    Narrowings = {{}, {m}}
    Spans = {2}
    Day = 3  CostWindow = 3  Retention = 4
    CostCap = 1  RequestCap = 0
    MaxTime = 4  MaxEvents = 1  MaxEdits = 3  MaxErrors = 1
SPECIFICATION Spec
INVARIANT OperatorSuspensionsStand
