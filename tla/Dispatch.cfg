\* Walk, fall-through, bounded wait and event lifecycle of concurrent requests.
CONSTANTS
    p1 = p1  p2 = p2  ghost = ghost  r1 = r1  r2 = r2
    NoLimit = NoLimit  NoWait = NoWait  NoProvider = NoProvider
    Providers = {p1, p2, ghost}
    Registered = {p1, p2}
    Chains <- MCChains
    MaxConcurrent <- OnePermit
    Tpm <- TokenBudget
    Costs = {1}
    Minute = 2
    Cooldown = 1
    MaxWait = 1
    Poll = 1
    MaxUsage = 1
    MaxTime = 1
    Requests = {r1, r2}
SPECIFICATION FairSpec
CHECK_DEADLOCK FALSE
INVARIANTS TypeOK GuardsConserved EventsWellFormed
PROPERTIES Terminates AttemptDiscipline
