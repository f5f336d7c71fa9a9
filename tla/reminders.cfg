SPECIFICATION FairSpec
CONSTANTS
    c = c
    d = d
    l1 = l1
    Unknown = Unknown
    Nobody = Nobody
    Callers = {c, d}
    Suspendable = {d}
    Leads = {l1}
    DayLength = 1
    Horizon = 2
    Dates = {0}
    Edits <- SomeEdits
    CallTimes <- SomeTimes
    MaxFollowUps = 2
    MaxEdited = 1
INVARIANTS
    CompletedAfterItWasMade
PROPERTIES
    OverdueIsPenalised
