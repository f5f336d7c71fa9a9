SPECIFICATION Spec
CONSTANTS
    c = c
    d = d
    l1 = l1
    l2 = l2
    mbbs = mbbs
    bds = bds
    Unknown = Unknown
    Nobody = Nobody
    NoCourse = NoCourse
    NoEvent = NoEvent
    NoEntry = NoEntry
    Callers = {c, d}
    Suspendable = {d}
    Leads = {l1, l2}
    Courses = {mbbs, bds}
    Submissions <- SomeCalls
    CallsPerStep = 1
    DailyCap = 50
    DayLength = 2
    Horizon = 2
    MaxCalls = 3
INVARIANTS
    BonusMatchesCalls
    InterestPaysTheFirstCall
    CallIsSavedOnce
