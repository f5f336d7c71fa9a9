SPECIFICATION FairSpec
CONSTANTS
    phone = phone
    web = web
    k1 = k1
    Devices = {phone}
    Ops <- LoginOps
    Corrections = {k1}
    CorrectedDay <- FirstDay
    DayLength = 2
    Horizon = 3
    MaxSessions = 2
    MaxChildren = 3
INVARIANTS
    AutoClosedAtMidnight
PROPERTIES
    ForgottenSessionIsClosed
    ImplementsTimesheet
