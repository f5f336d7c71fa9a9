SPECIFICATION Spec
SYMMETRY AnyDevice
CONSTANTS
    phone = phone
    web = web
    k1 = k1
    Devices = {phone, web}
    Ops <- EveryOp
    Corrections = {}
    CorrectedDay <- NoDay
    DayLength = 1
    Horizon = 2
    MaxSessions = 2
    MaxChildren = 3
INVARIANTS
    OneShiftAtATime
    ChildrenMatchStatus
    TimelineIsGapless
PROPERTIES
    FinishedSessionIsFrozen
