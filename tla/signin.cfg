SPECIFICATION Spec
CONSTANTS
    p1 = p1
    p2 = p2
    Devices = {p1, p2}
    DayLength = 2
    Horizon = 3
    Life = 1
    Gap = 1
    Tolerance = 1
    MaxChallenges = 2
    MaxSessions = 2
    MaxPoints = 1
    MaxJobs = 1
SYMMETRY Phones
INVARIANTS
    OneWayIn
    ActiveTimeIsCountedOnce
    PointsAreOfTheirSession
