SPECIFICATION Spec
CONSTANTS
    w1 = w1
    w2 = w2
    e1 = e1
    e2 = e2
    w3 = w3
    NoEvent = NoEvent
    Idle = Idle
    Workers = {w1, w2, w3}
    NoUser = NoUser
    Forms <- Forms4
    Variants <- CallForms
    Found <- LookupForms
    Local <- CounselorForms
    Users <- Staff
    Events = {e1, e2}
    Jobs <- EveryKind
    MaxRequests = 4
SYMMETRY Threads
CHECK_DEADLOCK FALSE
INVARIANTS
    LockedNumbersAreUnique
    OneLeadPerEvent
    RevisionCountsSaves
    OnlyForeignKeysCloseACircle
