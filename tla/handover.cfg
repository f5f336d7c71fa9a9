SPECIFICATION Spec
SYMMETRY AnyRequest
CONSTANTS
    c = c
    d = d
    k = k
    l1 = l1
    r1 = r1
    r2 = r2
    e1 = e1
    Nobody = Nobody
    NoEvent = NoEvent
    Leads = {l1}
    Callers = {c, d}
    Counselors = {d, k}
    Suspendable = {k}
    Creator <- CreatedByCounselor
    Requests = {r1, r2}
    Events = {e1}
    MaxAssignments = 2
    MaxNotes = 2
    MaxAdmissions = 2
INVARIANTS
    OneCounselorAtATime
    OnePendingRequest
    WorkNamesItsCounselor
    NoteSavedOnce

