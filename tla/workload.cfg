SPECIFICATION AlertsSpec
CONSTANTS
    c1 = c1
    c2 = c2
    l1 = l1
    l2 = l2
    w1 = w1
    w2 = w2
    NoCaller = NoCaller
    NoAlert = NoAlert
    NotRead = NotRead
    NoForm = NoForm
    Callers = {c1, c2}
    Leads = {l1, l2}
    Workers = {w1, w2}
    Threshold = 1
    MaxOperations = 2
    MaxAccidents = 1
SYMMETRY Alike
CHECK_DEADLOCK FALSE
INVARIANTS
    EveryChangeIsEvaluated
    CheckRepairs
