CONSTANTS
    a = a
    b = b
    Leads = {l1}
    Callers = {a, b}
    CallerRole = {a, b}
    Removable = {b}
    DeskStaff = {}
    Sweepers = {s1}
    Editors = {e1}
    Outcomes = {"BUSY"}
    EditStatuses = {}
    Timeout = 0
    Delay <- MCDelay
    MaxLag = 0
    Nobody = Nobody
    NoEdit = NoEdit
SPECIFICATION Spec
INVARIANTS FreeLeadIsOffered
PROPERTIES CalledClaimIsNotTakenBack CooldownRunsItsCourse
