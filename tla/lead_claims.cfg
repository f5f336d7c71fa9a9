CONSTANTS
    a = a
    b = b
    Leads = {l1}
    Callers = {a, b}
    CallerRole = {a, b}
    Removable = {}
    DeskStaff = {m}
    Sweepers = {s1}
    Editors = {}
    Outcomes = {"BUSY", "RINGING"}
    EditStatuses = {"PENDING"}
    Timeout = 0
    Delay <- MCDelay
    MaxLag = 1
    Nobody = Nobody
    NoEdit = NoEdit
SPECIFICATION FairSpec
INVARIANTS ClaimAndAssignmentAgree HistoryMatchesOwner
PROPERTIES ManualOwnerIsKept ImplementsOwnership PendingClaimIsRecovered
