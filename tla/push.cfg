SPECIFICATION PushSpec
CONSTANTS
    u1 = u1
    u2 = u2
    d1 = d1
    chat = chat
    offer = offer
    NoUser = NoUser
    Users = {u1, u2}
    Devices = {d1}
    Events = {chat, offer}
    Website = {offer}
    Audience <- ForWhom
    BatchSize = 1
    AskLimit = 1
    MaxRegistrations = 3
CHECK_DEADLOCK FALSE
INVARIANTS
    RegisteredPhonesAreReached
    PushesHaveTheirEntry
    NoPushTwice
    PushesGoToTheAudience
