\* coupon-fcfs-quick / -spike: fixed pool by __VU, counting into module lets.
CONSTANTS
    NumVUs = 3
    StartVUs = 1
    Stages <- MCStages
    GraceTicks = 1
    Variant = "inline"
    Selection = "cyclic"
    UserIdStart = 1
    UserIdEnd = 3
    USER_IDS <- MCUserIds
    KnownUsers <- MCKnownUsers
    Stock = 1
    Unreliable = FALSE
    MalformedBodies = FALSE
    MaxBurst = 2
SPECIFICATION Spec
INVARIANT ReportFaithful
