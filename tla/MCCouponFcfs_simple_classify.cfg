\* coupon-fcfs-simple: sequential user ids over a range wider than the target's users.
CONSTANTS
    NumVUs = 3
    StartVUs = 1
    Stages <- MCStages
    GraceTicks = 1
    Variant = "simple"
    Selection = "sequential"
    UserIdStart = 1
    UserIdEnd = 3
    USER_IDS <- MCUserIds
    KnownUsers <- MCKnownUsers
    Stock = 1
    Unreliable = FALSE
    MalformedBodies = FALSE
    MaxBurst = 2
SPECIFICATION Spec
INVARIANT ClassifiedAsSpecified
