\* coupon-fcfs-concurrency when the target answers a 400 without a JSON body.
CONSTANTS
    NumVUs = 3
    StartVUs = 1
    Stages <- MCStages
    GraceTicks = 1
    Variant = "helpers"
    Selection = "random"
    UserIdStart = 1
    UserIdEnd = 3
    USER_IDS <- MCUserIds
    KnownUsers <- MCKnownUsers
    Stock = 1
    Unreliable = FALSE
    MalformedBodies = TRUE
    MaxBurst = 2
SPECIFICATION Spec
INVARIANT NoLostRecord
