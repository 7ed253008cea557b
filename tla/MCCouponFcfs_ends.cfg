\* coupon-fcfs-concurrency: random user ids, validateCouponIssueResponse,
\* requests and answers may be lost, the target answers JSON bodies; three
\* VUs ramped up and down again.
CONSTANTS
    NumVUs = 3
    StartVUs = 1
    Stages <- MCShortStages
    GraceTicks = 1
    Variant = "helpers"
    Selection = "random"
    UserIdStart = 1
    UserIdEnd = 3
    USER_IDS <- MCUserIds
    KnownUsers <- MCKnownUsers
    Stock = 1
    Unreliable = TRUE
    MalformedBodies = FALSE
    MaxBurst = 2
SPECIFICATION Spec
INVARIANTS
    TypeOK
    GrantsNeverOverReported
    VUIdsDistinctWhenFit
PROPERTIES
    MetricsRefined
