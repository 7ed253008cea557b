\* coupon-fcfs-simple (sequential ids: VU v posts user v + 1 mod 3) against a
\* correct target that knows every user and holds a coupon for each, over a
\* reliable network: the only answers other than 202 are the VUs' re-posts.
CONSTANTS
    NumVUs = 3
    StartVUs = 1
    Stages <- MCStages
    GraceTicks = 1
    Variant = "simple"
    Selection = "sequential"
    UserIdStart = 1
    UserIdEnd = 3
    USER_IDS <- MCUserIds
    KnownUsers = {1, 2, 3}
    Stock = 3
    Unreliable = FALSE
    MalformedBodies = FALSE
    MaxBurst = 2
SPECIFICATION Spec
INVARIANT BusinessOutcomesPassThreshold
