\* order-soak-test against a target that may answer 200 without an order
\* number.
CONSTANTS
    Script = "soak"
    NumVUs = 1
    MaxIters = 3
    Latencies = {500, 2500}
    FaultyTarget = TRUE
SPECIFICATION Spec
INVARIANTS
    SuccessRateSound
