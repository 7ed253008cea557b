\* order-load-test: two VUs, six iterations, latencies on both sides of
\* the 1 s check and the p(95)/p(99) bounds, a target that may omit the
\* order number.
CONSTANTS
    Script = "load"
    NumVUs = 2
    MaxIters = 6
    Latencies = {500, 1500, 2500}
    FaultyTarget = TRUE
SPECIFICATION Spec
INVARIANTS
    TypeOK
    SuccessRateSound
