\* coupon-fcfs-concurrency's four scenarios in 5 s ticks.  VU 1 runs whenever a
\* scenario does; VU 50 is taken out by the ramp-downs of load_test,
\* stress_test and spike_test.
CONSTANTS
    VUIndices = {1, 50}
    TickSeconds = 5
SPECIFICATION Spec
INVARIANTS
    TypeOK
    GraceNeverCutsRequest
