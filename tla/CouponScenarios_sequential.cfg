\* coupon-fcfs-concurrency's four scenarios in 5 s ticks: does any scenario still
\* have a VU running once the next has started?
CONSTANTS
    VUIndices = {1, 50}
    TickSeconds = 5
SPECIFICATION Spec

INVARIANTS
    ScenariosSequential
