\* Every schedule k6 starts, order-soak-test built from each DURATION_HOURS
\* value, against the schedule rules of spec 4.1.
SPECIFICATION Spec
INVARIANT OnlyValidSchedulesRun
