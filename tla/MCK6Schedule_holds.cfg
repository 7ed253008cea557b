\* Every script schedule, second by second, against the holds its comments
\* name.
SPECIFICATION Spec
INVARIANT HoldsAsCommented
