CONSTANT Migrators = {m1, m2}
SPECIFICATION Spec
INVARIANT DownTakesLatest
CHECK_DEADLOCK FALSE
