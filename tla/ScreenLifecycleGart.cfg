SPECIFICATION LifecycleSpec
INVARIANTS GartTableKept
CHECK_DEADLOCK FALSE
