SPECIFICATION LifecycleSpec
INVARIANTS VGARestoredFirst
CHECK_DEADLOCK FALSE
