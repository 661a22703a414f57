SPECIFICATION Spec
INVARIANTS SeedCompletes
CHECK_DEADLOCK FALSE
