SPECIFICATION Spec
CONSTANT GiveUp = 2
CONSTANT Scenarios <- OneEach
INVARIANTS TypeOK LastWord MediaStops NoOrphanedCall OneFinalAnswer EndIsSignalled
PROPERTIES ImplementsOutline
CHECK_DEADLOCK FALSE
