SPECIFICATION Spec
CONSTANT Buffering = TRUE
INVARIANTS Billable BlamesFirst ReportedOnce EventsInOrder
PROPERTY StateReleased
