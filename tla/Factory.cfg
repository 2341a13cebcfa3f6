\* Three calls overlap.
CONSTANTS
    Call = {c1, c2, c3}
SPECIFICATION FactorySpec
CHECK_DEADLOCK FALSE
INVARIANTS
    ReturnsItsOwnChild
    EventsAreResults
