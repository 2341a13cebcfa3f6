\* Each of the three components, three clicks.
CONSTANT MaxClicks = 3
SPECIFICATION FairButtonSpec
CHECK_DEADLOCK FALSE
INVARIANTS
    HelloOneAtATime
    EachIsToldItsOutcome
PROPERTIES
    ButtonComesBack
