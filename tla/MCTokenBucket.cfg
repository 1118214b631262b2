SPECIFICATION Spec
CONSTANTS
    Capacity = 3
    Unit = 3
    Rate = 2
    MaxTime = 10
INVARIANTS
    TypeOK
    RateBounded
    SteadyNeverRefused
