CONSTANTS
    MaxOpens = 1
    MaxRows = 2
    FallbackRows = 3
SPECIFICATION Spec
INVARIANT FinalTickShowsAll
