CONSTANTS
    MaxOpens = 2
    MaxRows = 1
SPECIFICATION Spec
INVARIANT OpenReportsFailure
