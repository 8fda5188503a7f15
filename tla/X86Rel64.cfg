CONSTANTS
    Bytes <- MCBytes
    ModRMs <- MCModRMs
SPECIFICATION Spec
INVARIANT OnlyMovWidens
CHECK_DEADLOCK FALSE
