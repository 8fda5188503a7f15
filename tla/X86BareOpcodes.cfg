CONSTANTS
    Bytes <- MCBareBytes
    ModRMs <- MCModRMs
SPECIFICATION Spec
INVARIANT BareOpcodesNamed
CHECK_DEADLOCK FALSE
