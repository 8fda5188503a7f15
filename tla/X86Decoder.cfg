CONSTANTS
    Bytes <- MCBytes
    ModRMs <- MCModRMs
SPECIFICATION Spec
INVARIANTS TypeOK RexAdjacent EscapeShape RelativeToEnd
PROPERTY KeepsLine
CHECK_DEADLOCK FALSE
