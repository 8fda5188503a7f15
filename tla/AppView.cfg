SPECIFICATION Spec
CONSTANTS
    Height = 2
    MaxRows = 3
    RowCounts = {0, 3}
    FileRows = 3
    SymbolLists <- SymbolListsValue
    SectionTables <- SectionTablesValue
    CategoryRows <- CategoryRowsValue
    CompletionLists <- CompletionListsValue
    Habits <- HabitsValue
CHECK_DEADLOCK FALSE
INVARIANT TypeOK
PROPERTY FrameIsSound
