CONSTANTS
    MaxOpens = 3
    MaxRows = 2
SPECIFICATION FairSpec
INVARIANTS TypeOK SettledShowsAll SymbolsComplete
PROPERTIES KeepsView EventuallySettled
