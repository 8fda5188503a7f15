CONSTANTS
    MaxOpens = 3
    MaxRows = 2
SPECIFICATION FairSpec
INVARIANTS TypeOK OneWorker NoteIsFinal PairsOwned CompactAlone
PROPERTIES JoinReturns KeepsFeed
