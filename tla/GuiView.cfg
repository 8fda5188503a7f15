CONSTANTS
    MaxOpens = 2
    MaxRows = 2
    FallbackRows = 3
SPECIFICATION FairSpec
INVARIANTS TypeOK RowsPublished EditsCurrent PollsWhileDecoding PullShowsAll ScanNotForgotten
PROPERTY PollingStops
