\* Both builds; a program that fetches two rows at a time into chunks of four,
\* and one that mixes sizes; no faults, bad rows and a disconnect, or failing
\* fetches.
SPECIFICATION FairSpec
CONSTANTS
    DefaultChunkSize = 4
    Rows <- CursorRows
    Blank = Blank
    Builds = {TRUE, FALSE}
    MaxTotal = 5
    Programs = {{2}, {1, 3}}
    MaxViews = 1
    Faults = {{}, {"row", "disconnect"}, {"fetch"}}
    MaxPhantoms = 4
CHECK_DEADLOCK FALSE
INVARIANTS
    TypeOK
    StorageIsCursorPrefix
    RowsInCursorOrder
    ViewsAreStable
    AlignedFalseMeansAllRows
PROPERTIES
    FetchAllTerminates
