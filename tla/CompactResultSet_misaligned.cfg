\* NDEBUG, fetches of three rows into chunks of four.
SPECIFICATION Spec
CONSTANTS
    DefaultChunkSize = 4
    Rows <- CursorRows
    Blank = Blank
    Builds = {FALSE}
    MaxTotal = 6
    Programs = {{3}}
    MaxViews = 1
    Faults = {{}}
    MaxPhantoms = 4
INVARIANTS
    FalseMeansAllRows
