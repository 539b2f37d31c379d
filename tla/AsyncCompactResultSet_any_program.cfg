\* Two threads: one owner with a result set of its own, or a shared one.
SPECIFICATION FairSpec
CONSTANTS
    DefaultChunkSize = 2
    Rows <- CursorRows
    Blank = Blank
    Users = {u1, u2}
    Owner = u1
    Disciplines = {"private", "shared"}
    MaxTotal = 3
    Quantities = {1, 2}
CHECK_DEADLOCK FALSE
INVARIANTS
    TypeOK
    FetchersShareTheCursor
    ReadsAreRight
    PrivateProgramsAreSafe
PROPERTIES
    AwaitedFetchesReturn
