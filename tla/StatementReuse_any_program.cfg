\* Programs that use the newest result set, all of them, or both kinds.
SPECIFICATION Spec
CONSTANTS
    Programs <- MCPrograms
    MaxQueries = 2
    MaxTotal = 3
    Quantities = {1, 2}
CHECK_DEADLOCK FALSE
INVARIANTS
    TypeOK
    EachReadsItsOwnQuery
    NoStrayWrites
PROPERTIES
    ShownRowsStay
