\* Both builds, a program that may prepare twice, two layouts of columns;
\* chunks fill up and new ones are created.
SPECIFICATION MemorySpec
CONSTANTS
    DefaultChunkSize = 2
    Rows <- MCRows
    Tables <- MCTables
    Blank = Blank
    Builds = {TRUE, FALSE}
    Repeats = TRUE
    MaxRequest = 3
    MaxRows = 4
CONSTRAINT RowBound
CHECK_DEADLOCK FALSE
INVARIANTS
    TypeOK
    EveryRowIsFound
    AreaIsFreeSpace
    ViewsReadTheirCells
    DriverStaysInItsArea
    CellsAreAligned
PROPERTIES
    IsRowLog
