\* A build with asserts, by a program that keeps the contract.
SPECIFICATION MemorySpec
CONSTANTS
    DefaultChunkSize = 4
    Rows <- MCRows
    Tables <- MCTables
    Blank = Blank
    Builds = {TRUE}
    Repeats = FALSE
    MaxRequest = 3
    MaxRows = 4
CONSTRAINT RowBound
CHECK_DEADLOCK FALSE
INVARIANTS
    ContractMeetsNoAssert
