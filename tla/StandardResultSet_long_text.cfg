\* A build with asserts, a driver that does not report what is left of a cell.
SPECIFICATION Spec
CONSTANTS
    Builds = {TRUE}
    Drivers = {FALSE}
    Faults = {{}}
    FixedColumns = {"num"}
    TextColumns = {"name", "text"}
    BinaryColumns = {"blob"}
    Rows <- MCRows
    ColumnSize <- MCColumnSize
    Buffer = 2
    MaxTotal = 2
    MaxValue = 6
CHECK_DEADLOCK FALSE
INVARIANTS
    TextIsWhole
