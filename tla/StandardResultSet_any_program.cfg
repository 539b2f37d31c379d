\* Both builds, drivers that do and do not report what is left of a cell; no
\* faults, or failing SQLFetch and SQLGetData.
SPECIFICATION FairSpec
CONSTANTS
    Builds = {TRUE, FALSE}
    Drivers = {TRUE, FALSE}
    Faults = {{}, {"fetch", "getdata"}}
    FixedColumns = {"num"}
    TextColumns = {"name", "text"}
    BinaryColumns = {"blob"}
    Rows <- MCRows
    ColumnSize <- MCColumnSize
    Buffer = 2
    MaxTotal = 2
    MaxValue = 6
CHECK_DEADLOCK FALSE
INVARIANTS
    TypeOK
    GettersReturnTheCell
    DisconnectedGettersThrow
    NextFollowsTheCursor
PROPERTIES
    GettersReturn
