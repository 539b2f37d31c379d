\* Both builds, both compilers, drivers that may fail; two coroutines that
\* destroy their result sets in time, or that drop and disconnect at any moment.
SPECIFICATION FairSpec
CONSTANTS
    Users = {u1, u2}
    NoUser = NoUser
    Worlds <- MCWorlds
CHECK_DEADLOCK FALSE
INVARIANTS
    TypeOK
    OrderlyDestructorsNeverThrow
    NoDanglingWrapper
    IdleConnectedIsTruthful
PROPERTIES
    IsConnection
    DroppedConnectionIsClosed
    AwaitedCallsReturn
