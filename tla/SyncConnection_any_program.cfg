\* Two worlds: a build with asserts in which anything may be called and
\* anything may fail, and NDEBUG with a well-behaved program and driver.
SPECIFICATION Spec
CONSTANTS
    Env = Env
    NoConn = NoConn
    Conns = {c1, c2}
    Stmts = {s1, s2}
    Worlds <- MCWorlds
SYMMETRY Symmetry
CHECK_DEADLOCK FALSE
INVARIANTS
    TypeOK
    DestructorsNeverThrow
    NoLeakedHandle
    ConnectedIsTruthful
    ChildrenDeadIsExact
PROPERTIES
    IsConnection
