\* void connect(std::string) does not look at cancelled_.
SPECIFICATION Spec
CONSTANTS
    Env = Env
    NoConn = NoConn
    Conns = {c1, c2}
    Stmts = {s1, s2}
    Worlds <- FaultFreeWorlds
SYMMETRY Symmetry
CHECK_DEADLOCK FALSE
INVARIANTS
    DeadMeansFreed
