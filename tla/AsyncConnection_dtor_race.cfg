\* A disconnect on the strand while a result set is destroyed.
SPECIFICATION Spec
CONSTANTS
    Users = {u1}
    NoUser = NoUser
    Worlds <- RaceWorlds
CHECK_DEADLOCK FALSE
INVARIANTS
    DestructorsNeverThrow
