--------------------------- MODULE MCAsyncConnection ---------------------------
(* AsyncConnection for TLC: the set of users comes from the configurations; *)
(* no symmetry, as every run but one checks liveness.                       *)
EXTENDS AsyncConnection

World(b, o, c, a, f) ==
    [asserts |-> b, orderly |-> o, await_first |-> c, asks |-> a, faults |-> f]

(* Both builds, both disciplines, both compilers: programs that ask        *)
(* connected() with a driver that may fail to disconnect, programs that do *)
(* not with one that may refuse statements, or may do both.                *)
MCWorlds ==
    UNION {{World(b, o, c, TRUE, {"disconnect"}), World(b, o, c, FALSE, {"alloc"}),
            World(b, o, c, FALSE, DriverCalls)} :
                b \in BOOLEAN, o \in BOOLEAN, c \in BOOLEAN}

(* A debug build over a driver that never fails.                           *)
RaceWorlds == {World(TRUE, FALSE, FALSE, FALSE, {})}
=============================================================================
