--------------------------- MODULE MCSyncConnection ---------------------------
(* SyncConnection for TLC: two connections and two statement slots.        *)
EXTENDS SyncConnection, TLC

Symmetry == Permutations(Conns) \cup Permutations(Stmts)

World(a, v, f) == [asserts |-> a, void_connect |-> v, faults |-> f]

(* A build with asserts, both connect() overloads, any call may fail; and  *)
(* NDEBUG, only bool connect(), any call but SQLDisconnect may fail.       *)
MCWorlds ==
    {World(TRUE, TRUE, DriverCalls), World(FALSE, FALSE, DriverCalls \ {"disconnect"})}

(* A driver that never fails, under a program that uses both overloads.    *)
FaultFreeWorlds == {World(TRUE, TRUE, {})}
=============================================================================
