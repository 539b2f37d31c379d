------------------------------- MODULE Handles -------------------------------
(***************************************************************************)
(* The tree of ODBC handles: handles.hpp with the allocation wrappers of   *)
(* sql_function_wrappers.cpp, over the handle table of the driver manager. *)
(*                                                                         *)
(* A C++ handle object (env_handle, dbc_handle, stmt_handle) is a          *)
(* shared_ptr to an impl_type that owns one SQLHANDLE and a shared_ptr to  *)
(* its parent's impl_type.  The objects that hold these pointers are       *)
(* environments, connections, statements and result sets.                  *)
(*                                                                         *)
(* The module has no actions: a component that owns handles (such as       *)
(* SyncConnection) conjoins its operators with its own state.              *)
(***************************************************************************)
EXTENDS FiniteSets

CONSTANTS
    Env,        \* the one environment
    Conns,      \* connections (dbc handles)
    Stmts,      \* statements  (stmt handles)
    NoConn,     \* the parent of a statement slot that was never used
    Worlds      \* the builds, programs and drivers looked at

DriverCalls == {"alloc", "connect", "disconnect", "exec"}

ASSUME ObjectsAreDistinct ==
    /\ Env \notin Conns \cup Stmts
    /\ Conns \cap Stmts = {}
    /\ NoConn \notin Conns

(* asserts: a build without NDEBUG.  void_connect: a program that calls    *)
(* connect(std::string).  faults: the driver calls that may answer         *)
(* SQL_ERROR on valid input.                                               *)
ASSUME WorldsAreWorlds ==
    Worlds \subseteq [asserts : BOOLEAN, void_connect : BOOLEAN,
                      faults : SUBSET DriverCalls]

VARIABLES
    world,      \* the one this run of the process is in; it never changes
    hdl,        \* the driver manager's handle table, by the object that owns it
    parent_,    \* impl_type::parent_ of a statement (a connection's is Env)
    owners,     \* what the program holds: the C++ objects that share an impl_type
    dead,       \* impl_type::children_dead_
    fault       \* what ended the process, "none" while it runs

Asserts == world.asserts
Faults == world.faults

handleVars == <<hdl, parent_, owners, dead, fault>>

Objects == {Env} \cup Conns \cup Stmts
Parents == {Env} \cup Conns

(* "unused": no impl_type and no handle.  "null": the impl_type holds      *)
(* SQL_NULL_HANDLE.  "alloc": a valid handle.  "ready": an environment     *)
(* whose ODBC version is set.  "conn": a connected dbc.  "freed": the      *)
(* impl_type lives on, its handle was freed by SQLDisconnect.              *)
EnvStates  == {"unused", "null", "alloc", "ready"}
ConnStates == {"unused", "null", "alloc", "conn"}
StmtStates == {"unused", "null", "alloc", "freed"}
HandleStates == EnvStates \cup ConnStates \cup StmtStates

OwnerKinds == {"environment", "connection", "statement", "result_set"}

Endings == {"none", "assert", "dtor", "noexcept"}

Running == fault = "none"

(* handle_odbc_call without messages: an invalid handle throws, SQL_ERROR  *)
(* only when the handle it is asked about is null.                         *)
ThrowsOnInvalidOnly(answer, null) == answer = "invalid"
Throws(answer, null) == answer = "invalid" \/ (answer = "error" /\ null)

-----------------------------------------------------------------------------
(* Lifetime of the impl_type objects: a shared_ptr count above zero.       *)

StmtLives(own, s) == own[s] # {}

ConnLives(own, c) ==
    own[c] # {} \/ \E s \in Stmts : StmtLives(own, s) /\ parent_[s] = c

EnvLives(own) == own[Env] # {} \/ \E c \in Conns : ConnLives(own, c)

Living(own) ==
    {s \in Stmts : StmtLives(own, s)} \cup {c \in Conns : ConnLives(own, c)}
        \cup (IF EnvLives(own) THEN {Env} ELSE {})

ParentOf(o) == IF o \in Stmts THEN parent_[o] ELSE Env

(* impl_type::children_dead(), the recursion over at most two parents.     *)
ChildrenDead(d, p) == d[p] \/ (p \in Conns /\ d[Env])

MarksNothing(d, c) == d
mark_children_dead(d, c) == [d EXCEPT ![c] = TRUE]

-----------------------------------------------------------------------------
(* The driver manager.                                                     *)

OrFault(call, good, bad) == {good} \cup (IF call \in Faults THEN {bad} ELSE {})

(* SQLAllocHandle: "invalid" for a null parent, SQL_ERROR with a null      *)
(* output handle when the parent is not ready for children.                *)
AllocHandle(t, p) ==
    IF t[p] = "null" THEN {"invalid"}
    ELSE IF t[p] \in {"ready", "conn"} THEN OrFault("alloc", "alloc", "null")
    ELSE {"null"}

AllocEnv == OrFault("alloc", "alloc", "null")

(* SQLFreeHandle: SQL_INVALID_HANDLE, SQL_ERROR or SQL_SUCCESS.            *)
FreeHandle(t, o) ==
    IF t[o] \in {"null", "freed", "unused"} THEN "invalid"
    ELSE IF t[o] = "conn" \/ (o = Env /\ \E c \in Conns : t[c] \in {"alloc", "conn"})
    THEN "error" ELSE "success"

(* SQLDisconnect frees every statement handle of the connection.           *)
DisconnectTable(t, own, c) ==
    [o \in Objects |->
        IF o = c THEN "alloc"
        ELSE IF o \in Stmts /\ t[o] = "alloc" /\ parent_[o] = c
             THEN IF StmtLives(own, o) THEN "freed" ELSE "unused"
             ELSE t[o]]

-----------------------------------------------------------------------------
(* ~impl_type(), for every object whose last shared_ptr goes away.  The    *)
(* member parent_ is released after the body has run, so a child is freed  *)
(* before its parent.                                                      *)

AsksOwnFlag(d, o) == IF o \in Conns THEN ChildrenDead(d, o) ELSE o # Env /\ d[ParentOf(o)]
SkipsDealloc(d, o) == o # Env /\ ChildrenDead(d, ParentOf(o))

DtorThrows(t, d, o) == ~SkipsDealloc(d, o) /\ Throws(FreeHandle(t, o), FALSE)

AfterDtor(t, d, o) ==
    IF ~SkipsDealloc(d, o) /\ FreeHandle(t, o) # "error" THEN "unused"
    ELSE IF t[o] \in {"null", "freed"} THEN "unused"
    ELSE t[o]                                            \* a leaked handle

(* The table after the impl_types in D are destroyed, the environment last *)
ChildrenDestroyed(t, d, D) ==
    [o \in Objects |-> IF o \in D \ {Env} THEN AfterDtor(t, d, o) ELSE t[o]]

Destroyed(t, d, D) ==
    LET rest == ChildrenDestroyed(t, d, D)
    IN  [o \in Objects |->
            IF o = Env /\ o \in D THEN AfterDtor(rest, d, o) ELSE rest[o]]

DestructionThrows(t, d, D) ==
    \/ \E o \in D \ {Env} : DtorThrows(t, d, o)
    \/ Env \in D /\ DtorThrows(ChildrenDestroyed(t, d, D), d, Env)

(* The program lets go of one object of kind k, with handle table t and    *)
(* flags d.                                                                *)
Without(o, k) == [owners EXCEPT ![o] = @ \ {k}]

Release(o, k, t, d) ==
    LET own == Without(o, k)
        D   == Living(owners) \ Living(own)
    IN  /\ owners' = own
        /\ dead' = d
        /\ hdl' = Destroyed(t, d, D)
        /\ fault' = IF DestructionThrows(t, d, D) THEN "dtor" ELSE "none"
        /\ UNCHANGED parent_

-----------------------------------------------------------------------------
TableOK(t) ==
    /\ t \in [Objects -> HandleStates]
    /\ t[Env] \in EnvStates
    /\ \A c \in Conns : t[c] \in ConnStates
    /\ \A s \in Stmts : t[s] \in StmtStates

HandlesTypeOK ==
    /\ TableOK(hdl)
    /\ Running => hdl[Env] # "null"
    /\ parent_ \in [Stmts -> Conns \cup {NoConn}]
    /\ \A s \in Stmts : hdl[s] # "unused" \/ owners[s] # {} => parent_[s] \in Conns
    /\ owners \in [Objects -> SUBSET OwnerKinds]
    /\ dead \in [Parents -> BOOLEAN]
    /\ fault \in Endings

HandlesInit ==
    /\ hdl = [o \in Objects |-> "unused"]
    /\ parent_ = [s \in Stmts |-> NoConn]
    /\ owners = [o \in Objects |-> {}]
    /\ dead = [p \in Parents |-> FALSE]
    /\ fault = "none"
=============================================================================
