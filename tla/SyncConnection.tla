---------------------------- MODULE SyncConnection ----------------------------
(***************************************************************************)
(* aodbc::sync::connection, aodbc::environment and aodbc::statement: the   *)
(* public operations, in every order a program may call them, over the     *)
(* handle tree of Handles.  One action per operation; an operation runs on *)
(* the caller's thread from start to end, so it is atomic here.            *)
(***************************************************************************)
EXTENDS Handles

VARIABLES
    connected_,     \* connection::connected_
    cancelled_,     \* connection::cancelled_
    ret             \* what the last operation returned or threw

vars == <<world, handleVars, connected_, cancelled_, ret>>

Results == {"void", "true", "false", "rows", "garbage", "throw"}

Init ==
    /\ world \in Worlds
    /\ HandlesInit
    /\ connected_ = [c \in Conns |-> FALSE]
    /\ cancelled_ = [c \in Conns |-> FALSE]
    /\ ret = "void"

TypeOK ==
    /\ world \in Worlds
    /\ HandlesTypeOK
    /\ connected_ \in [Conns -> BOOLEAN]
    /\ cancelled_ \in [Conns -> BOOLEAN]
    /\ ret \in Results

Holds(o, k) == k \in owners[o]
Gains(o, k) == owners' = [owners EXCEPT ![o] = @ \cup {k}]
connectionState == <<connected_, cancelled_>>

(* The call leaves every handle and every object as it was.                *)
Returns(r) == ret' = r /\ UNCHANGED <<handleVars, connected_, cancelled_>>

(* An assert fires: the process stops where it stands.                     *)
Aborts == fault' = "assert"
          /\ UNCHANGED <<hdl, parent_, owners, dead, connected_, cancelled_, ret>>

-----------------------------------------------------------------------------
(* environment: its constructor is noexcept, so a failed allocation, which *)
(* handle_odbc_call reports by throwing, terminates the process.           *)
NewEnvironment ==
    /\ Running
    /\ hdl[Env] = "unused"
    /\ \E h \in AllocEnv :
        /\ hdl' = [hdl EXCEPT ![Env] = h]
        /\ fault' = IF h = "null" /\ Throws("error", TRUE) THEN "noexcept" ELSE "none"
    /\ Gains(Env, "environment")
    /\ ret' = "void"
    /\ UNCHANGED <<parent_, dead, connectionState>>

InitEnvironment ==
    /\ Running
    /\ Holds(Env, "environment")
    /\ hdl' = [hdl EXCEPT ![Env] = "ready"]
    /\ ret' = "void"
    /\ UNCHANGED <<parent_, owners, dead, fault, connectionState>>

DestroyEnvironment ==
    /\ Running
    /\ Holds(Env, "environment")
    /\ Release(Env, "environment", hdl, dead)
    /\ ret' = "void"
    /\ UNCHANGED connectionState

-----------------------------------------------------------------------------
(* connection                                                              *)

NewConnection(c) ==
    /\ Running
    /\ Holds(Env, "environment")
    /\ hdl[c] = "unused"
    /\ \E h \in AllocHandle(hdl, Env) :
        /\ hdl' = [hdl EXCEPT ![c] = h]
        /\ fault' = IF h = "null" /\ Asserts THEN "assert" ELSE "none"
    /\ Gains(c, "connection")
    /\ dead' = [dead EXCEPT ![c] = FALSE]
    /\ connected_' = [connected_ EXCEPT ![c] = FALSE]
    /\ cancelled_' = [cancelled_ EXCEPT ![c] = FALSE]
    /\ ret' = "void"
    /\ UNCHANGED parent_

(* SQLDriverConnect on c's handle.                                         *)
DriverConnect(c) ==
    CASE hdl[c] = "null" -> {"invalid"}
      [] hdl[c] = "conn" -> {"error"}
      [] OTHER -> OrFault("connect", "success", "error")

ReconnectsAlways(c) == FALSE
RefusesConnect(c) == cancelled_[c]

ConnectedUnlessThrown(r) == r # "invalid"
ConnectedAfter(r) == r = "success"

(* bool connect(std::string&, messages).                                   *)
Connect(c) ==
    /\ Running
    /\ Holds(c, "connection")
    /\ \/ RefusesConnect(c) /\ Returns("false")
       \/ ~RefusesConnect(c) /\ Asserts /\ connected_[c] /\ Aborts
       \/ /\ ~RefusesConnect(c) /\ ~(Asserts /\ connected_[c])
          /\ \E r \in DriverConnect(c) :
              /\ hdl' = IF r = "success" THEN [hdl EXCEPT ![c] = "conn"] ELSE hdl
              /\ connected_' = [connected_ EXCEPT ![c] = @ \/ ConnectedAfter(r)]
              /\ ret' = IF Throws(r, FALSE) THEN "throw"
                        ELSE IF ConnectedAfter(r) THEN "true" ELSE "false"
          /\ UNCHANGED <<parent_, owners, dead, fault, cancelled_>>

(* void connect(std::string): a SQL_ERROR is printed and dropped.          *)
ConnectVoid(c) ==
    /\ Running
    /\ world.void_connect
    /\ Holds(c, "connection")
    /\ \/ Asserts /\ connected_[c] /\ Aborts
       \/ /\ ~(Asserts /\ connected_[c])
          /\ \E r \in DriverConnect(c) :
              /\ hdl' = IF r = "success" THEN [hdl EXCEPT ![c] = "conn"] ELSE hdl
              /\ connected_' = [connected_ EXCEPT ![c] = @ \/ ~Throws(r, FALSE)]
              /\ ret' = IF Throws(r, FALSE) THEN "throw" ELSE "void"
          /\ UNCHANGED <<parent_, owners, dead, fault, cancelled_>>

(* SQLDisconnect on c's handle; disconnect() keeps going after SQL_ERROR.  *)
DriverDisconnect(c) ==
    IF hdl[c] = "conn" THEN OrFault("disconnect", "success", "error") ELSE {"error"}

DisconnectAsserts(c) == Asserts /\ cancelled_[c]

TableAfterDisconnect(r, own, c) ==
    IF r = "success" THEN DisconnectTable(hdl, own, c) ELSE hdl

Disconnect(c) ==
    /\ Running
    /\ Holds(c, "connection")
    /\ \/ DisconnectAsserts(c) /\ Aborts
       \/ ~DisconnectAsserts(c) /\ ~connected_[c] /\ Returns("void")
       \/ /\ ~DisconnectAsserts(c) /\ connected_[c]
          /\ \E r \in DriverDisconnect(c) : hdl' = TableAfterDisconnect(r, owners, c)
          /\ cancelled_' = [cancelled_ EXCEPT ![c] = TRUE]
          /\ dead' = mark_children_dead(dead, c)
          /\ connected_' = [connected_ EXCEPT ![c] = FALSE]
          /\ ret' = "void"
          /\ UNCHANGED <<parent_, owners, fault>>

(* ~connection(): disconnects when still connected, then drops dbc_.       *)
DestroyConnection(c) ==
    /\ Running
    /\ Holds(c, "connection")
    /\ \/ connected_[c] /\ DisconnectAsserts(c) /\ Aborts
       \/ /\ ~connected_[c]
          /\ Release(c, "connection", hdl, dead)
          /\ ret' = "void"
          /\ UNCHANGED connectionState
       \/ /\ connected_[c] /\ ~DisconnectAsserts(c)
          /\ \E r \in DriverDisconnect(c) :
              Release(c, "connection", TableAfterDisconnect(r, owners, c),
                      mark_children_dead(dead, c))
          /\ cancelled_' = [cancelled_ EXCEPT ![c] = TRUE]
          /\ connected_' = [connected_ EXCEPT ![c] = FALSE]
          /\ ret' = "void"

-----------------------------------------------------------------------------
(* statement and the result sets made from it                              *)

Unused(s) == hdl[s] = "unused"

(* The end of a statement handle that did not outlive its operation.       *)
TransientEnds(s, c, h, r) ==
    LET t == [hdl EXCEPT ![s] = h]
        skips == ChildrenDead(dead, c)
    IN  /\ hdl' = [hdl EXCEPT ![s] = IF skips /\ h = "alloc" THEN h ELSE "unused"]
        /\ fault' = IF ~skips /\ Throws(FreeHandle(t, s), FALSE) THEN "dtor" ELSE "none"
        /\ parent_' = [parent_ EXCEPT ![s] = c]
        /\ ret' = r
        /\ UNCHANGED <<owners, dead, connectionState>>

(* The statement constructor: how the allocation on connection c ends when *)
(* it leaves no usable handle.                                             *)
ConstructorThrows(c) == "invalid" \in AllocHandle(hdl, c)
ConstructorAsserts(c) == Asserts /\ "null" \in AllocHandle(hdl, c)
StatementHandles(c) ==
    AllocHandle(hdl, c) \ (IF Asserts THEN {"invalid", "null"} ELSE {"invalid"})

(* What SQLExecDirect and the calls after it return on a valid handle: an  *)
(* execution error is swallowed, and row_count then stays uninitialised.   *)
ExecuteResults(h) == IF h = "alloc" THEN OrFault("exec", "rows", "garbage") ELSE {"throw"}
QueryResults(h) == IF h = "alloc" THEN OrFault("exec", "void", "throw") ELSE {"throw"}

CreateStatement(c, s) ==
    /\ Running
    /\ Holds(c, "connection") /\ Unused(s)
    /\ \/ ConstructorThrows(c) /\ Returns("throw")
       \/ ConstructorAsserts(c) /\ Aborts
       \/ /\ \E h \in StatementHandles(c) : hdl' = [hdl EXCEPT ![s] = h]
          /\ parent_' = [parent_ EXCEPT ![s] = c]
          /\ Gains(s, "statement")
          /\ ret' = "void"
          /\ UNCHANGED <<dead, fault, connectionState>>

(* connection::execute: a statement that lives for one call.               *)
Execute(c, s) ==
    /\ Running
    /\ Holds(c, "connection") /\ Unused(s)
    /\ \/ ConstructorThrows(c) /\ Returns("throw")
       \/ ConstructorAsserts(c) /\ Aborts
       \/ \E h \in StatementHandles(c) : \E r \in ExecuteResults(h) :
            TransientEnds(s, c, h, r)

(* connection::execute_query: the result set shares the statement's handle *)
(* and keeps it; the statement object is gone when the call returns.       *)
ExecuteQuery(c, s) ==
    /\ Running
    /\ Holds(c, "connection") /\ Unused(s)
    /\ \/ ConstructorThrows(c) /\ Returns("throw")
       \/ ConstructorAsserts(c) /\ Aborts
       \/ \E h \in StatementHandles(c) : \E r \in QueryResults(h) :
            \/ r = "throw" /\ TransientEnds(s, c, h, r)
            \/ /\ r # "throw"
               /\ hdl' = [hdl EXCEPT ![s] = h]
               /\ parent_' = [parent_ EXCEPT ![s] = c]
               /\ Gains(s, "result_set")
               /\ ret' = r
               /\ UNCHANGED <<dead, fault, connectionState>>

(* statement::execute and statement::execute_query on a statement the      *)
(* program holds; a freed or null handle is answered SQL_INVALID_HANDLE.   *)
StatementExecute(s) ==
    /\ Running
    /\ Holds(s, "statement")
    /\ \E r \in ExecuteResults(hdl[s]) : Returns(r)

StatementExecuteQuery(s) ==
    /\ Running
    /\ Holds(s, "statement") /\ ~Holds(s, "result_set")
    /\ \E r \in QueryResults(hdl[s]) :
        \/ r = "throw" /\ Returns(r)
        \/ /\ r # "throw"
           /\ Gains(s, "result_set")
           /\ ret' = r
           /\ UNCHANGED <<hdl, parent_, dead, fault, connectionState>>

DestroyStatement(s) ==
    /\ Running
    /\ Holds(s, "statement")
    /\ Release(s, "statement", hdl, dead)
    /\ ret' = "void"
    /\ UNCHANGED connectionState

DestroyResultSet(s) ==
    /\ Running
    /\ Holds(s, "result_set")
    /\ Release(s, "result_set", hdl, dead)
    /\ ret' = "void"
    /\ UNCHANGED connectionState

-----------------------------------------------------------------------------
EnvironmentStep == NewEnvironment \/ InitEnvironment \/ DestroyEnvironment

ConnectionStep(c) ==
    \/ NewConnection(c) \/ Connect(c) \/ ConnectVoid(c)
    \/ Disconnect(c) \/ DestroyConnection(c)

QueryStep(c, s) == CreateStatement(c, s) \/ Execute(c, s) \/ ExecuteQuery(c, s)

StatementStep(s) ==
    \/ StatementExecute(s) \/ StatementExecuteQuery(s)
    \/ DestroyStatement(s) \/ DestroyResultSet(s)

Next ==
    /\ UNCHANGED world
    /\ \/ EnvironmentStep
       \/ \E c \in Conns : ConnectionStep(c)
       \/ \E c \in Conns, s \in Stmts : QueryStep(c, s)
       \/ \E s \in Stmts : StatementStep(s)

Spec == Init /\ [][Next]_vars

-----------------------------------------------------------------------------
(* A program that does not use connect(std::string), with a driver whose   *)
(* SQLDisconnect does not fail.  Neither can be left out: without them a   *)
(* dead flag lies (the run void_reconnect), or a handle is lost.           *)
WellBehaved == ~world.void_connect /\ "disconnect" \notin Faults

(* With asserts, no destructor of a handle throws (handles.hpp:72): a      *)
(* child of a connection that is gone is recognised, and no handle is      *)
(* freed twice.  (An NDEBUG build keeps a handle that was never allocated.)*)
DestructorsNeverThrow == Asserts => fault # "dtor"

(* An object that is gone has given its handle back to the driver manager: *)
(* the shared ownership of impl_type and the flag children_dead_ together  *)
(* lose no handle, in whatever order the objects are let go.               *)
NoLeakedHandle ==
    WellBehaved /\ Running =>
        \A o \in Objects : o \notin Living(owners) => hdl[o] = "unused"

(* connected() tells whether the driver holds an open connection, for as   *)
(* long as the connection object exists.                                   *)
ConnectedIsTruthful ==
    WellBehaved /\ Running =>
        \A c \in Conns : Holds(c, "connection") => (connected_[c] <=> hdl[c] = "conn")

(* children_dead() of a connection says exactly whether the driver has     *)
(* already freed a statement handle that the program still holds.          *)
DeadMeansFreed ==
    Running => \A s \in Stmts :
        owners[s] # {} /\ hdl[s] # "null"
            => (ChildrenDead(dead, parent_[s]) <=> hdl[s] = "freed")

(* children_dead() is exact for a well-behaved program and driver.         *)
ChildrenDeadIsExact == WellBehaved => DeadMeansFreed

(* The abstract connection's life is that of the dbc handle, as the        *)
(* connection's own flags tell it.                                         *)
Life(c) ==
    CASE c \notin Living(owners) -> "gone"
      [] c \in Living(owners) /\ cancelled_[c] -> "over"
      [] c \in Living(owners) /\ ~cancelled_[c] /\ connected_[c] -> "open"
      [] c \in Living(owners) /\ ~cancelled_[c] /\ ~connected_[c] -> "new"

Usable(c) == {s \in Stmts : owners[s] # {} /\ parent_[s] = c /\ hdl[s] = "alloc"}

C == INSTANCE Connection WITH
        trusted <- WellBehaved,
        life    <- [c \in Conns |-> Life(c)],
        session <- [c \in Conns |-> hdl[c] = "conn"],
        usable  <- [c \in Conns |-> Usable(c)]

(* connection.hpp keeps the promise of Connection: opened at most once,    *)
(* closed in the driver when it is over or its last object goes, and       *)
(* statements usable only in between.                                      *)
IsConnection == C!Spec
=============================================================================
