---------------------------- MODULE AsyncConnection ----------------------------
(***************************************************************************)
(* aodbc::async::connection: one connection, its strand, and the user      *)
(* coroutines that call it and own the result sets it returns, each on a   *)
(* thread of its own.                                                      *)
(*                                                                         *)
(* Calls run as tasks on the strand, one at a time, in order.  What does   *)
(* not run there is what this module is about: the destructor of a result  *)
(* set runs on its user's thread, the destructor of connection_wrapper     *)
(* wherever the last reference to it is dropped.                           *)
(***************************************************************************)
EXTENDS Naturals, Sequences, FiniteSets, SequencesExt

CONSTANTS
    Users,          \* the coroutines; each owns at most one result set
    NoUser,         \* the user of the disconnect posted by a destructor
    Worlds          \* the builds, programs, compilers and drivers looked at

DriverCalls == {"alloc", "disconnect"}

ASSUME NoUserIsNotAUser == NoUser \notin Users
ASSUME WorldsAreWorlds ==
    Worlds \subseteq [asserts : BOOLEAN, orderly : BOOLEAN, asks : BOOLEAN,
                      await_first : BOOLEAN, faults : SUBSET DriverCalls]

VARIABLES
    asserts,        \* TRUE when the program was built without NDEBUG
    orderly,        \* TRUE when result sets are destroyed, and calls returned,
                    \*       before the connection is dropped or disconnected
    asks,           \* TRUE when the program executes and queries only after
                    \*       connected() told it TRUE
    await_first,    \* TRUE when execute_query evaluates its co_await argument
                    \*       before its get_executor() argument
    faults,         \* SQLAllocHandle, SQLDisconnect: the calls that may fail on
                    \*       an open connection
    held,           \* async::connection, and with it its wrapper reference, exists
    wrapper,        \* the connection_wrapper exists
    connected_,     \* sync::connection::connected_
    cancelled_,     \* sync::connection::cancelled_
    dead,           \* children_dead_ of the dbc handle
    open,           \* the driver's connection is open
    stmt,           \* the statement handle of each user's result set
    rs,             \* each user's result set
    pc,             \* each user's coroutine
    queue,          \* the strand's tasks
    running,        \* the task the strand executes, and how far it is
    fault           \* what ended the process, "none" while it runs

world == <<asserts, orderly, asks, await_first, faults>>
connVars == <<connected_, cancelled_, dead, open>>
userVars == <<stmt, rs, pc>>
vars == <<world, held, wrapper, connVars, userVars, queue, running, fault>>

Ops == {"connect", "disconnect", "execute", "query", "next", "drop"}
Tasks == [op : Ops, user : Users \cup {NoUser}]
Steps == {"none", "run", "mark", "end"}

NoTask == [op |-> "drop", user |-> NoUser, step |-> "none"]

Alive == fault = "none"
StrandIdle == running.step = "none" /\ queue = << >>

Init ==
    /\ \E w \in Worlds :
        /\ asserts = w.asserts /\ orderly = w.orderly /\ asks = w.asks
        /\ await_first = w.await_first /\ faults = w.faults
    /\ held = TRUE /\ wrapper = TRUE
    /\ connected_ = FALSE /\ cancelled_ = FALSE /\ dead = FALSE /\ open = FALSE
    /\ stmt = [u \in Users |-> "none"]
    /\ rs = [u \in Users |-> "none"]
    /\ pc = [u \in Users |-> "idle"]
    /\ queue = << >> /\ running = NoTask
    /\ fault = "none"

TypeOK ==
    /\ {asserts, orderly, asks, await_first} \subseteq BOOLEAN
    /\ faults \subseteq DriverCalls
    /\ {held, wrapper, connected_, cancelled_, dead, open} \subseteq BOOLEAN
    /\ held => wrapper
    /\ stmt \in [Users -> {"none", "alloc", "freed"}]
    /\ rs \in [Users -> {"none", "returned", "held", "freeing"}]
    /\ pc \in [Users -> {"idle", "awaiting", "resumable", "destroying"}]
    /\ queue \in Seq(Tasks)
    /\ running \in [op : Ops, user : Users \cup {NoUser}, step : Steps]
    /\ \A u \in Users : stmt[u] # "none" => rs[u] # "none"
    /\ fault \in {"none", "assert", "dtor_freed", "dtor_null", "dangling"}

-----------------------------------------------------------------------------
(* References to the wrapper: the async::connection and the `self` of each *)
(* task.  The lambdas of next() and of the destructor hold none.           *)
HoldsSelf(op) == op \notin {"next", "drop"}

QueuedTasks == ToSet(queue)
StrandTasks == QueuedTasks \cup (IF running.step = "none" THEN {} ELSE {running})

Closing == \E t \in StrandTasks : t.op \in {"disconnect", "drop"}

(* Each user awaits at most one call.                                      *)
Posts(u, op) ==
    /\ Alive
    /\ pc[u] = "idle"
    /\ pc' = [pc EXCEPT ![u] = "awaiting"]
    /\ queue' = Append(queue, [op |-> op, user |-> u])
    /\ UNCHANGED <<world, held, wrapper, connVars, stmt, rs, running, fault>>

(* connected() reads the flag on the user's thread while the strand may be *)
(* writing it: a TRUE may be an old one when the call is posted.           *)
SeesConnected == connected_ \/ dead

CallConnect(u) == held /\ Posts(u, "connect")
CallExecute(u) == held /\ (asks => SeesConnected) /\ Posts(u, "execute")
CallQuery(u)   == held /\ (asks => SeesConnected) /\ rs[u] = "none" /\ Posts(u, "query")
CallNext(u)    == rs[u] = "held" /\ Posts(u, "next")

CallDisconnect(u) ==
    /\ held
    /\ orderly => \A v \in Users : rs[v] # "freeing"
    /\ Posts(u, "disconnect")

(* The awaiting coroutine resumes.  execute_query then evaluates           *)
(* get_executor() on the wrapper, unless it did so before it awaited.      *)
UsesWrapperLate(u) == await_first /\ rs[u] = "returned"

Resume(u) ==
    /\ Alive
    /\ pc[u] = "resumable"
    /\ pc' = [pc EXCEPT ![u] = "idle"]
    /\ rs' = [rs EXCEPT ![u] = IF @ = "returned" THEN "held" ELSE @]
    /\ fault' = IF UsesWrapperLate(u) /\ ~wrapper THEN "dangling" ELSE fault
    /\ UNCHANGED <<world, held, wrapper, connVars, stmt, queue, running>>

-----------------------------------------------------------------------------
(* The result set's destructor, on the user's thread: ~impl_type() reads   *)
(* children_dead(), then frees the statement handle.                       *)
NeverSkips == FALSE
SkipsFree == dead

BeginDestroyResultSet(u) ==
    /\ Alive
    /\ pc[u] = "idle" /\ rs[u] = "held"
    /\ orderly => ~Closing
    /\ rs' = [rs EXCEPT ![u] = IF SkipsFree THEN "none" ELSE "freeing"]
    /\ stmt' = [stmt EXCEPT ![u] = IF SkipsFree THEN "none" ELSE @]
    /\ pc' = [pc EXCEPT ![u] = IF SkipsFree THEN "idle" ELSE "destroying"]
    /\ UNCHANGED <<world, held, wrapper, connVars, queue, running, fault>>

FreeStatement(u) ==
    /\ Alive
    /\ rs[u] = "freeing"
    /\ fault' = IF stmt[u] = "freed" THEN "dtor_freed" ELSE fault
    /\ rs' = [rs EXCEPT ![u] = "none"]
    /\ stmt' = [stmt EXCEPT ![u] = "none"]
    /\ pc' = [pc EXCEPT ![u] = "idle"]
    /\ UNCHANGED <<world, held, wrapper, connVars, queue, running>>

-----------------------------------------------------------------------------
(* ~connection_wrapper(): dispatches a disconnect to the strand.  An idle  *)
(* strand over system_executor runs it in the dropping thread, before      *)
(* dispatch returns; the strand's own thread runs it in place.             *)
LeavesItOpen == FALSE
DispatchesDisconnect == connected_
DropTask(u) == [op |-> "drop", user |-> u, step |-> "run"]

DropConnection(u) ==
    /\ Alive
    /\ held /\ pc[u] = "idle"
    /\ orderly => \A v \in Users : rs[v] = "none" /\ pc[v] = "idle"
    /\ held' = FALSE
    /\ wrapper' = \E t \in StrandTasks : HoldsSelf(t.op)
    /\ LET last == ~wrapper' /\ DispatchesDisconnect
       IN  IF last /\ StrandIdle
           THEN /\ running' = DropTask(u)
                /\ pc' = [pc EXCEPT ![u] = "awaiting"]
                /\ UNCHANGED queue
           ELSE /\ queue' = IF last
                            THEN Append(queue, [op |-> "drop", user |-> NoUser])
                            ELSE queue
                /\ UNCHANGED <<running, pc>>
    /\ UNCHANGED <<world, connVars, stmt, rs, fault>>

-----------------------------------------------------------------------------
(* The strand.                                                             *)

StrandTakes ==
    /\ Alive
    /\ running.step = "none" /\ queue # << >>
    /\ running' = [op |-> Head(queue).op, user |-> Head(queue).user, step |-> "run"]
    /\ queue' = Tail(queue)
    /\ UNCHANGED <<world, held, wrapper, connVars, userVars, fault>>

Runs(op) == Alive /\ running.step = "run" /\ running.op = op
Reaches(step) == running' = [running EXCEPT !.step = step]

(* The completion handler is posted to the user's executor, then the task's *)
(* frame is destroyed.                                                     *)
CompletesSilently == Reaches("end") /\ UNCHANGED pc
Completes ==
    /\ Reaches("end")
    /\ pc' = IF running.user \in Users
             THEN [pc EXCEPT ![running.user] = "resumable"] ELSE pc

StrandAborts ==
    /\ fault' = "assert"
    /\ UNCHANGED <<world, held, wrapper, connVars, userVars, queue, running>>

RefusesConnect == cancelled_

RunConnect ==
    /\ Runs("connect")
    /\ \/ ~RefusesConnect /\ asserts /\ connected_ /\ StrandAborts
       \/ /\ ~(~RefusesConnect /\ asserts /\ connected_)
          /\ \E accepted \in BOOLEAN :
              LET connects == accepted /\ ~RefusesConnect
              IN  /\ open' = (open \/ connects)
                  /\ connected_' = (connected_ \/ connects)
          /\ Completes
          /\ UNCHANGED <<world, held, wrapper, cancelled_, dead, stmt, rs, queue, fault>>

(* connection::disconnect(), up to and including SQLDisconnect, which      *)
(* frees the statements of the connection; its error is dropped ...        *)
FreesStatements ==
    /\ open' = FALSE
    /\ stmt' = [u \in Users |-> IF stmt[u] = "alloc" THEN "freed" ELSE stmt[u]]

RunDisconnect ==
    /\ Runs("disconnect") \/ Runs("drop")
    /\ \/ asserts /\ cancelled_ /\ StrandAborts
       \/ /\ ~(asserts /\ cancelled_) /\ ~connected_
          /\ Completes
          /\ UNCHANGED <<world, held, wrapper, connVars, stmt, rs, queue, fault>>
       \/ /\ ~(asserts /\ cancelled_) /\ connected_
          /\ cancelled_' = TRUE
          /\ \/ FreesStatements
             \/ "disconnect" \in faults /\ UNCHANGED <<open, stmt>>
          /\ Reaches("mark")
          /\ UNCHANGED <<world, held, wrapper, connected_, dead, rs, pc, queue, fault>>

(* ... and the rest of it.                                                 *)
MarkKeepsConnected ==
    /\ Alive
    /\ running.step = "mark"
    /\ dead' = TRUE
    /\ Completes
    /\ UNCHANGED <<world, held, wrapper, connected_, cancelled_, open, stmt, rs, queue, fault>>
MarkChildrenDead ==
    /\ Alive
    /\ running.step = "mark"
    /\ dead' = TRUE
    /\ connected_' = FALSE
    /\ Completes
    /\ UNCHANGED <<world, held, wrapper, cancelled_, open, stmt, rs, queue, fault>>

(* A statement without a handle, as SQLAllocHandle leaves it on a closed   *)
(* connection and when it fails: the assert of the constructor stops a     *)
(* debug build, else "Invalid handle" is thrown to the caller, and the     *)
(* destructor of the handle skips a dead connection only.                  *)
MayGetNoHandle == ~open \/ "alloc" \in faults

StatementFails ==
    \/ asserts /\ StrandAborts
    \/ /\ ~asserts
       /\ fault' = IF SkipsFree THEN fault ELSE "dtor_null"
       /\ Completes
       /\ UNCHANGED <<world, held, wrapper, connVars, stmt, rs, queue>>

(* The statement lives for one task: that of an execute, and of a query    *)
(* whose execution fails.                                                  *)
StatementComesAndGoes ==
    /\ open
    /\ Completes
    /\ UNCHANGED <<world, held, wrapper, connVars, stmt, rs, queue, fault>>

RunExecute ==
    /\ Runs("execute")
    /\ \/ MayGetNoHandle /\ StatementFails
       \/ StatementComesAndGoes

RunQuery ==
    /\ Runs("query")
    /\ \/ MayGetNoHandle /\ StatementFails
       \/ StatementComesAndGoes
       \/ /\ open
          /\ stmt' = [stmt EXCEPT ![running.user] = "alloc"]
          /\ rs' = [rs EXCEPT ![running.user] = "returned"]
          /\ Completes
          /\ UNCHANGED <<world, held, wrapper, connVars, queue, fault>>

(* A fetch, of a freed handle too, leaves the connection as it is; what it *)
(* answers is in StandardResultSet and in CompactResultSet.                *)
RunNext ==
    /\ Runs("next")
    /\ Completes
    /\ UNCHANGED <<world, held, wrapper, connVars, stmt, rs, queue, fault>>

(* The task's frame goes, and with it the last reference perhaps; a user   *)
(* whose thread ran the destructor's disconnect goes on.                   *)
LastOfTheTasks ==
    wrapper /\ HoldsSelf(running.op) /\ \A t \in QueuedTasks : ~HoldsSelf(t.op)
NeverTheLast == FALSE
LastSelf ==
    /\ wrapper /\ ~held /\ HoldsSelf(running.op)
    /\ \A t \in QueuedTasks : ~HoldsSelf(t.op)

FrameEnds ==
    /\ Alive
    /\ running.step = "end"
    /\ wrapper' = (wrapper /\ ~LastSelf)
    /\ running' = IF LastSelf /\ DispatchesDisconnect THEN DropTask(NoUser) ELSE NoTask
    /\ UNCHANGED <<world, held, connVars, userVars, queue, fault>>

StrandStep ==
    \/ StrandTakes
    \/ RunConnect \/ RunDisconnect \/ MarkChildrenDead
    \/ RunExecute \/ RunQuery \/ RunNext
    \/ FrameEnds

UserStep(u) ==
    \/ CallConnect(u) \/ CallExecute(u) \/ CallQuery(u) \/ CallNext(u)
    \/ CallDisconnect(u) \/ DropConnection(u)
    \/ Resume(u) \/ BeginDestroyResultSet(u) \/ FreeStatement(u)

Next == StrandStep \/ \E u \in Users : UserStep(u)

Spec == Init /\ [][Next]_vars

(* A strand with work is scheduled on the system executor; a posted        *)
(* completion handler is run by the user's executor.                       *)
FairSpec ==
    /\ Spec
    /\ WF_vars(StrandStep)
    /\ \A u \in Users : WF_vars(Resume(u)) /\ WF_vars(FreeStatement(u))

-----------------------------------------------------------------------------
(* No destructor throws, on the strand or on a user's thread               *)
(* (handles.hpp:72).                                                       *)
DestructorsNeverThrow == fault \notin {"dtor_freed", "dtor_null"}

(* A program that destroys its result sets in time frees no handle that    *)
(* SQLDisconnect freed before; and, in a debug build, or when it asks      *)
(* connected() and the driver refuses it no statement, none that was never *)
(* allocated: its destructors do not throw.                                *)
OrderlyDestructorsNeverThrow ==
    orderly =>
        /\ fault # "dtor_freed"
        /\ asserts \/ (asks /\ "alloc" \notin faults) => DestructorsNeverThrow

(* execute_query never touches a connection_wrapper that is gone, when its *)
(* callers keep the connection until they have their answer or the         *)
(* compiler evaluates get_executor() first.                                *)
NoDanglingWrapper == orderly \/ ~await_first => fault # "dangling"

(* The sync::connection lives in its wrapper or in the destructor's task.  *)
ConnectionExists == wrapper \/ \E t \in StrandTasks : t.op = "drop"

(* A driver whose SQLDisconnect does not fail: disconnect() drops the      *)
(* error, and counts the connection as closed all the same.                *)
DriverDisconnects == "disconnect" \notin faults

(* The one connection of Connection: its life is that of the               *)
(* sync::connection, as the flags of that object tell it.                  *)
Life ==
    CASE ~ConnectionExists -> "gone"
      [] ConnectionExists /\ cancelled_ -> "over"
      [] ConnectionExists /\ ~cancelled_ /\ connected_ -> "open"
      [] ConnectionExists /\ ~cancelled_ /\ ~connected_ -> "new"

C == INSTANCE Connection WITH
        Conns   <- {"connection"},
        Stmts   <- Users,
        trusted <- DriverDisconnects,
        life    <- [c \in {"connection"} |-> Life],
        session <- [c \in {"connection"} |-> open],
        usable  <- [c \in {"connection"} |-> {u \in Users : stmt[u] = "alloc"}]

(* The asynchronous connection keeps the promise of Connection with every  *)
(* program, and with a driver whose SQLDisconnect does not fail: whatever  *)
(* thread drops the last reference, it is closed in the driver before the  *)
(* dbc handle goes, and never opened again.                                *)
IsConnection == C!Spec

(* While the strand is idle connected() tells the truth, to every thread;  *)
(* its FALSE may be a lie only where SQLDisconnect may fail.               *)
IdleConnectedIsTruthful ==
    Alive /\ StrandIdle =>
        /\ connected_ => open
        /\ DriverDisconnects => (open => connected_)

(* A dropped connection goes in the end, closed if SQLDisconnect does not  *)
(* fail, whichever thread drops the last reference and whatever was queued.*)
DroppedConnectionIsClosed ==
    ~held ~> (~ConnectionExists /\ (DriverDisconnects => ~open)) \/ ~Alive

(* A call that is awaited comes back.                                      *)
AwaitedCallsReturn == \A u \in Users : pc[u] = "awaiting" ~> pc[u] = "idle" \/ ~Alive
=============================================================================
