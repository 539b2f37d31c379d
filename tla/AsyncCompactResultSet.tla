------------------------- MODULE AsyncCompactResultSet -------------------------
(***************************************************************************)
(* aodbc::async::result_set::compact_result_set: coroutines on threads of  *)
(* their own fetch into one result set and read views of it.  A fetch is a *)
(* task on the connection's strand; its lambda holds the result set by     *)
(* reference.  Views are made and read on any thread, while the strand     *)
(* grows the storage, and no lock is taken.                                *)
(*                                                                         *)
(* A fetch is cut into the steps another thread can tell apart.  The build *)
(* is one with NDEBUG: the assert in commit() is RowStorageSpec's.  The    *)
(* rows of the cursor are numbered 1, 2, 3, ...                            *)
(***************************************************************************)
EXTENDS CompactRowStorage, Integers

CONSTANTS
    Users,          \* the coroutines
    Owner,          \* the one that got the result set from execute_query
    Disciplines,    \* the programs looked at: "private" when the owner keeps
                    \*       result set and views to itself, or "shared"
    MaxTotal,       \* bound on the rows of the cursor
    Quantities      \* the quantities asked of a fetch

ASSUME OwnerIsAUser == Owner \in Users
ASSUME KnownDisciplines == Disciplines \subseteq {"private", "shared"}
ASSUME SharedCursorRows == MaxTotal \in Nat /\ 1 .. MaxTotal \subseteq Rows
ASSUME SharedQuantities == Quantities \subseteq Nat \ {0}

VARIABLES
    discipline,     \* how this program uses the result set
    total,          \* rows of the driver's cursor
    cursor,         \* rows the driver has moved past
    usable,         \* FALSE once SQLDisconnect has freed the stmt handle
    alive,          \* the result set object exists
    storage,        \* the compact_row_storage; views share it
    buffer,         \* how often chunk_index_ has moved to a new buffer
    call,           \* each coroutine's fetch: [all, quantity]
    phase,          \* how far that fetch is
    area,           \* the area its task has prepared
    queue,          \* the coroutines whose task waits for the strand
    view,           \* the rows of each coroutine's result_view, or NoView
    reading,        \* the row it reads, and the buffer of chunk_index_ it looks at
    answer,         \* what the last read of any of them came to
    dangling        \* a task has used a result set that is gone

world == <<discipline, total>>
fetchVars == <<cursor, storage, buffer, area, queue, dangling>>
viewVars == <<view, reading, answer>>
vars == <<world, usable, alive, call, phase, fetchVars, viewVars>>

Calls == [all : BOOLEAN, quantity : Quantities]
NoCall == [all |-> FALSE, quantity |-> 0]
NoArea == [chunk |-> 0, first |-> 0, rows |-> 0]
NoView == -1
NoRead == [row |-> 0, buffer |-> 0]

Init ==
    /\ discipline \in Disciplines
    /\ total \in 0 .. MaxTotal
    /\ cursor = 0
    /\ usable = TRUE /\ alive = TRUE
    /\ storage = FreshStorage
    /\ buffer = 0
    /\ call = [u \in Users |-> NoCall]
    /\ phase = [u \in Users |-> "idle"]
    /\ area = [u \in Users |-> NoArea]
    /\ queue = << >>
    /\ view = [u \in Users |-> NoView]
    /\ reading = [u \in Users |-> NoRead]
    /\ answer = "none"
    /\ dangling = FALSE

(* What a coroutine does next is up to it: it awaits nothing, reads nothing *)
(* and may use the result set.  Nothing is said of a process that goes on  *)
(* after a task has used a result set that is gone.                        *)
Acts(u) ==
    /\ ~dangling
    /\ phase[u] = "idle" /\ reading[u] = NoRead
    /\ discipline = "shared" \/ u = Owner

Phase(u, p) == phase' = [phase EXCEPT ![u] = p]

-----------------------------------------------------------------------------
(* The coroutines.                                                         *)

Waiting == {queue[i] : i \in 1 .. Len(queue)}

(* fetch_one(), fetch_many(), fetch_all(): co_await of a task spawned on   *)
(* the strand.                                                             *)
DoesNotAwait(u) == UNCHANGED phase
Awaits(u) == Phase(u, "awaiting")

Fetch(u, c) ==
    /\ Acts(u) /\ alive
    /\ u \notin Waiting
    /\ call' = [call EXCEPT ![u] = c]
    /\ queue' = Append(queue, u)
    /\ Awaits(u)
    /\ UNCHANGED <<world, cursor, usable, alive, storage, buffer, area, viewVars, dangling>>

Resume(u) ==
    /\ ~dangling
    /\ phase[u] = "resumable"
    /\ Phase(u, "idle")
    /\ call' = [call EXCEPT ![u] = NoCall]
    /\ UNCHANGED <<world, usable, alive, fetchVars, viewVars>>

get_result_view(u) ==
    /\ Acts(u) /\ alive
    /\ view' = [view EXCEPT ![u] = storage.row_count_]
    /\ UNCHANGED <<world, usable, alive, call, phase, fetchVars, reading, answer>>

(* A getter of a view: find_chunk() takes the bounds of chunk_index_ ...   *)
BeginRead(u, row) ==
    /\ Acts(u)
    /\ reading' = [reading EXCEPT ![u] = [row |-> row, buffer |-> buffer]]
    /\ UNCHANGED <<world, usable, alive, call, phase, fetchVars, view, answer>>

(* ... and looks through them, which is undefined in a buffer that is gone. *)
EndRead(u) ==
    /\ ~dangling
    /\ reading[u] # NoRead
    /\ answer' =
            CASE reading[u].buffer # buffer -> "raced"
              [] reading[u].buffer = buffer
                    /\ GetValue(storage, reading[u].row) = reading[u].row -> "right"
              [] reading[u].buffer = buffer
                    /\ GetValue(storage, reading[u].row) # reading[u].row -> "wrong"
    /\ reading' = [reading EXCEPT ![u] = NoRead]
    /\ UNCHANGED <<world, usable, alive, call, phase, fetchVars, view>>

(* The unique_ptr goes; views keep the storage.                            *)
Destroy(u) ==
    /\ Acts(u) /\ alive
    /\ alive' = FALSE
    /\ UNCHANGED <<world, usable, call, phase, fetchVars, viewVars>>

-----------------------------------------------------------------------------
(* The strand, one task at a time, in order.                               *)

InTask(u) == phase[u] \in {"prepared", "filled", "counted", "looping"}
StrandIsFree == \A u \in Users : ~InTask(u)

RunsAnywhere == TRUE
TaskMayStart == StrandIsFree

(* Every step goes through the captured `this`.                            *)
UsesThis == dangling' = (dangling \/ ~alive)

(* A vector with no room left moves: at 1, 2, 4, ... elements.             *)
Moves(st) == Len(st.chunk_index_) \in {2 ^ i : i \in 0 .. Len(st.chunk_index_)}

(* fetch_many(): prepare() ...; sql_set_array_size throws on a statement   *)
(* that is gone.                                                           *)
FetchPrepares(u) ==
    LET quantity == call[u].quantity
        grown == WithSpace(storage, quantity)
    IN  /\ storage' = Prepare(storage, quantity)
        /\ buffer' = IF grown # storage /\ Moves(storage) THEN buffer + 1 ELSE buffer
        /\ area' = [area EXCEPT ![u] = IF usable THEN AreaOf(storage, quantity) ELSE NoArea]
        /\ Phase(u, IF usable THEN "prepared" ELSE "resumable")
        /\ UsesThis
        /\ UNCHANGED <<world, cursor, usable, alive, call, viewVars>>

StartTask(u) ==
    /\ TaskMayStart
    /\ queue # << >> /\ Head(queue) = u
    /\ queue' = Tail(queue)
    /\ FetchPrepares(u)

LoopAgain(u) == phase[u] = "looping" /\ FetchPrepares(u) /\ UNCHANGED queue

(* fetch_all() goes on while fetch_many() gets all it asks for.            *)
LoopsForever(u, fetched) == call[u].all
LoopGoesOn(u, fetched) == call[u].all /\ fetched = call[u].quantity
FetchReturns(u, fetched) == Phase(u, IF LoopGoesOn(u, fetched) THEN "looping" ELSE "resumable")

(* ... SQLFetchScroll: rows for the area, or none and fetch_many() returns *)
(* false ...                                                               *)
Rowset(n) ==
    [i \in 1 .. (IF total - cursor < n THEN total - cursor ELSE n) |-> cursor + i]

FetchScrolls(u) ==
    /\ phase[u] = "prepared"
    /\ LET rowset == Rowset(area[u].rows)
       IN  /\ storage' = WriteArea(storage, area[u], rowset)
           /\ cursor' = cursor + Len(rowset)
           /\ area' = [area EXCEPT ![u] = IF rowset = << >> THEN NoArea
                                             ELSE [@ EXCEPT !.rows = Len(rowset)]]
           /\ IF rowset = << >> THEN FetchReturns(u, 0) ELSE Phase(u, "filled")
    /\ UsesThis
    /\ UNCHANGED <<world, usable, alive, buffer, call, queue, viewVars>>

(* ... and commit(): the chunk counts its rows, then the storage.          *)
CommitsChunk(u) ==
    /\ phase[u] = "filled"
    /\ storage' = SetLastChunk(storage, CommitChunk(LastChunk(storage), area[u].rows))
    /\ Phase(u, "counted")
    /\ UsesThis
    /\ UNCHANGED <<world, cursor, usable, alive, buffer, call, area, queue, viewVars>>

CommitsStorage(u) ==
    /\ phase[u] = "counted"
    /\ storage' = [storage EXCEPT !.row_count_ = @ + area[u].rows]
    /\ FetchReturns(u, area[u].rows)
    /\ area' = [area EXCEPT ![u] = NoArea]
    /\ UsesThis
    /\ UNCHANGED <<world, cursor, usable, alive, buffer, call, queue, viewVars>>

(* disconnect() is a task of the same strand.                              *)
StrandDisconnects ==
    /\ ~dangling
    /\ TaskMayStart /\ usable
    /\ usable' = FALSE
    /\ UNCHANGED <<world, alive, call, phase, fetchVars, viewVars>>

TaskStep ==
    /\ ~dangling
    /\ \E u \in Users :
        \/ StartTask(u) \/ LoopAgain(u)
        \/ FetchScrolls(u) \/ CommitsChunk(u) \/ CommitsStorage(u)

Next ==
    \/ TaskStep
    \/ StrandDisconnects
    \/ \E u \in Users :
        \/ \E c \in Calls : Fetch(u, c)
        \/ Resume(u)
        \/ get_result_view(u)
        \/ \E row \in 1 .. view[u] : BeginRead(u, row)
        \/ EndRead(u)
        \/ Destroy(u)

Spec == Init /\ [][Next]_vars

(* The system executor runs a strand that has work.                        *)
FairSpec == Spec /\ WF_vars(TaskStep) /\ \A u \in Users : WF_vars(Resume(u))

-----------------------------------------------------------------------------
TypeOK ==
    /\ discipline \in Disciplines
    /\ total \in 0 .. MaxTotal /\ cursor \in 0 .. total
    /\ {usable, alive, dangling} \subseteq BOOLEAN
    /\ storage.row_count_ \in 0 .. cursor
    /\ \A k \in DOMAIN storage.chunk_store_ :
        storage.chunk_store_[k].row_count \in 0 .. storage.chunk_store_[k].size
    /\ buffer \in 0 .. Len(storage.chunk_index_)
    /\ call \in [Users -> Calls \cup {NoCall}]
    /\ phase \in [Users -> {"idle", "awaiting", "prepared", "filled", "counted",
                            "looping", "resumable"}]
    /\ area \in [Users -> [chunk : Nat, first : Nat, rows : Nat]]
    /\ queue \in Seq(Users)
    /\ \A u \in Users : view[u] \in {NoView} \cup (0 .. storage.row_count_)
    /\ answer \in {"none", "right", "raced", "wrong"}

(* A row that is counted is in its place and committed to its chunk, for a *)
(* thread that looks in the middle of a commit too                         *)
(* (compact_row_storage.hpp:141, :246).                                    *)
CountedRowsAreThere ==
    \A row \in 1 .. storage.row_count_ :
        \E k \in FindChunk(storage, row) :
            LET r == storage.chunk_index_[k]
            IN  /\ (row - r.first_row) + 1 <= storage.chunk_store_[r.chunk].row_count
                /\ ValueAt(storage, k, row) = row

(* Fetches of several coroutines, in whatever order they reach the strand, *)
(* store each row of the cursor once and in order: nothing else at any     *)
(* moment, and all that the driver passed when no fetch runs.              *)
FetchersShareTheCursor ==
    /\ CountedRowsAreThere
    /\ StrandIsFree => storage.row_count_ = cursor

(* A read of a view returns its row, whatever is fetched meanwhile, if the *)
(* view was made in the middle of a commit (compact_row_storage.hpp:246),  *)
(* and after the result set is gone, unless chunk_index_ moved while it    *)
(* looked.                                                                 *)
ReadsAreRight == answer # "wrong"

(* A coroutine that keeps its result set and views to itself meets neither *)
(* that race nor a task that outlives the result set.                      *)
PrivateProgramsAreSafe ==
    discipline = "private" => ~dangling /\ answer # "raced"

(* A fetch that is awaited comes back, fetch_all() too, disconnected or    *)
(* not.                                                                    *)
AwaitedFetchesReturn ==
    \A u \in Users : phase[u] = "awaiting" ~> phase[u] = "idle" \/ dangling
=============================================================================
