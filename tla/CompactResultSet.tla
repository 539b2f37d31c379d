--------------------------- MODULE CompactResultSet ---------------------------
(***************************************************************************)
(* sync/result_set/compact_result_set.hpp: block fetches from an ODBC      *)
(* cursor into a compact_row_storage, the fetch_all() loop, and the views  *)
(* handed out over the storage while fetching goes on.                     *)
(*                                                                         *)
(* The rows of the cursor are numbered 1, 2, 3, ...                        *)
(***************************************************************************)
EXTENDS CompactRowStorage, FiniteSets

CONSTANTS
    Builds,         \* the builds looked at: TRUE, without NDEBUG, and FALSE
    MaxTotal,       \* bound on the rows of the cursor
    Programs,       \* the programs looked at, each the set of quantities it
                    \*       asks for
    MaxViews,       \* bound on the views held
    Faults,         \* the environments looked at, each the set of things that
                    \*       may go wrong in it: "row", "fetch", "disconnect"
    MaxPhantoms     \* bound on the rows stored when SQLFetchScroll may fail

ASSUME ResultBuildsAreBoolean == Builds \subseteq BOOLEAN
ASSUME FetchSizesArePositive == \A p \in Programs : p \subseteq Nat \ {0}
ASSUME CursorRowsAreRows == MaxTotal \in Nat /\ 1 .. MaxTotal \subseteq Rows
ASSUME FetchFaults == \A f \in Faults : f \subseteq {"row", "fetch", "disconnect"}
ASSUME PhantomsAreBounded == MaxPhantoms \in Nat

VARIABLES
    asserts,        \* TRUE when the program was built without NDEBUG
    sizes,          \* the quantities this program asks for
    faults,         \* what may go wrong in this behaviour
    total,          \* rows of the driver's cursor
    cursor,         \* rows the driver has moved past
    usable,         \* FALSE once SQLDisconnect has freed the stmt handle
    storage,        \* compact_result_set::storage_
    views,          \* the rows each result_view showed when it was made
    loop,           \* rows_per_fetch of the fetch_all in progress, or 0
    ret,            \* what the last fetch returned or threw
    ending          \* the assert that stopped the process, or "none"

(* What is settled before the program starts.                              *)
world == <<asserts, sizes, faults, total>>
vars == <<world, cursor, usable, storage, views, loop, ret, ending>>

Running == ending = "none"
Idle == Running /\ loop = 0

Init ==
    /\ asserts \in Builds
    /\ sizes \in Programs
    /\ faults \in Faults
    /\ total \in 0 .. MaxTotal
    /\ cursor = 0
    /\ usable = TRUE
    /\ storage = FreshStorage
    /\ views = {}
    /\ loop = 0
    /\ ret = "none"
    /\ ending = "none"

-----------------------------------------------------------------------------
(* SQLFetchScroll(SQL_FETCH_NEXT) with a rowset of n rows: the rows put in *)
(* the bound buffers, the count in the rows-fetched buffer, the row status *)
(* array, and where the cursor stands afterwards.                          *)
Available(n) == IF total - cursor < n THEN total - cursor ELSE n

RowsFetched(n) == [i \in 1 .. Available(n) |-> cursor + i]

RowStatus(n) == [i \in 1 .. n |-> IF i <= Available(n) THEN "success" ELSE "norow"]

FetchSucceeds(n) ==
    [rows |-> RowsFetched(n), returned |-> Available(n),
     status |-> RowStatus(n), cursor |-> cursor + Available(n)]

(* A row that cannot be read is marked in the status array; its buffer     *)
(* stays as it was.                                                        *)
FetchWithRowError(n) ==
    {[FetchSucceeds(n) EXCEPT !.status[i] = "error", !.rows[i] = Blank] :
        i \in 1 .. Available(n)}

(* SQL_ERROR, which handle_odbc_call swallows: no row, the uninitialised   *)
(* rows_returned keeps any value, the status array its initial zeros,      *)
(* which read as SQL_ROW_SUCCESS.                                          *)
FetchFails(n) ==
    {[rows |-> << >>, returned |-> g,
      status |-> [i \in 1 .. n |-> "success"], cursor |-> cursor] :
        g \in IF storage.row_count_ + n <= MaxPhantoms THEN 0 .. n ELSE {}}

FetchScroll(n) ==
    {FetchSucceeds(n)}
        \cup (IF "row" \in faults THEN FetchWithRowError(n) ELSE {})
        \cup (IF "fetch" \in faults THEN FetchFails(n) ELSE {})

-----------------------------------------------------------------------------
(* fetch_many                                                              *)

IgnoresStatus(o) == FALSE
StatusThrows(o) ==
    \/ \E i \in DOMAIN o.status : o.status[i] = "error"
    \/ \E i, j \in DOMAIN o.status :
        i < j /\ o.status[i] = "norow" /\ o.status[j] = "success"

CountsTheRowset(o) == Cardinality(DOMAIN o.status)
CountedRows(o) == Cardinality({i \in DOMAIN o.status : o.status[i] # "norow"})

NothingReturned(o) == o.returned = 0

Filled(quantity, o) == WriteArea(Prepare(storage, quantity), AreaOf(storage, quantity), o.rows)

(* The assert that stops the fetch after the driver answered o, or "none". *)
AssertAfterFetch(quantity, o) ==
    CASE NothingReturned(o) \/ StatusThrows(o) \/ ~asserts -> "none"
      [] CountedRows(o) # o.returned -> "count"
      [] CommitAsserts(LastChunk(Filled(quantity, o)), CountedRows(o)) -> "commit"
      [] OTHER -> "none"

Stops(assertion) == ending' = assertion /\ UNCHANGED <<cursor, storage, ret>>

(* A fetch that ends without commit() leaves its chunk prepared.           *)
EndsWith(st, result) == storage' = st /\ ret' = result /\ UNCHANGED ending

fetch_many(quantity) ==
    /\ UNCHANGED <<world, usable, views>>
    /\ \/ asserts /\ PrepareAsserts(storage, quantity) /\ Stops("prepare")
       \/ /\ ~(asserts /\ PrepareAsserts(storage, quantity))
          /\ ~usable                       \* sql_set_array_size throws
          /\ EndsWith(Prepare(storage, quantity), "throw")
          /\ UNCHANGED cursor
       \/ /\ ~(asserts /\ PrepareAsserts(storage, quantity))
          /\ usable
          /\ \E o \in FetchScroll(AreaOf(storage, quantity).rows) :
              \/ AssertAfterFetch(quantity, o) # "none"
                 /\ Stops(AssertAfterFetch(quantity, o))
              \/ /\ AssertAfterFetch(quantity, o) = "none"
                 /\ cursor' = o.cursor
                 /\ \/ NothingReturned(o) /\ EndsWith(Filled(quantity, o), "false")
                    \/ /\ ~NothingReturned(o) /\ StatusThrows(o)
                       /\ EndsWith(Filled(quantity, o), "throw")
                    \/ /\ ~NothingReturned(o) /\ ~StatusThrows(o)
                       /\ EndsWith(Commit(Filled(quantity, o), CountedRows(o)),
                                   IF CountedRows(o) = quantity THEN "true" ELSE "false")

(* fetch_one() is FetchMany(1).                                            *)
FetchMany(quantity) == Idle /\ fetch_many(quantity) /\ UNCHANGED loop

FetchAll(rows_per_fetch) ==
    /\ Idle
    /\ loop' = rows_per_fetch
    /\ ret' = "none"
    /\ UNCHANGED <<world, cursor, usable, storage, views, ending>>

(* One iteration of `while (more_rows)`.                                   *)
LoopsForever == ret' # "throw"
LoopGoesOn == ret' = "true"

FetchAllStep ==
    /\ Running /\ loop > 0
    /\ fetch_many(loop)
    /\ loop' = IF LoopGoesOn THEN loop ELSE 0

get_result_view ==
    /\ Idle
    /\ Cardinality(views) < MaxViews
    /\ views' = views \cup {StoredRows(storage)}
    /\ UNCHANGED <<world, cursor, usable, storage, loop, ret, ending>>

(* The connection is disconnected under the result set.                    *)
ConnectionDisconnects ==
    /\ Idle /\ usable
    /\ "disconnect" \in faults
    /\ usable' = FALSE
    /\ UNCHANGED <<world, cursor, storage, views, loop, ret, ending>>

Next ==
    \/ \E q \in sizes : FetchMany(q) \/ FetchAll(q)
    \/ FetchAllStep
    \/ get_result_view
    \/ ConnectionDisconnects

Spec == Init /\ [][Next]_vars

(* fetch_all() runs on its caller's thread without yielding.               *)
FairSpec == Spec /\ WF_vars(FetchAllStep)

-----------------------------------------------------------------------------
TypeOK ==
    /\ asserts \in BOOLEAN
    /\ sizes \in Programs /\ faults \in Faults
    /\ total \in 0 .. MaxTotal
    /\ cursor \in 0 .. total
    /\ usable \in BOOLEAN
    /\ storage.row_count_ \in Nat
    /\ \A k \in DOMAIN storage.chunk_store_ :
        /\ storage.chunk_store_[k].row_count \in 0 .. storage.chunk_store_[k].size
        /\ storage.chunk_store_[k].data
            \in [1 .. storage.chunk_store_[k].size -> Rows \cup {Blank}]
    /\ \A v \in views : v \in Seq(Rows \cup {Blank})
    /\ loop \in sizes \cup {0}
    /\ ret \in {"none", "true", "false", "throw"}
    /\ ending \in {"none", "prepare", "count", "commit"}

(* Without faults the storage holds exactly the rows the cursor has moved  *)
(* past, each once and in order, whatever mix of fetch_one, fetch_many and *)
(* fetch_all was called and however the rows fall on chunks.               *)
StorageIsCursorPrefix ==
    Running /\ faults = {} => StoredRows(storage) = [i \in 1 .. cursor |-> i]

(* A fetch that throws on a bad row commits nothing of its rowset: what is *)
(* stored stays in cursor order, with no row twice and none made up, for   *)
(* as long as SQLFetchScroll itself does not fail.                         *)
RowsInCursorOrder ==
    Running /\ "fetch" \notin faults =>
        LET rows == StoredRows(storage)
        IN  /\ \A i \in 1 .. Len(rows) : rows[i] \in 1 .. cursor
            /\ \A i \in 1 .. Len(rows) - 1 : rows[i] < rows[i + 1]

(* A result_view shows the rows it showed when it was made, through later  *)
(* fetches, new chunks, failed fetches and a disconnect.                   *)
ViewsAreStable ==
    \A v \in views :
        /\ Len(v) <= storage.row_count_
        /\ \A i \in 1 .. Len(v) : GetValue(storage, i) = v[i]

(* The loops of the bulk tests (sync_bulk_query.spec.cpp:84, :114, :140)   *)
(* fetch until false is returned and then expect every row to be there.    *)
FalseMeansAllRows == ret = "false" => storage.row_count_ = total

(* They are right without faults when the one fetch size they use divides  *)
(* the chunk size, so that no fetch is cut short by the end of a chunk.    *)
Aligned == \E q \in sizes : sizes = {q} /\ DefaultChunkSize % q = 0

AlignedFalseMeansAllRows == Aligned /\ faults = {} => FalseMeansAllRows

(* fetch_all() comes to an end, if SQLFetchScroll does not fail for ever.  *)
FetchAllTerminates == loop > 0 ~> loop = 0 \/ ~Running
=============================================================================
