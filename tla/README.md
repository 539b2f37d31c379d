# async-odbc-wrapper: a TLA+ verification development

This directory holds TLA+ models of the library in `src/`, the TLC runs that
check them and the TLAPS proofs about them. `PROJECT.json` lists the same facts
for tools: components, runs, the mutants that show each property can fail, the
source lines behind each definition, the findings and the hazards.

To use it, from this directory:

    tlc -config SyncConnection_any_program.cfg MCSyncConnection.tla
    tlapm SyncConnectionProofs.tla

## 1. Inventory

The library wraps ODBC for C++17/20. It is header-only apart from
`src/sql_function_wrappers.cpp`, which turns every `SQLxxx` call into a function
that throws on an invalid handle, prints or collects the driver's messages, and
drops most other errors.

| Component | State it keeps | Operations | Hard behaviour | What makes it correct |
|---|---|---|---|---|
| handle tree (`handles.hpp`) | one SQLHANDLE per `impl_type`, `parent_`, `children_dead_`, shared ownership | construct, copy, `children_dead`, `mark_children_dead`, destroy | objects die in any order; SQLDisconnect frees statements behind the objects' backs; allocation fails half-way | no destructor throws, no handle freed twice, none lost, `children_dead()` exact |
| environment (`environment.hpp`) | an env handle | constructor (noexcept), `init` | the allocation throws inside noexcept | its children can only be allocated after `init` |
| sync connection (`sync/connection.hpp`) | `connected_`, `cancelled_`, a dbc handle | two `connect`s, `disconnect`, `execute`, `execute_query`, `create_statement`, destructor | dropped errors, reconnecting, destruction with living children | `connected()` agrees with the driver |
| statement (`statement.hpp`) | a stmt handle, shared with its result sets, and with it a cursor, bindings and attributes | `execute`, `execute_query`, attributes | outlived by its result set; executed again while old result sets live; errors swallowed before results are read | each result set shows its own query |
| driver call wrappers (`sql_function_wrappers`) | none | one function per driver call | which answers throw and which vanish | callers must not read what a failed call left unwritten |
| compact row storage (`compact_row_storage.hpp`) | chunks, chunk index, row count | `prepare`, `commit`, `drop`, `get_value` | chunk boundaries, two bases of row numbers, abandoned prepares | an append-only log, each row found by number |
| compact result set and result view (`compact_result_set.hpp`) | storage, bindings; a view shares the storage | `fetch_one`, `fetch_many`, `fetch_all`, `get_result_view` | short grants at chunk ends, bad rows, failed fetches, a disconnect in between, views alive while storage grows | each row once and in order, `false` means the end, views stable |
| compact metadata (`compact_metadata.hpp`, `metadata.hpp`) | types and sizes of the columns | constructor | bytes against elements, room for a null | cells do not overlap, getters read their own |
| standard result set (`standard_result_set.hpp`) | the driver's cursor, its current row, how much of a column was read | `next`, typed getters | errors read as success, use after a disconnect | `false` is the end, `true` means a row |
| column types (`types/`) | none; nullable values | type mapping, SQLGetData in one call, after a probe or in pieces | long data in pieces, NULL and unknown lengths, indicators a failed call leaves unset | the value read is the cell; getters end |
| async connection (`async/connection.hpp`) | a strand, a `shared_ptr` to the wrapper, which owns a sync connection | awaitable `connect`, `disconnect`, `execute`, `execute_query`; `connected`; the wrapper's destructor | what runs on the strand and what does not; who drops the last reference | every call returns, a dropped connection is closed, destructors do not throw |
| async result sets (`async/result_set/`) | a sync result set and the strand | awaitable fetches, synchronous getters | the destructor and the views run on users' threads while the strand fetches | rows in order, whoever fetches; a row that is counted can be read |
| thread pool, exceptions, logging, configuration, `test.hpp` | - | - | - | no behaviour of their own here |

How they interact. A connection owns an environment's child handle, a statement
or result set owns a connection's child handle; each `impl_type` holds a
`shared_ptr` to its parent's, so parents outlive children. `disconnect()` marks
the connection's handle, and the children's destructors ask their parent before
they free anything. A compact result set owns a row storage through a
`shared_ptr` that it shares with its views. An async connection posts every call
as a task on its strand, each task holding a `shared_ptr` to the wrapper; the
tasks call the sync classes.

The hazards these parts are exposed to are listed in `PROJECT.json`, each at its
line with the properties that would catch it.

## 2. Modules

    Connection  (abstract; SyncConnection and AsyncConnection implement it)
    RowLog      (abstract; RowStorageSpec implements it)

    Handles  <-  SyncConnection  <-  MCSyncConnection            (TLC)
                                 <-  SyncConnectionProofs        (TLAPS)

    CompactRowStorage  <-  RowStorageSpec  <-  CompactMemory  <-  MCRowStorage  (TLC)
                              ColumnLayout <-
                       <-  CompactResultSet        <-  MCCompactResultSet       (TLC)
                       <-  AsyncCompactResultSet   <-  MCAsyncCompactResultSet  (TLC)
                       <-  CompactRowStorageProofs                              (TLAPS)
    CompactRowStorageProofs, CompactMemory          <-  RowStorageProofs
    CompactRowStorageProofs, CompactResultSet       <-  CompactResultSetProofs
    CompactRowStorageProofs, AsyncCompactResultSet  <-  AsyncCompactResultSetProofs

    StandardResultSet  <-  MCStandardResultSet (TLC),  StandardResultSetProofs (TLAPS)
    StatementReuse     <-  MCStatementReuse (TLC),     StatementReuseProofs (TLAPS)
    AsyncConnection    <-  MCAsyncConnection (TLC),    AsyncConnectionProofs (TLAPS)

`A <- B` reads "B extends A". None of these modules uses a RECURSIVE operator, so
that each of them can be proved about.

Most modules are about several builds, programs or drivers. Which one a behaviour
is about is chosen in its initial state and never changes (`world`, `asserts`,
`orderly`, `discipline`, `program`), so that one run covers them all and a
property can name the ones it is about.

### Connection

The promise both connections make: opened at most once, over for good once
closed or gone, with a session in the driver exactly as long as it is open and
usable statements only meanwhile. `life` is what the object says of itself,
`session` and `usable` what the driver holds, so that a connection object that
goes while its session is open, or a flag that lies, is no step of it. A program
or driver that is not `trusted` is promised nothing.

Both implementations map `life` by the same rule: gone when nothing holds the dbc
handle, else over when `cancelled_`, else open when `connected_`. In
SyncConnection `trusted` is `WellBehaved`. AsyncConnection, which has no
`connect(std::string)`, is trusted where SQLDisconnect does not fail
(`DriverDisconnects`).

### Handles and SyncConnection

`Handles` is the handle tree over the driver manager's handle table. The state is
`hdl` (what the driver manager knows about each object's handle), `owners` (the
C++ objects that share an `impl_type`: this is the `shared_ptr` count),
`parent_`, `dead` (`children_dead_`) and `fault`, which says what ended the
process (a failed assert, an exception out of a destructor, an exception out of
a noexcept constructor). `Release` is the end of one C++ object: it computes
which `impl_type`s lose their last owner, and what each of their destructors does
to the table, children before parents, because `parent_` is released after the
destructor's body. `AllocHandle`, `FreeHandle`, `DisconnectTable` are the driver
manager's side, as the code uses it. `Throws` is `handle_odbc_call` reduced to what
its callers can tell apart.

`SyncConnection` has one action per public operation of `environment`,
`connection` and `statement`. Operations run on the caller's thread from start
to end, so each is atomic; the asynchronous classes are modelled apart. `world`
holds three things: `asserts` (NDEBUG is off), `void_connect` (the program uses
`connect(std::string)`) and `faults` (the driver calls that may answer SQL_ERROR on
valid input). `WellBehaved` is a `world` with no `connect(std::string)` and no failing
SQLDisconnect: properties that need it say so. `ret` is what the last operation
returned; `"garbage"` stands for an uninitialised value.

### CompactRowStorage, RowStorageSpec and RowLog

`CompactRowStorage` has the operations as operators on one storage value with
the fields `chunk_store_`, `chunk_index_`, `row_count_`; a row stands for all its
cells. `LowerBound` and `Contains` are the binary search and the test after it.
`RowStorageSpec` is a program that uses one storage by its contract; `Repeats`
lets it prepare twice without a commit, as `compact_result_set` does. `RowLog` is
the promise to a reader: a log that grows at its end until it is dropped.
`RowStorageSpec` implements it with the mapping `log <- StoredRows(storage)`,
what `get_value` returns for each row number.

### ColumnLayout and CompactMemory

`ColumnLayout` is the arithmetic: sizes of columns from their SQL types
(`get_column_size`), where a column begins in a chunk (in bytes for data, in
elements for indicators), what `prepare()` hands out (`PreparedPointers`), where
`get_value()` looks (`CellAt`), what a driver writes through a bound pointer
(`BytesWritten`: fixed types without a look at the buffer's length, text cut to
leave room for its null, a NULL leaving undefined what lies where a value would be,
never the null behind a binary) and what the getters of a view read (`ReadCell`:
`get_string_view` reads to the first null). A byte says which cell it belongs to and
which of its bytes it is, so that it is never itself a null: a binary value that
holds a zero byte is cut there by `get_string_view`, and nothing here says otherwise.
`BytesBefore` is the running sum of the constructor's loop, a recursive function.

`CompactMemory` adds the two buffers of every chunk to `RowStorageSpec`: each of its
actions is the action there with what it does to the bytes (`RowWritten`: all cells of
a row at once, since nothing looks between two of them). A row of its log is a
sequence of cell lengths. `ViewsReadTheirCells` ties the levels together: the
bytes read at the computed place are those of the row that the log holds there,
so a row of `CompactRowStorage` may stand for its cells. `Promised` says what may be
expected of a cell; for SQL_CHAR and SQL_WCHAR it is the empty string, because
`compact_metadata.hpp:57` gives them room for their null only.

### CompactResultSet

A cursor of `total` numbered rows, a driver that fills the bound buffers
(`FetchScroll`, external), and `fetch_many` with every early return, throw and
assert of the code in its order. `FetchAll` and `FetchAllStep` are the loop, one
iteration per step. `views` holds the rows each view showed when it was made, to
be compared with what it shows now. `ConnectionDisconnects` is the connection
being closed under the result set. The build, the program (`Programs`: the fetch
sizes it mixes) and what may fail (`Faults`) are chosen in the initial state, so
that one run covers all of their combinations.

### StandardResultSet

`next()` and the getters of `types.hpp` on the current row. A cell is
SQL_NULL_DATA or a length, and its bytes are numbered, so that a value shows
which bytes it was built from: `<<1, 2, 3>>` is a whole cell of three, `<<3>>` its
last piece, and `Pad` a byte that never came from the cell. `data` is the driver's
record of what SQLGetData has handed out of which column. Getters that make one
call are one action; `get_varchar` and `get_binary` begin with `Probe`, go on with
`ReadWhole` or with one `NextPiece` per turn of their loop. An indicator that a
failed call left uninitialised takes any value of `Garbage`. SQLFetch and SQLGetData
are external; what the code makes of their answers is `NextAnswer`, `Throws`,
`FirstInd`, `LaterInd`, `TextPiece`, `BinaryPiece` and `IsLastPiece`. A driver either
always reports what is left of a cell or never does (`Drivers`).

### StatementReuse

One driver handle and the result sets of all the queries run on it. `cursor` and
`at` are the driver's cursor, `bound` its column bindings and array size, `sets` each
result set with the cells its storage holds. SQL_CLOSE (`free_stmt_close`) takes the
cursor and leaves the bindings, which then point into the storage of the query
before and into the frame of a `fetch_many()` that has returned; `fetch_many` binds
anew before it fetches, `next` does not bind at all. `Programs` are what a program
does: the kinds of result sets it asks for, and whether it goes on using old ones.
`stray` is set when the driver writes through a binding whose storage or frame is
gone.

### AsyncConnection

The strand is `queue` and `running`, whose `step` says how far the current task
is; `disconnect()` takes two steps, because SQLDisconnect and
`mark_children_dead` are two moments to another thread. Each user is a coroutine
that awaits at most one call and owns at most one result set. The destructor of
a result set takes two steps on the user's thread: read `children_dead()`, then
free the handle. `DropConnection` and `FrameEnds` are the two places where the
last reference to the wrapper can go; the destructor's `net::dispatch` runs in
place on an idle strand (a strand over `system_executor`) or on the strand's own
thread, else it queues. `await_first` is the order in which the compiler evaluates
the two arguments of `make_unique` in `execute_query`. An `orderly` program lets its
result sets go, and its calls return, before it drops or disconnects the
connection. A program that `asks` executes and queries only after `connected()` told
it TRUE; any other does so whenever it likes, also on a connection that was refused,
never opened or closed, as the class allows. `faults` are the calls that may fail on
an open connection: SQLAllocHandle refuses a task its statement, SQLDisconnect closes
nothing and has its error dropped. A statement without a handle fails the assert of
`handles.hpp`; with NDEBUG it reaches the destructor (`StatementFails`), which skips it
on a connection marked dead and throws otherwise. The dbc handle itself is taken to
be allocated: a null one is SyncConnection's.

### AsyncCompactResultSet

Threads that fetch into one compact result set and read views of it. A fetch is
a task of the strand, whose lambda holds the result set by reference, cut into the
steps another thread can tell apart: prepare, SQLFetchScroll, the chunk's commit,
the storage's commit. `TaskMayStart` is the strand. Making a view and reading one
take no lock: a read is two steps, taking the bounds of `chunk_index_` and looking
through it. `buffer` counts the moves of that vector; a read that one of them
overtakes is undefined and answers `"raced"`, apart from `"wrong"`. (Chunks live in a
deque and stay where they are. Plain loads and stores are taken to be sequentially
consistent; what the C++ memory model adds is only more of `"raced"`.) A `"private"`
program keeps result set and views to their owner, a `"shared"` one gives them to
every thread. Destroying the result set under a task sets `dangling`, and the
behaviour ends there.

## 3. Runs

"Violation" runs check a sentence of the repository's own text that the code does
not keep; `PROJECT.json` quotes the sentence under "findings".

| Run | Shows |
|---|---|
| SyncConnection_any_program | two worlds, one with asserts in which anything may be called and fail, one with NDEBUG where objects with null handles exist: no destructor throws with asserts; for a well-behaved program no handle is lost, `connected()` and `children_dead()` are exact, and the promise of Connection is kept |
| SyncConnection_void_reconnect | violation: `connect(std::string)` opens a cancelled connection again, whose children count as dead |
| RowStorage_any_program | both builds, two tables of columns and one that is refused: the storage is an append-only log; every row is found, once, inside committed space; areas are free space and never empty; the driver stays in them, cells do not overlap, and every getter reads the bytes of its own cell |
| RowStorage_full_chunk | violation: `commit()`'s assert rejects the commit that fills a chunk |
| CompactResultSet_any_program | both builds, fetch sizes that divide the chunk and mixed ones, no faults, bad rows with a disconnect, failing fetches: without faults the storage is exactly what the cursor passed and aligned fetches report the end rightly; short of a failing SQLFetchScroll stored rows stay in cursor order; always, views stay and `fetch_all` ends |
| CompactResultSet_misaligned | violation: a short grant at a chunk's end returns `false` with rows left |
| StandardResultSet_any_program | both builds, both kinds of driver, with and without failing calls: a first read of a column returns the cell, whole and in order, and null for NULL, with three named exceptions; getters end; after a disconnect they throw; `next()` follows the cursor |
| StandardResultSet_long_text | violation: a text of unknown length that takes two turns of the loop is returned as its last piece |
| StatementReuse_any_program | the newest result set shows exactly its own query, whatever the one before left bound or unread; with one kind of result set old ones corrupt no row and nothing is written to memory that is gone |
| AsyncConnection_any_program | both builds, both compilers, orderly programs and any others, calls in any order, with SQLAllocHandle and SQLDisconnect failing: awaited calls return, a dropped connection goes, and a `connected()` that is TRUE on an idle strand is right; where SQLDisconnect does not fail, the promise of Connection is kept on every thread, a dropped connection is closed and FALSE is right too; orderly programs free no handle that SQLDisconnect freed and meet no wrapper that is gone; their destructors do not throw with asserts on, nor with NDEBUG when they ask `connected()` first and are refused no statement |
| AsyncConnection_dtor_race | violation: `disconnect()` on the strand between the two steps of a result set's destructor |
| AsyncCompactResultSet_any_program | fetches of two threads store the cursor once and in order, a row that is counted is there in the middle of a commit, reads are right but for the race on `chunk_index_`, a program that shares nothing is free of it, awaited fetches return |

The models show more things that have no run of their own.

- In a world with `void_connect` and a failing connect, `connected()` lies:
  `connect(std::string)` drops a refusal and sets `connected_` (`sync/connection.hpp:39`).
- Where SQLDisconnect may fail a handle is lost: `disconnect()` marks the children
  dead all the same, so nobody frees them (`sync/connection.hpp:61`).
- With NDEBUG a statement on a connection that was never connected keeps a null
  handle and throws from its destructor (`handles.hpp:83`). So does, on the strand, that
  of an `async::connection` that was refused or never opened, or of an open one that
  SQLAllocHandle refuses: `OrderlyDestructorsNeverThrow` promises nothing more to an
  NDEBUG program that does not ask `connected()`.
- `execute()` after a failed SQLExecDirect returns an uninitialised count
  (`statement.hpp:34`), the result `"garbage"` of `ExecuteResults`. And once a statement
  has run a query every later `execute()` is refused, because only `execute_query`
  closes a cursor; the error is swallowed and the count is the query's
  (`statement.hpp:31`, `"refused"` of `StatementReuse`).
- A standard result set on a statement that a compact one was read from fetches
  through the bindings of the other: `NoStrayWrites` and `ShownRowsStay` are about
  programs with one kind.
- A failed SQLFetchScroll leaves `rows_returned` uninitialised and a status array of
  zeros that reads as success, so rows that were never fetched are counted
  (`compact_result_set.hpp:170`); the assert at `:214` notices when the two differ,
  and `"fetch"` is the one fault `RowsInCursorOrder` excludes.
- Views read "" of every SQL_CHAR and SQL_WCHAR column (`compact_metadata.hpp:57`).
  In a chunk whose number of rows is not a multiple of the default one (a fetch of
  257) cells are not aligned for their C++ types.
- `get_varchar` of a column of known size throws std::length_error for a NULL,
  because SQL_NULL_DATA becomes a size (`types.hpp:270`), and for a text of more bytes
  than the column has characters it fails its assert, or returns padding without
  one: `NullOfSizedColumn` and `WiderThanItsColumn` of `GettersReturnTheCell`.
- On a statement that is gone `next()` is true for ever (`standard_result_set.hpp:34`).
- A view read on one thread while the strand adds a chunk reads a vector that
  moves, and a result set destroyed under its own fetch leaves the task with a
  dangling reference: `"raced"` and `dangling` of AsyncCompactResultSet.

`NoDanglingWrapper` holds of orderly programs with either compiler. For a program
that drops its connection while `execute_query` is awaited it depends on the
compiler: without `await_first` the executor is copied before the wait, with it it
is read from a wrapper that may be gone.

### Bounds

- Two connections and two statements (`SyncConnection`): two children under one
  parent and one under each of two; a third adds no kind of sharing. Slots are
  used again after they are freed, so histories are not bounded.
- Chunks of 2 rows instead of 256 (4 in the run of the full chunk), requests of 1
  to 3, four rows and three chunks (`RowBound`, `MaxRows`): requests smaller than, equal
  to and larger than a chunk, chunks larger than the default, and boundaries hit
  from below and exactly.
- Three tables of four columns (`MCTables`): fixed types of one, two and six bytes,
  text and binary of one and two bytes in front of, between and behind others,
  SQL_CHAR and SQL_WCHAR, and a type that `generate()` refuses. Two rows of data with
  NULL, a text that fits its column and one that does not. The proofs of section 4
  are for all tables and rows.
- Cursors of up to 6 rows over chunks of 4 (`MaxTotal`), one view (`MaxViews`; any
  state can be the one it was made in): two and three chunks, requests cut at a
  boundary and larger than what a chunk has left. TLC starts from every total
  from 0 to the bound. `MaxPhantoms` stops failing fetches after 4 rows, one chunk.
- A buffer of 2 bytes for the 1024 of the retrieval loops (`Buffer`), so that a text
  piece is 1 byte and a binary piece 2, and cells of 0 to 5 bytes: no piece, one,
  several, a last one that is short and one that is full. Seven rows (`MCRows`)
  give each column each of its lengths; a getter looks at one column of one row,
  so their combinations add nothing. Two rows per cursor. `MaxValue` caps
  what a loop fed with garbage may grow.
- Two queries on a statement (`MaxQueries`) of up to three rows, fetched one or two at
  a time: what a query finds depends on the one before it only.
- Two threads, three rows and chunks of two in AsyncCompactResultSet: one thread
  fetches across a boundary and moves `chunk_index_` while the other reads, fetches
  or destroys.
- Two coroutines (`Users`) in AsyncConnection, one awaited call each: one that holds, fetches
  or destroys, one that disconnects or drops. The queue is bounded by the users.
  `MCWorlds` are 24 worlds: both builds, orderly programs and others, both compilers;
  and for each of them a program that asks with a driver that may fail to disconnect,
  and one that does not ask with a driver that may refuse statements, or may do both.
  A fault may happen and need not, and a program that does not ask may: the worlds
  left out have only behaviours of these.

Symmetry is used in the SyncConnection runs over connections and statements,
which the specification treats alike; never in a run with a liveness property
(`IsConnection` is a safety property).
`CHECK_DEADLOCK FALSE` stands where the process may stop: at a failed assert, an
exception out of a destructor, or, in the asynchronous runs, when every
coroutine has finished with a dropped connection.

### Fairness

- `WF(FetchAllStep)`, `WF(NextPiece)`, `WF(ReadWhole)`: the loops of `fetch_all()` and
  of the getters run on their caller's thread. `FetchAllTerminates` and
  `GettersReturn` rest on what the driver answers besides: SQLFetchScroll may fail
  only up to `MaxPhantoms`, SQLGetData not at all.
- `WF(StrandStep)`, `WF(TaskStep)`: `system_executor` runs the work of a strand that has
  any.
- `WF(Resume(u))`: the user's executor runs a completion handler posted to it.
- `WF(FreeStatement(u))`: a destructor that has begun goes on.

Nothing is assumed of what programs choose to do: no user has to call, drop or
destroy anything.

## 4. Proofs

All proofs are for every value of the constants: any sets of connections and
statements, any set of worlds, any table and buffer, any set of faults. Conditions
on the build, the program or the driver are part of the property (`Asserts => ...`,
`WellBehaved => ...`), so each theorem is `Spec => []P` as the runs check it, or
`Spec => P` for the refinement.

`SyncConnectionProofs`
- `TypeCorrect`: `Spec => []TypeOK`. `TypeOK` is inductive by itself.
- `DestructorsAreSafe`: `DestructorsNeverThrow`. The
  invariant that carries it is `SafeInv`: the types; every living object has an
  entry in the handle table, not a null one, that a free handle can be made of
  (`LivingTable`); and a statement whose handle SQLDisconnect freed has a parent
  that is marked (`FreedTable`). Both are needed: a destructor throws exactly when
  the driver answers SQL_INVALID_HANDLE, that is for a null handle or one freed
  before. With asserts off a null handle is kept and the theorem is false (section 3).

- `ConnectedTellsTheTruth`, `NothingLeaks` and `DeadFlagIsExact`, in both builds.
  The invariant is `TruthInv`: `SafeInv`, and `TrueInv` where `WellBehaved` holds.
  `TrueInv` adds `Link`, which ties `connected_`, `cancelled_` and `children_dead_` to the
  table (connected iff the driver has the connection open, marked only if
  cancelled, cancelled only if closed, and a connected dbc has its connection
  object); and `LeakFree`. `Link` is needed for `LeakFree`: a statement is skipped by its
  destructor when its parent is marked, and only `Link` and `FreedTable` together say
  that it is then freed already; and a dbc is freed successfully only when it is
  closed. Neither half of `WellBehaved` can be left out: the run
  SyncConnection_void_reconnect and the counterexamples of section 3 show it.
- `ImplementsConnection`: `Spec => IsConnection`. In a state that `TrueInv` allows the
  mapped `session` and `usable` follow from `life` (`OpenMeansConnected`), so it is enough
  to see, of each operation, that the life of one connection takes one of five ways
  (`LifeMoves`) and that no other connection is touched (`Stays`): that is `OneMoves`. The
  end of a statement may be the end of its connection (`ReleaseRefines`).

`CompactRowStorageProofs` holds the lemmas about one storage that the three users
of it share; no theorem of its own.
- `StorageOK` is what a storage looks like that was used only through its
  operations: `IndexOK` (the k-th range describes the k-th chunk, the ranges lie
  one behind the other without overlap), `RowsAreHeld` (every counted row lies in a
  range and among the committed rows of its chunk) and `CountsAgree` (the last chunk
  ends where the storage does, which ties the two bases of row numbers).
- `HeldRowIsFound`: the binary search ends at the one range that holds the row.
  `PrepareKeeps`, `CommitCounts`, `CommittedRowIsRead`: what each operation leaves as it
  was (`Extends`), and where a committed row is read from. `PreparingStores` and
  `FillingStores` put them together for a whole prepare, write and commit.

`RowStorageProofs`
- `StorageIsTyped`, `StoredRowsAreFound`, `AreasAreFreeSpace`, and `StorageIsRowLog`
  (`Spec => IsRowLog`), from `StorageInv`: `StorageOK`, every committed cell is a row, and
  `AreaInv` (the area is the free space behind the committed rows and holds what was
  written so far at its start). `CountsAgree` is the part without which none of it
  is inductive: a commit counts rows in the chunk and in the storage apart.
- Each step but `drop()` extends the storage (`StepIsSound`), and an extension reads
  the same rows (`ExtensionKeepsRows`): that is the step of the log.
- `MemoryImplementsStorage`: CompactMemory, which the run looks at, takes no steps but
  those, so the theorems hold of it.
- `CellsAreReadBack` (`ViewsReadTheirCells`), `DriverIsConfined` (`DriverStaysInItsArea`)
  and `CellsOfFullChunksAreAligned` (`CellsAreAligned`), for any columns, lengths and
  number of rows. Three lines meet in them. The layout: a column begins where
  the one before it ends (`BytesBeforeAddsUp`, by induction over the columns, which
  `NatSetInduction` derives from the well-founded order of the naturals), so two
  cells lie apart and inside the buffers (`CellsLieApart`, `CellLiesInside`). One cell:
  what a driver writes fits the width of its column (`WrittenFits`) and is read back
  whole, a binary because nothing ever overwrites the null behind it
  (`ValueIsReadBack`). The storage: `BytesInv` says that the bytes of every slot of
  every chunk that holds a row are those of that row (`Mirrors`), which a write keeps
  because the driver's target is the place a reader computes (`TargetIsCell`). Slots
  that an abandoned fetch filled are part of it: the next area overwrites them.
- They assume of the constants that a table is a sequence of columns and a row of
  data a length for each (`TablesAreTables`), and for the alignment that the default
  number of rows of a chunk is a multiple of each alignment in use, as 256 is
  (`ChunksAreAligned`).

`CompactResultSetProofs`
- `ResultSetIsTyped`, `StorageFollowsTheCursor`, `RowsStayInOrder`, `ViewsStayTheSame` and
  `AlignedLoopsSeeAllRows`, from `ResultInv`, whose parts say: the storage is sound; a
  view's rows are those its numbers read now (`ViewsInv`); unless SQLFetchScroll fails
  the stored rows are strictly increasing and none is beyond the cursor, and without
  faults row i is row i (`CursorRowsInv`); and, for a program whose fetch sizes divide
  the chunk, the space left in the last chunk is a whole number of every one of its
  fetches until the cursor is at its end (`AlignedInv`). `AlignedInv` is what makes `false`
  mean the end: it excludes the short grant of the run CompactResultSet_misaligned.

`AsyncCompactResultSetProofs`
- `FetchesAreTyped`, `CoroutinesShareTheCursor`, `ViewsReadTheirRows` and
  `PrivateUseIsSafe`, from `SharedInv`. `TasksInv` is the strand: one task runs, nobody
  waits twice. `FetchInv` says of the task that runs how far it has come: between
  SQLFetchScroll and the end of the commit its rows are in the chunk's buffers
  (`IsFilled`), then counted by the chunk and not by the storage (`IsCounted`), while all
  counted rows stay readable; only when nobody is in these phases do `CountsAgree` and
  `row_count_ = cursor` hold. `ReadersInv` is what a view may point to, `PrivateInv` what a
  program that shares nothing adds. A read is right because the rows it may ask
  for were counted before it began, and every task step extends the storage
  (`TaskKeeps`).

`StandardResultSetProofs`
- `NextIsRight`: `NextFollowsTheCursor` is inductive by itself, given that getters
  leave the cursor alone (`GettersLeaveTheCursor`).
- `GoneStatementsThrow`: `DisconnectedGettersThrow`, by the invariant `Gone`, which adds
  that no getter is half-way on a statement that is gone: a disconnect does not
  interrupt one, and a probe of such a statement throws.
- `GettersAreTyped`: `TypeOK`, by `TypeInv`, which adds what the driver's record and the
  call in progress may be together.
- `CellsAreReadWhole`: `GettersReturnTheCell`, by `ReadInv`, which ties `value` to `data` while
  a first read is in progress: a cell that is read in one call has had nothing
  handed out before it (`WholeInv`); of one that is read in pieces the value is
  exactly the units handed out so far (`PiecesInv`). It assumes of the constants that
  a buffer has room for a unit and its null and is no longer than a value may be.

`StatementReuseProofs`
- `ReuseIsTyped`, `EveryQueryIsReadWhole` (`EachReadsItsOwnQuery`), `OneKindNeverStrays`
  (`NoStrayWrites`) and the action property `ReadRowsStay` (`ShownRowsStay`), from `ReuseInv`.
  `BindingInv`: the bound area begins right behind or among counted rows of a set that
  exists. `OneKindInv`: with one kind of result set no set holds more than it counts,
  and a program of standard ones never binds, so that a write through an old
  binding cannot fall on a row that is shown. `NewestInv`: the cursor is behind the
  rows that the newest set shows.

`AsyncConnectionProofs`
- `ConnectionIsTyped`, `OrderlyProgramsNeverThrow`, `WrapperNeverDangles`,
  `IdleFlagIsTruthful`, and `AsyncIsConnection` (`Spec => IsConnection`), from `ConnInv`.
  `WrapperInv`: the wrapper exists exactly as long as the program or a task holds it.
  `FlagsInv`: `connected_` and `cancelled_` agree with the driver but between SQLDisconnect
  and `mark_children_dead()`; the half of it that says an open connection is known to
  be open needs `DriverDisconnects`. `TasksInv`: a user waits for at most one task, and
  for none while it destroys a result set. `StatementsInv`: statements live only while
  the connection is open, SQLDisconnect frees none but of a cancelled one, and a
  program that asks has no execute or query pending on a connection that was never
  opened. `OrderlyInv`: what letting go first gives an orderly program.
- `OrderlyProgramsNeverThrow` has two halves. No handle is freed twice, for any driver
  and either build, by `OrderlyInv`. No null handle is freed either, with asserts since
  the constructor stops the process, and with NDEBUG by the last part of
  `StatementsInv`: when a program asks and the driver refuses nothing, a closed
  connection on which a task runs is cancelled, so it is marked, and the destructor
  returns. Neither condition can be left out: in the worlds that the property leaves
  out the model has the throw.
- The refinement follows the same line as the synchronous one: `MappingInv` says that
  the mapped `session` and `usable` follow from `life`, and each action moves the life of
  the connection as `LifeMoves` allows. It is for drivers whose SQLDisconnect does not
  fail; Connection promises nothing of the others.

Only model-checked, and why:

- `FetchAllTerminates`, `GettersReturn`, `DroppedConnectionIsClosed`, `AwaitedCallsReturn`,
  `AwaitedFetchesReturn`: liveness under fairness, which the prover has no rule for
  (ENABLED).

## 5. Not modelled, and why

- The names of columns and the index by name (`metadata.hpp`): built once, then read.
  `sql_type_to_cpp_size_and_alignment` of `types.hpp` has no caller that anything calls.
- The query timeout: one driver attribute that no operation of the library reads.
- A driver that starts to report lengths in the middle of a cell, and one that
  does not let a program go back to an earlier column.
- Different columns in the queries of one statement, and driver failures there: the
  other modules have them.
- Diagnostic records: no state of the library depends on them.
- Statement attributes other than the array size: passed to the driver, no state.
- The thread pool has no caller; logging, exceptions and configuration are
  declarations and output; `test.hpp` is an experiment nothing includes.

## 6. Plan

Done, in this order: Handles and SyncConnection with their proofs, the row
storage with its abstract log, the compact result set, the asynchronous
connection, the standard result set with its first theorems, the column layout and
the bytes of a chunk, statements used again, fetches and views on several threads,
and the abstract connection with the proof that the synchronous one implements it.
Since then every invariant and every safety property of the passing runs has been
proved, with the refinements of RowLog and Connection and the bytes of a chunk.
To come:

1. A second look at what stays outside: the names of columns and the index by
   name, and failing driver calls in `StatementReuse`.
2. The refinement of the asynchronous compact result set into the synchronous one,
   which now share the lemmas about the storage only.
