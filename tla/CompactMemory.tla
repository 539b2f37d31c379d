----------------------------- MODULE CompactMemory -----------------------------
(***************************************************************************)
(* The storage of RowStorageSpec together with the bytes of its chunks:    *)
(* what the driver writes through the pointers that prepare() handed out,  *)
(* and what a result_view reads at the place get_value() computes.  It     *)
(* shows that a row of CompactRowStorage may stand for its cells.          *)
(*                                                                         *)
(* A row is a sequence of lengths, one for each column: SQL_NULL_DATA, or  *)
(* the bytes of a text or binary cell (a fixed cell looks at NULL only).   *)
(***************************************************************************)
EXTENDS RowStorageSpec, ColumnLayout

CONSTANT Tables     \* the result sets looked at, each a sequence of columns

ASSUME TablesAreTables ==
    \A t \in Tables : /\ t \in Seq([sql_type : STRING, byte_len : Nat])
                      /\ \A row \in Rows : row \in [1 .. Len(t) -> Nat \cup {SQL_NULL_DATA}]
(* The 256 rows of a chunk are a multiple of every alignment there is.     *)
ASSUME ChunksAreAligned ==
    \A t \in Tables : Generates(t) =>
        \A x \in 1 .. Len(t) :
            DefaultChunkSize % sql_type_to_c_size_and_alignment[t[x].sql_type][2] = 0

VARIABLES
    columns,        \* the columns of this result set
    memory          \* data_ and indicators_ of each chunk

memoryVars == <<columns, memory>>

ChunkMemory(cols, chunk_size) ==
    [data |-> [k \in 0 .. calculate_data_size(cols, chunk_size) - 1 |-> Nul],
     indicators |-> [k \in 0 .. Len(cols) * chunk_size - 1 |-> 0]]

MemoryInit ==
    /\ Init
    /\ columns \in {t \in Tables : Generates(t)}
    /\ memory = <<ChunkMemory(columns, DefaultChunkSize)>>

(* A chunk that prepare() creates brings its memory with it.               *)
MemoryPrepare(n) ==
    /\ DoPrepare(n)
    /\ memory' = memory \o [k \in 1 .. Len(storage'.chunk_store_) - Len(memory) |->
                                ChunkMemory(columns, LastChunk(storage').size)]
    /\ UNCHANGED columns

(* The pointers of the last prepare(), and where column-wise binding puts  *)
(* the cells of row i of the rowset.                                       *)
bound == PreparedPointers(columns, storage.chunk_store_[area.chunk].size, area.first - 1)

Target(i, x) ==
    [data |-> bound[x].data + (i - 1) * get_column_size(columns[x]),
     indicator |-> bound[x].indicator + (i - 1)]

(* The driver writes the cells of the next row of the rowset, and of each  *)
(* its length or that it is NULL.                                          *)
RowWritten(mem, row, i) ==
    LET xs == 1 .. Len(columns)
        cells == [x \in xs |->
                    BytesWritten(columns[x], get_column_size(columns[x]), <<row, x>>, row[x])]
        lengths == [x \in xs |-> <<row[x]>>]
    IN  [data |-> PutAll(cells, [x \in xs |-> Target(i, x).data], mem.data),
         indicators |-> PutAll(lengths, [x \in xs |-> Target(i, x).indicator], mem.indicators)]

MemoryWrite(row) ==
    /\ DoWrite(row)
    /\ memory' = [memory EXCEPT ![area.chunk] = RowWritten(@, row, Len(written) + 1)]
    /\ UNCHANGED columns

MemoryCommit(q) == DoCommit(q) /\ UNCHANGED memoryVars

MemoryDrop ==
    /\ DoDrop
    /\ memory' = <<ChunkMemory(columns, DefaultChunkSize)>>
    /\ UNCHANGED columns

MemoryNext ==
    \/ \E n \in 1 .. MaxRequest : MemoryPrepare(n)
    \/ \E row \in Rows : MemoryWrite(row)
    \/ \E q \in 0 .. Len(written) : MemoryCommit(q)
    \/ MemoryDrop

MemorySpec == MemoryInit /\ [][MemoryNext]_<<vars, memoryVars>>

-----------------------------------------------------------------------------
(* result_view: find_chunk(), get_value() of the chunk, and a getter.      *)
ViewReads(row, x) ==
    LET k == CHOOSE k \in FindChunk(storage, row) : TRUE
        r == storage.chunk_index_[k]
        cell == CellAt(columns, storage.chunk_store_[r.chunk].size, (row - r.first_row) + 1, x)
    IN  IF IsNull(memory[r.chunk].indicators[cell.indicator]) THEN "null"
        ELSE ReadCell(columns[x], memory[r.chunk].data, cell.data)

(* What the program may expect to read of a cell of n bytes: NULL, all of  *)
(* a fixed or binary cell, a varchar up to the width of its column.  The   *)
(* code gives CHAR and WCHAR columns room for a null only.                 *)
Promised(col, cell, n) ==
    CASE n = SQL_NULL_DATA -> "null"
      [] n # SQL_NULL_DATA /\ IsFixed(col) ->
            CellBytes(cell, sql_type_to_c_size_and_alignment[col.sql_type][1])
      [] n # SQL_NULL_DATA /\ col.sql_type = "SQL_BINARY" -> CellBytes(cell, col.byte_len)
      [] n # SQL_NULL_DATA /\ col.sql_type = "SQL_VARCHAR" ->
            CellBytes(cell, Shorter(n, col.byte_len))
      [] n # SQL_NULL_DATA /\ col.sql_type \in {"SQL_CHAR", "SQL_WCHAR"} -> << >>

(* Every getter of a view (compact_result_set.hpp:23-122) reads the cell   *)
(* that was fetched into that row and column, not a byte of a neighbour,   *)
(* of an abandoned fetch or of another chunk.                              *)
ViewsReadTheirCells ==
    \A row \in 1 .. storage.row_count_, x \in 1 .. Len(columns) :
        LET stored == GetValue(storage, row)
        IN  ViewReads(row, x) = Promised(columns[x], <<stored, x>>, stored[x])

(* The bytes a driver may touch of a cell: for a fixed C type it does not  *)
(* look at the buffer's length.                                            *)
Extent(col, at) ==
    at .. at + (IF IsFixed(col) THEN FixedLength[to_c_type(col)] ELSE get_column_size(col)) - 1

(* What prepare() hands out ("Using space before or after the buffer is    *)
(* undefined", compact_row_storage.hpp:90) lies within the chunk's buffers *)
(* and apart from every committed cell, and no two cells of it overlap.    *)
DriverStaysInItsArea ==
    area # NoArea =>
        LET chunk == storage.chunk_store_[area.chunk]
            mem == memory[area.chunk]
            cells == (1 .. area.rows) \X (1 .. Len(columns))
            committed == (1 .. chunk.row_count) \X (1 .. Len(columns))
            Place(c) == CellAt(columns, chunk.size, c[1], c[2])
            Bytes(c) == Extent(columns[c[2]], Target(c[1], c[2]).data)
            kept == UNION {Extent(columns[c[2]], Place(c).data) : c \in committed}
            keptIndicators == {Place(c).indicator : c \in committed}
        IN  \A c \in cells :
            /\ Bytes(c) \subseteq DOMAIN mem.data \ kept
            /\ Target(c[1], c[2]).indicator \in DOMAIN mem.indicators \ keptIndicators
            /\ \A d \in cells \ {c} :
                /\ Bytes(c) \cap Bytes(d) = {}
                /\ Target(c[1], c[2]).indicator # Target(d[1], d[2]).indicator

(* The getters cast a cell's address to its C++ type.  No column is padded *)
(* to its alignment: cells are aligned in chunks whose number of rows is a *)
(* multiple of the default one, and may not be in others.                  *)
CellsAreAligned ==
    \A k \in DOMAIN storage.chunk_store_ :
        LET size == storage.chunk_store_[k].size
        IN  size % DefaultChunkSize = 0 =>
                \A row \in 1 .. size, x \in 1 .. Len(columns) :
                    CellIsAligned(columns[x], CellAt(columns, size, row, x))
=============================================================================
