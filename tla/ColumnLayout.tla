----------------------------- MODULE ColumnLayout -----------------------------
(***************************************************************************)
(* How the cells of a compact chunk lie in its two buffers: the size of a  *)
(* column (types.hpp, compact_metadata.hpp), its place in the chunk, the   *)
(* pointers handed out for the driver (compact_row_storage.hpp), what the  *)
(* driver writes through them, and what the getters of result_view read.   *)
(*                                                                         *)
(* A column is what SQLDescribeCol told of it, [sql_type, byte_len].  A    *)
(* byte is Nul, Undefined, or a pair that names the cell it belongs to and *)
(* its place there.  Bytes and indicators are numbered from 0, rows and    *)
(* columns from 1, as in the code.                                         *)
(***************************************************************************)
EXTENDS Integers, Sequences, FiniteSetsExt

SQL_NULL_DATA == -1
Nul == << >>
Undefined == <<"undefined">>

(* Size and alignment of the C++ object for each SQL type; -154 is the     *)
(* time type of SQL Server.  Any other type makes generate() throw.        *)
sql_type_to_c_size_and_alignment ==
    [SQL_BIT |-> <<1, 1>>, SQL_TINYINT |-> <<1, 1>>, SQL_SMALLINT |-> <<2, 2>>,
     SQL_INTEGER |-> <<4, 4>>, SQL_BIGINT |-> <<8, 8>>, SQL_REAL |-> <<4, 4>>,
     SQL_DOUBLE |-> <<8, 8>>, SQL_FLOAT |-> <<8, 8>>, SQL_CHAR |-> <<1, 1>>,
     SQL_VARCHAR |-> <<1, 1>>, SQL_WCHAR |-> <<2, 2>>, SQL_BINARY |-> <<1, 1>>,
     SQL_TYPE_DATE |-> <<6, 2>>, SQL_SS_TIME |-> <<6, 2>>,
     SQL_TYPE_TIMESTAMP |-> <<16, 4>>, SQL_DECIMAL |-> <<19, 1>>]

sql_type_to_c_type ==
    [SQL_BIT |-> "BIT", SQL_TINYINT |-> "UTINYINT", SQL_SMALLINT |-> "SSHORT",
     SQL_INTEGER |-> "SLONG", SQL_BIGINT |-> "SBIGINT", SQL_REAL |-> "FLOAT",
     SQL_DOUBLE |-> "DOUBLE", SQL_FLOAT |-> "DOUBLE", SQL_CHAR |-> "CHAR",
     SQL_VARCHAR |-> "CHAR", SQL_WCHAR |-> "WCHAR", SQL_BINARY |-> "BINARY",
     SQL_TYPE_DATE |-> "DATE", SQL_SS_TIME |-> "TIME",
     SQL_TYPE_TIMESTAMP |-> "TIMESTAMP", SQL_DECIMAL |-> "NUMERIC"]

(* What the driver writes for a C type of fixed length: it does not look   *)
(* at the length of the buffer.                                            *)
FixedLength ==
    [BIT |-> 1, UTINYINT |-> 1, SSHORT |-> 2, SLONG |-> 4, SBIGINT |-> 8,
     FLOAT |-> 4, DOUBLE |-> 8, DATE |-> 6, TIME |-> 6, TIMESTAMP |-> 16, NUMERIC |-> 19]

to_c_type(col) == sql_type_to_c_type[col.sql_type]
IsFixed(col) == to_c_type(col) \in DOMAIN FixedLength

-----------------------------------------------------------------------------
(* compact_metadata                                                        *)

Generates(columns) ==
    \A x \in 1 .. Len(columns) : columns[x].sql_type \in DOMAIN sql_type_to_c_type

NoRoomForNull(col) ==
    IF col.sql_type \in {"SQL_VARCHAR", "SQL_BINARY"} THEN col.byte_len
    ELSE sql_type_to_c_size_and_alignment[col.sql_type][1]
get_column_size(col) ==
    IF col.sql_type \in {"SQL_VARCHAR", "SQL_BINARY"} THEN col.byte_len + 1
    ELSE sql_type_to_c_size_and_alignment[col.sql_type][1]      \* SQL_CHAR: 1

(* The bytes of so many rows of the columns before each.                   *)
BytesBefore(columns, quantity) ==
    LET bytes[x \in 1 .. Len(columns) + 1] ==
            IF x = 1 THEN 0
            ELSE bytes[x - 1] + get_column_size(columns[x - 1]) * quantity
    IN  bytes

calculate_data_size(columns, quantity) == BytesBefore(columns, quantity)[Len(columns) + 1]

-----------------------------------------------------------------------------
(* compact_chunk: column after column, each for all rows of the chunk.     *)

PackedByRow(columns, chunk_size, x) == BytesBefore(columns, 1)[x]
ColumnBegin(columns, chunk_size, x) == BytesBefore(columns, chunk_size)[x]

IndicatorBegin(chunk_size, x) == (x - 1) * chunk_size

(* The pointers prepare() hands out behind row_count rows.                 *)
FromTheTop(columns, chunk_size, row_count) ==
    [x \in 1 .. Len(columns) |->
        [data |-> ColumnBegin(columns, chunk_size, x),
         indicator |-> IndicatorBegin(chunk_size, x)]]
PreparedPointers(columns, chunk_size, row_count) ==
    [x \in 1 .. Len(columns) |->
        [data |-> ColumnBegin(columns, chunk_size, x)
                        + row_count * get_column_size(columns[x]),
         indicator |-> IndicatorBegin(chunk_size, x) + row_count]]

(* Where get_value(row, column) of a chunk finds a cell.                   *)
CellAt(columns, chunk_size, row, x) ==
    [data |-> ColumnBegin(columns, chunk_size, x)
                    + (row - 1) * get_column_size(columns[x]),
     indicator |-> IndicatorBegin(chunk_size, x) + (row - 1)]

CellIsAligned(col, cell) ==
    cell.data % sql_type_to_c_size_and_alignment[col.sql_type][2] = 0

-----------------------------------------------------------------------------
(* The cell of a row, n bytes long or SQL_NULL_DATA, in a buffer with the  *)
(* given room: text is cut to leave room for its null, a binary fills its  *)
(* column and gets none.  What a NULL leaves where a value would be is     *)
(* undefined.                                                              *)
Shorter(a, b) == IF a < b THEN a ELSE b
CellBytes(cell, n) == [i \in 1 .. n |-> <<cell, i>>]

ValueRoom(col, room) == IF to_c_type(col) = "BINARY" THEN Shorter(col.byte_len, room) ELSE room

BytesWritten(col, room, cell, n) ==
    CASE n = SQL_NULL_DATA -> [i \in 1 .. ValueRoom(col, room) |-> Undefined]
      [] n # SQL_NULL_DATA /\ IsFixed(col) -> CellBytes(cell, FixedLength[to_c_type(col)])
      [] n # SQL_NULL_DATA /\ to_c_type(col) = "CHAR" ->
            Append(CellBytes(cell, Shorter(n, room - 1)), Nul)
      [] n # SQL_NULL_DATA /\ to_c_type(col) = "WCHAR" ->
            CellBytes(cell, Shorter(2 * n, room - 2)) \o <<Nul, Nul>>
      [] n # SQL_NULL_DATA /\ to_c_type(col) = "BINARY" ->
            CellBytes(cell, ValueRoom(col, room))

(* A row put into a buffer, the bytes of its x-th cell from at[x] on.      *)
Covers(cells, at, k) == {x \in DOMAIN cells : k \in at[x] .. at[x] + Len(cells[x]) - 1}

PutAll(cells, at, buffer) ==
    [k \in DOMAIN buffer |->
        LET xs == Covers(cells, at, k)
        IN  IF xs = {} THEN buffer[k] ELSE cells[Max(xs)][k - at[Max(xs)] + 1]]

-----------------------------------------------------------------------------
(* The getters of result_view: null, or the bytes the C++ value is made    *)
(* of.  get_string_view, for text and for binary, reads to the first null, *)
(* past the end of the buffer if it has to.                                *)
Overrun == <<"overrun">>

ReadText(buffer, at) ==
    LET ends == {k \in DOMAIN buffer : k >= at /\ buffer[k] = Nul}
    IN  IF ends = {} THEN Overrun
        ELSE [i \in 1 .. Min(ends) - at |-> buffer[at + i - 1]]

IsNull(indicator) == indicator = SQL_NULL_DATA

ReadCell(col, data, at) ==
    IF IsFixed(col)
    THEN [i \in 1 .. sql_type_to_c_size_and_alignment[col.sql_type][1] |-> data[at + i - 1]]
    ELSE ReadText(data, at)
=============================================================================
