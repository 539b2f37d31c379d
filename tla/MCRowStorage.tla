----------------------------- MODULE MCRowStorage -----------------------------
(* CompactMemory for TLC: chunks of two or four rows, two rows of data and *)
(* three result sets.                                                      *)
EXTENDS CompactMemory

CONSTANT MaxRows    \* bound on the rows of one storage

MCRows == {<<1, 2, -1, 1>>, <<-1, -1, 1, 2>>}

Column(type, len) == [sql_type |-> type, byte_len |-> len]

MCTables ==
    {<<Column("SQL_TINYINT", 3), Column("SQL_VARCHAR", 1), Column("SQL_SS_TIME", 8),
       Column("SQL_VARCHAR", 2)>>,
     <<Column("SQL_SMALLINT", 5), Column("SQL_BINARY", 2), Column("SQL_CHAR", 3),
       Column("SQL_WCHAR", 2)>>,
     <<Column("SQL_BIT", 1), Column("SQL_UNKNOWN", 4), Column("SQL_VARCHAR", 2),
       Column("SQL_BIT", 1)>>}

RowBound == storage.row_count_ <= MaxRows /\ Len(storage.chunk_store_) <= 3
=============================================================================
