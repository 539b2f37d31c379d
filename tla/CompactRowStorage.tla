--------------------------- MODULE CompactRowStorage ---------------------------
(***************************************************************************)
(* compact_row_storage.hpp: the operations of compact_row_storage and of   *)
(* its chunks as operators on one storage value                            *)
(*     [chunk_store_, chunk_index_, row_count_].                           *)
(* A row stands for its cells: what the column offsets inside a chunk do   *)
(* with them is not part of this module.                                   *)
(***************************************************************************)
EXTENDS Naturals, Sequences

CONSTANTS
    DefaultChunkSize,   \* DEFAULT_CHUNK_SIZE, 256 in the code
    Rows,               \* what a row can hold
    Blank               \* chunk space that no row was written to

ASSUME ChunkSizeIsPositive == DefaultChunkSize \in Nat \ {0}
ASSUME BlankIsNoRow == Blank \notin Rows

-----------------------------------------------------------------------------
(* compact_chunk                                                           *)

CalcChunkSize(suggested) ==
    IF suggested < DefaultChunkSize THEN DefaultChunkSize ELSE suggested

NewChunk(chunk_size) ==
    [size      |-> CalcChunkSize(chunk_size),
     row_count |-> 0,
     prepared  |-> FALSE,
     data      |-> [i \in 1 .. CalcChunkSize(chunk_size) |-> Blank]]

SpaceOfEmptyChunk(chunk) == chunk.size
RemainingSpace(chunk) == chunk.size - chunk.row_count

(* The buffer positions handed out for `rows` rows.                        *)
PreparedArea(chunk, k, rows) ==
    [chunk |-> k, first |-> chunk.row_count + 1, rows |-> rows]

PrepareChunk(chunk) == [chunk EXCEPT !.prepared = TRUE]

(* commit()'s first assert asks for a prepared chunk, its second for a     *)
(* quantity strictly below the space that remains.                         *)
CommitAsserts(chunk, quantity) ==
    ~chunk.prepared \/ quantity >= RemainingSpace(chunk)

CommitForgetsRows(chunk, quantity) == [chunk EXCEPT !.prepared = FALSE]
CommitChunk(chunk, quantity) ==
    [chunk EXCEPT !.prepared = FALSE, !.row_count = @ + quantity]

(* The rows that a writer puts in the first positions of an area.          *)
WriteChunk(chunk, area, rows) ==
    [chunk EXCEPT !.data =
        [i \in 1 .. chunk.size |->
            IF i \in area.first .. (area.first + Len(rows) - 1)
            THEN rows[i - area.first + 1] ELSE @[i]]]

-----------------------------------------------------------------------------
(* compact_row_storage                                                     *)

FreshStorage ==
    [chunk_store_ |-> <<NewChunk(DefaultChunkSize)>>,
     chunk_index_ |-> <<[first_row |-> 1, length |-> DefaultChunkSize, chunk |-> 1]>>,
     row_count_   |-> 0]

Last(st) == Len(st.chunk_store_)
LastChunk(st) == st.chunk_store_[Last(st)]
SetLastChunk(st, chunk) == [st EXCEPT !.chunk_store_[Last(st)] = chunk]

IndexOneTooEarly(st, chunk_size) ==
    [st EXCEPT
        !.chunk_store_ = Append(@, NewChunk(chunk_size)),
        !.chunk_index_ = Append(@, [first_row |-> st.row_count_,
                                    length    |-> CalcChunkSize(chunk_size),
                                    chunk     |-> Last(st) + 1])]
CreateChunk(st, chunk_size) ==
    [st EXCEPT
        !.chunk_store_ = Append(@, NewChunk(chunk_size)),
        !.chunk_index_ = Append(@, [first_row |-> st.row_count_ + 1,
                                    length    |-> CalcChunkSize(chunk_size),
                                    chunk     |-> Last(st) + 1])]

NeverMoreSpace(st, row_count) == st
WithSpace(st, row_count) ==
    IF RemainingSpace(LastChunk(st)) = 0 THEN CreateChunk(st, row_count) ELSE st

AllThatWasAsked(st, row_count) == row_count
PrepareCount(st, row_count) ==
    IF RemainingSpace(LastChunk(st)) < row_count
    THEN RemainingSpace(LastChunk(st)) ELSE row_count

PrepareAsserts(st, row_count) == LastChunk(WithSpace(st, row_count)).prepared

Prepare(st, row_count) ==
    LET sp == WithSpace(st, row_count)
    IN  SetLastChunk(sp, PrepareChunk(LastChunk(sp)))

AreaOf(st, row_count) ==
    LET sp == WithSpace(st, row_count)
    IN  PreparedArea(LastChunk(sp), Last(sp), PrepareCount(sp, row_count))

(* The writer fills the start of an area through the bound pointers.       *)
WriteArea(st, area, rows) ==
    [st EXCEPT !.chunk_store_[area.chunk] = WriteChunk(@, area, rows)]

Commit(st, row_count) ==
    [SetLastChunk(st, CommitChunk(LastChunk(st), row_count))
        EXCEPT !.row_count_ = @ + row_count]

-----------------------------------------------------------------------------
(* Access by row number.  std::lower_bound returns the first range for     *)
(* which range_less(range, row) is false.                                  *)

Contains(r, row) == row >= r.first_row /\ row < r.first_row + r.length
RangeLessByOne(r, row) == r.first_row + r.length < row
RangeLess(r, row) == r.first_row + r.length <= row

LowerBound(st, row) ==
    {k \in 1 .. Len(st.chunk_index_) :
        /\ ~RangeLess(st.chunk_index_[k], row)
        /\ \A j \in 1 .. k - 1 : RangeLess(st.chunk_index_[j], row)}

(* The ranges find_chunk returns: one, or none when it returns nullptr.    *)
FindChunk(st, row) ==
    {k \in LowerBound(st, row) : Contains(st.chunk_index_[k], row)}

ValueAt(st, k, row) ==
    LET r == st.chunk_index_[k]
    IN  st.chunk_store_[r.chunk].data[(row - r.first_row) + 1]

GetValue(st, row) == ValueAt(st, CHOOSE k \in FindChunk(st, row) : TRUE, row)

(* The contents as a reader sees them through get_value().                 *)
StoredRows(st) == [row \in 1 .. st.row_count_ |-> GetValue(st, row)]
=============================================================================
