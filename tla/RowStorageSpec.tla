---------------------------- MODULE RowStorageSpec ----------------------------
(***************************************************************************)
(* One compact_row_storage and the program that uses it by its contract:   *)
(* prepare an area, write rows to it, commit as many as were written,      *)
(* drop everything at any time.  The contract asks for a commit between    *)
(* two prepares; compact_result_set does not always keep that part.        *)
(***************************************************************************)
EXTENDS CompactRowStorage

CONSTANTS
    Builds,         \* the builds looked at: TRUE, without NDEBUG, and FALSE
    Repeats,        \* TRUE when prepare() may follow prepare() with no commit
    MaxRequest      \* bound on the rows asked of one prepare()

ASSUME StorageBuildsAreBoolean == Builds \subseteq BOOLEAN
ASSUME RepeatsIsBoolean == Repeats \in BOOLEAN
ASSUME RequestsArePositive == MaxRequest \in Nat \ {0}

VARIABLES
    asserts,        \* TRUE when the program was built without NDEBUG
    storage,        \* the compact_row_storage
    area,           \* the area handed out by the last prepare()
    written,        \* the rows written to it so far
    aborted         \* TRUE once an assert has stopped the process

vars == <<asserts, storage, area, written, aborted>>

NoArea == [chunk |-> 0, first |-> 0, rows |-> 0]

Init ==
    /\ asserts \in Builds
    /\ storage = FreshStorage
    /\ area = NoArea
    /\ written = << >>
    /\ aborted = FALSE

Aborts == aborted' = TRUE /\ UNCHANGED <<asserts, storage, area, written>>

DoPrepare(n) ==
    /\ ~aborted
    /\ area = NoArea \/ Repeats
    /\ \/ asserts /\ PrepareAsserts(storage, n) /\ Aborts
       \/ /\ ~(asserts /\ PrepareAsserts(storage, n))
          /\ storage' = Prepare(storage, n)
          /\ area' = AreaOf(storage, n)
          /\ written' = << >>
          /\ UNCHANGED <<asserts, aborted>>

DoWrite(row) ==
    /\ ~aborted
    /\ Len(written) < area.rows
    /\ written' = Append(written, row)
    /\ storage' = WriteArea(storage, area, written')
    /\ UNCHANGED <<asserts, area, aborted>>

(* The contract of commit(): after a prepare(), and of rows that were      *)
(* prepared and written.                                                   *)
DoCommit(q) ==
    /\ ~aborted
    /\ area # NoArea
    /\ \/ asserts /\ CommitAsserts(LastChunk(storage), q) /\ Aborts
       \/ /\ ~(asserts /\ CommitAsserts(LastChunk(storage), q))
          /\ storage' = Commit(storage, q)
          /\ area' = NoArea
          /\ written' = << >>
          /\ UNCHANGED <<asserts, aborted>>

DoDrop ==
    /\ ~aborted
    /\ storage' = FreshStorage
    /\ area' = NoArea
    /\ written' = << >>
    /\ UNCHANGED <<asserts, aborted>>

Next ==
    \/ \E n \in 1 .. MaxRequest : DoPrepare(n)
    \/ \E row \in Rows : DoWrite(row)
    \/ \E q \in 0 .. Len(written) : DoCommit(q)
    \/ DoDrop

Spec == Init /\ [][Next]_vars

-----------------------------------------------------------------------------
IsChunk(chunk) ==
    /\ chunk = [size |-> chunk.size, row_count |-> chunk.row_count,
                prepared |-> chunk.prepared, data |-> chunk.data]
    /\ chunk.size \in Nat \ {0}
    /\ chunk.row_count \in 0 .. chunk.size
    /\ chunk.prepared \in BOOLEAN
    /\ chunk.data \in [1 .. chunk.size -> Rows \cup {Blank}]

Ranges == [first_row : Nat, length : Nat, chunk : Nat]

Areas == [chunk : Nat, first : Nat, rows : Nat]

TypeOK ==
    /\ asserts \in BOOLEAN
    /\ storage = [chunk_store_ |-> storage.chunk_store_,
                  chunk_index_ |-> storage.chunk_index_,
                  row_count_   |-> storage.row_count_]
    /\ \A k \in DOMAIN storage.chunk_store_ : IsChunk(storage.chunk_store_[k])
    /\ storage.chunk_index_ \in Seq(Ranges)
    /\ Len(storage.chunk_store_) = Len(storage.chunk_index_)
    /\ storage.row_count_ \in Nat
    /\ area \in Areas
    /\ written \in Seq(Rows)
    /\ aborted \in BOOLEAN

(* Every stored row is found by get_value (compact_row_storage.hpp:261):   *)
(* the ranges of chunk_index_ lie one behind the other, as the binary      *)
(* search of find_chunk needs them, and exactly one holds the row, in a    *)
(* chunk where it is committed.                                            *)
RangesAreInOrder ==
    \A j, k \in 1 .. Len(storage.chunk_index_) :
        j < k => /\ storage.chunk_index_[j].first_row + storage.chunk_index_[j].length
                        <= storage.chunk_index_[k].first_row
                 /\ storage.chunk_index_[j].chunk # storage.chunk_index_[k].chunk

EveryRowIsFound ==
    /\ RangesAreInOrder
    /\ \A row \in 1 .. storage.row_count_ : \E k \in 1 .. Len(storage.chunk_index_) :
        /\ FindChunk(storage, row) = {k}
        /\ LET r == storage.chunk_index_[k]
                chunk == storage.chunk_store_[r.chunk]
            IN  (row - r.first_row) + 1 <= chunk.row_count
        /\ ValueAt(storage, k, row) \in Rows

(* An area is free space of its chunk, inside its buffers and behind every *)
(* committed row, and has room for one row at least (prepare(): "chunk is  *)
(* now guaranteed to have some space in it").                              *)
AreaIsFreeSpace ==
    area # NoArea =>
        LET chunk == storage.chunk_store_[area.chunk]
        IN  /\ area.rows > 0
            /\ area.first > chunk.row_count
            /\ area.first + area.rows - 1 <= chunk.size

(* A program that keeps the contract, committing at most the rows that     *)
(* were prepared (compact_row_storage.hpp:121), meets no failed assert.    *)
ContractMeetsNoAssert == ~aborted

RL == INSTANCE RowLog WITH log <- StoredRows(storage)

(* The storage implements the log: what was committed is read back         *)
(* unchanged until drop(), whatever chunks are added.                      *)
IsRowLog == RL!Spec
=============================================================================
