---------------------------- MODULE RowStorageProofs ----------------------------
(***************************************************************************)
(* What RowStorageSpec promises of a storage, proved for every size of     *)
(* chunk, every data and every request, with and without asserts; and that *)
(* it implements RowLog.  CompactMemory, which the runs look at, adds      *)
(* bytes to the storage and takes no step that RowStorageSpec does not;    *)
(* the second half proves what it promises of them, for all columns: that  *)
(* cells are read back, kept apart and aligned.                            *)
(***************************************************************************)
EXTENDS CompactMemory, CompactRowStorageProofs, WellFoundedInduction

(* The area is free space at the end of the last chunk, and what was       *)
(* written to it lies at its start.                                        *)
AreaInv ==
    /\ area \in Areas
    /\ area # NoArea => IsPrepared(storage, area)
    /\ written \in Seq(Rows)
    /\ Len(written) <= area.rows
    /\ area # NoArea => \A i \in 1 .. Len(written) :
        LastChunk(storage).data[area.first + i - 1] = written[i]

StorageInv ==
    /\ asserts \in BOOLEAN /\ aborted \in BOOLEAN
    /\ StorageOK(storage)
    /\ CommittedCellsAreRows(storage)
    /\ AreaInv

-----------------------------------------------------------------------------
LEMMA InitEstablishes == Init => StorageInv
<1> SUFFICES ASSUME Init PROVE StorageInv
  OBVIOUS
<1>1. AreaInv
  BY DEF Init, AreaInv, NoArea, Areas
<1> QED BY <1>1, FreshStorageIsOK, StorageBuildsAreBoolean DEF Init, StorageInv

(* What the operations do to the storage, when they do not stop at an      *)
(* assert.                                                                 *)
LEMMA PrepareStep ==
    ASSUME StorageInv, NEW n \in 1 .. MaxRequest,
           storage' = Prepare(storage, n), area' = AreaOf(storage, n), written' = << >>
    PROVE  Kept(storage, storage') /\ AreaInv'
<1>1. n \in Nat \ {0} /\ StorageOK(storage)
  BY RequestsArePositive DEF StorageInv
<1>2. Kept(storage, storage') /\ IsPrepared(storage', area')
  BY <1>1, PrepareKeeps
<1>3. area' \in [chunk : Nat, first : Nat, rows : Nat \ {0}]
  BY <1>2 DEF IsPrepared
<1>4. written' \in Seq(Rows) /\ Len(written') = 0 /\ area' \in Areas /\ area'.rows \in Nat
  BY <1>3 DEF Areas
<1> QED BY <1>2, <1>4 DEF AreaInv

LEMMA WriteStep ==
    ASSUME StorageInv, NEW row \in Rows, Len(written) < area.rows,
           written' = Append(written, row), storage' = WriteArea(storage, area, written'),
           area' = area
    PROVE  Kept(storage, storage') /\ AreaInv'
<1>1. StorageOK(storage) /\ area \in Areas /\ written \in Seq(Rows)
  BY DEF StorageInv, AreaInv
<1>2. /\ written' \in Seq(Rows) /\ Len(written') = Len(written) + 1
      /\ Len(written) \in Nat
  BY <1>1, AppendProperties, LenProperties
<1>3. area # NoArea /\ IsPrepared(storage, area) /\ area.rows \in Nat
  BY <1>1, <1>2 DEF NoArea, Areas, StorageInv, AreaInv
<1>4. /\ Kept(storage, storage') /\ IsPrepared(storage', area)
      /\ \A i \in 1 .. LastChunk(storage).size :
            LastChunk(storage').data[i] =
                IF i >= area.first /\ i < area.first + Len(written')
                THEN written'[i - area.first + 1] ELSE LastChunk(storage).data[i]
  <2>1. written' \in Seq(Cells)
    BY <1>2 DEF Cells
  <2>2. AreaWritten(storage, area, written', storage')
    BY <1>1, <1>3, <2>1, WriteKeeps
  <2> QED BY <2>2 DEF AreaWritten
<1>5. Len(written') <= area.rows
  BY <1>2, <1>3
<1>6. ASSUME NEW i \in 1 .. Len(written')
      PROVE  LastChunk(storage').data[area.first + i - 1] = written'[i]
  <2>1. /\ area.first \in Nat /\ area.first > 0 /\ LastChunk(storage).size \in Nat
        /\ area.first + area.rows - 1 <= LastChunk(storage).size
    BY <1>1, <1>3, LastChunkParts, ChunkParts DEF IsPrepared, StorageOK, IndexOK
  <2>2. /\ area.first + i - 1 \in 1 .. LastChunk(storage).size
        /\ area.first + i - 1 >= area.first /\ area.first + i - 1 < area.first + Len(written')
        /\ (area.first + i - 1) - area.first + 1 = i
    BY <1>2, <1>3, <1>5, <2>1
  <2> QED BY <1>4, <2>2
<1> QED BY <1>1, <1>2, <1>4, <1>5, <1>6 DEF AreaInv

LEMMA CommitStep ==
    ASSUME StorageInv, NEW q \in 0 .. Len(written), area # NoArea,
           storage' = Commit(storage, q), area' = NoArea, written' = << >>
    PROVE  /\ StorageOK(storage') /\ Extends(storage, storage')
           /\ CommittedCellsAreRows(storage') /\ AreaInv'
<1>1. /\ StorageOK(storage) /\ CommittedCellsAreRows(storage)
      /\ area \in Areas /\ written \in Seq(Rows)
      /\ IsPrepared(storage, area) /\ Len(written) \in Nat /\ Len(written) <= area.rows
  BY LenProperties DEF StorageInv, AreaInv
<1>2. /\ LastChunk(storage).row_count \in Nat /\ LastChunk(storage).size \in Nat
      /\ area.first = LastChunk(storage).row_count + 1 /\ area.rows \in Nat
      /\ area.first + area.rows - 1 <= LastChunk(storage).size
  BY <1>1, LastChunkParts, ChunkParts DEF IsPrepared, StorageOK, IndexOK, Areas
<1>3. q \in Nat /\ LastChunk(storage).row_count + q <= LastChunk(storage).size
  BY <1>1, <1>2
<1>4. ASSUME NEW i \in LastChunk(storage).row_count + 1 .. LastChunk(storage).row_count + q
      PROVE  LastChunk(storage).data[i] \in Rows
  <2>1. i - LastChunk(storage).row_count \in 1 .. Len(written)
    BY <1>1, <1>2, <1>3
  <2>2. area.first + (i - LastChunk(storage).row_count) - 1 = i
    BY <1>2, <1>3
  <2>3. LastChunk(storage).data[i] = written[i - LastChunk(storage).row_count]
    BY <2>1, <2>2 DEF StorageInv, AreaInv
  <2> QED BY <1>1, <2>1, <2>3, ElementOfSeq
<1>5. StorageOK(storage') /\ Extends(storage, storage')
  BY <1>1, <1>3, CommitCounts
<1>6. CommittedCellsAreRows(storage')
  BY <1>1, <1>3, <1>4, CommitOfRows
<1>7. AreaInv'
  BY DEF AreaInv, NoArea, Areas
<1> QED BY <1>5, <1>6, <1>7

(* Every step keeps the invariant, and every one but drop() what is stored. *)
LEMMA StepIsSound ==
    ASSUME StorageInv, [Next]_vars
    PROVE  /\ StorageInv'
           /\ storage' = FreshStorage \/ Extends(storage, storage')
<1>1. StorageOK(storage) /\ CommittedCellsAreRows(storage) /\ Extends(storage, storage)
  BY ExtendsIsReflexive DEF StorageInv, StorageOK, IndexOK
<1>2. CASE /\ storage' = storage /\ area' = area /\ written' = written
           /\ asserts' = asserts /\ aborted' \in BOOLEAN
  BY <1>1, <1>2 DEF StorageInv, AreaInv
<1>3. ASSUME Aborts PROVE StorageInv' /\ Extends(storage, storage')
  BY <1>2, <1>3, <1>1 DEF Aborts, StorageInv, AreaInv
<1>4. ASSUME NEW n \in 1 .. MaxRequest, DoPrepare(n)
      PROVE  StorageInv' /\ Extends(storage, storage')
  <2>1. CASE Aborts
    BY <1>3, <2>1
  <2>2. CASE ~Aborts
    <3>1. /\ storage' = Prepare(storage, n) /\ area' = AreaOf(storage, n) /\ written' = << >>
          /\ asserts' = asserts /\ aborted' = aborted
      BY <1>4, <2>2 DEF DoPrepare
    <3>2. Kept(storage, storage') /\ AreaInv'
      BY <3>1, PrepareStep
    <3> QED BY <1>1, <3>1, <3>2 DEF StorageInv, Kept
  <2> QED BY <2>1, <2>2
<1>5. ASSUME NEW row \in Rows, DoWrite(row)
      PROVE  StorageInv' /\ Extends(storage, storage')
  <2>1. Kept(storage, storage') /\ AreaInv'
    BY <1>5, WriteStep DEF DoWrite
  <2> QED BY <1>1, <1>5, <2>1 DEF StorageInv, Kept, DoWrite
<1>6. ASSUME NEW q \in 0 .. Len(written), DoCommit(q)
      PROVE  StorageInv' /\ Extends(storage, storage')
  <2>1. CASE Aborts
    BY <1>3, <2>1
  <2>2. CASE ~Aborts
    <3>1. /\ area # NoArea /\ storage' = Commit(storage, q) /\ area' = NoArea /\ written' = << >>
          /\ asserts' = asserts /\ aborted' = aborted
      BY <1>6, <2>2 DEF DoCommit
    <3>2. /\ StorageOK(storage') /\ Extends(storage, storage')
          /\ CommittedCellsAreRows(storage') /\ AreaInv'
      BY <3>1, CommitStep
    <3> QED BY <1>1, <3>1, <3>2 DEF StorageInv
  <2> QED BY <2>1, <2>2
<1>7. ASSUME DoDrop PROVE StorageInv' /\ storage' = FreshStorage
  <2>1. AreaInv'
    BY <1>7 DEF DoDrop, AreaInv, NoArea, Areas
  <2> QED BY <1>7, <2>1, FreshStorageIsOK DEF StorageInv, DoDrop
<1>8. CASE UNCHANGED vars
  BY <1>2, <1>1, <1>8 DEF vars, StorageInv
<1> QED BY <1>4, <1>5, <1>6, <1>7, <1>8 DEF Next

LEMMA StorageInvHolds == Spec => []StorageInv
<1>1. StorageInv /\ [Next]_vars => StorageInv'
  BY StepIsSound
<1> QED BY <1>1, InitEstablishes, PTL DEF Spec

LEMMA MemoryStepIsAStep == [MemoryNext]_<<vars, memoryVars>> => [Next]_vars
BY DEF MemoryNext, MemoryPrepare, MemoryWrite, MemoryCommit, MemoryDrop, Next, vars, memoryVars

(* The storage with the bytes of its chunks takes only the steps of the    *)
(* storage: what is proved below of Spec holds of what the runs look at.   *)
THEOREM MemoryImplementsStorage == MemorySpec => Spec
<1>1. MemoryInit => Init
  BY DEF MemoryInit
<1> QED BY <1>1, MemoryStepIsAStep, PTL DEF MemorySpec, Spec

-----------------------------------------------------------------------------
LEMMA InvGivesTypes == StorageInv => TypeOK
<1> SUFFICES ASSUME StorageInv PROVE TypeOK
  OBVIOUS
<1>1. StorageType(storage)
  BY DEF StorageInv, StorageOK, IndexOK
<1>2. /\ storage.chunk_store_ \in Seq(Chunks)
      /\ storage.chunk_index_ \in Seq(IndexRanges)
      /\ storage.row_count_ \in Nat
      /\ Len(storage.chunk_store_) = Len(storage.chunk_index_)
      /\ storage = [chunk_store_ |-> storage.chunk_store_,
                    chunk_index_ |-> storage.chunk_index_,
                    row_count_   |-> storage.row_count_]
  BY <1>1 DEF StorageType
<1>3. ASSUME NEW k \in DOMAIN storage.chunk_store_
      PROVE  IsChunk(storage.chunk_store_[k])
  <2>1. storage.chunk_store_[k] \in Chunks
    BY <1>2, ElementOfSeq, LenProperties
  <2> QED BY <2>1, ChunkParts DEF IsChunk, Cells
<1>4. storage.chunk_index_ \in Seq(Ranges)
  BY <1>2 DEF Ranges, IndexRanges
<1> QED BY <1>2, <1>3, <1>4 DEF TypeOK, StorageInv, AreaInv

(* Every part keeps its type: a chunk has no more rows than places, and as *)
(* many places as its buffers (compact_row_storage.hpp:35).                *)
THEOREM StorageIsTyped == Spec => []TypeOK
BY StorageInvHolds, InvGivesTypes, PTL

LEMMA RowOfStorage ==
    ASSUME NEW st, StorageOK(st), CommittedCellsAreRows(st), NEW row \in 1 .. st.row_count_
    PROVE  \E k \in 1 .. Len(st.chunk_index_) :
                /\ Holds(st, k, row)
                /\ FindChunk(st, row) = {k}
                /\ (row - st.chunk_index_[k].first_row) + 1 <= st.chunk_store_[k].row_count
                /\ ValueAt(st, k, row) \in Rows
                /\ GetValue(st, row) = ValueAt(st, k, row)
<1>1. IndexOK(st) /\ st.row_count_ \in Nat /\ row \in Nat
  BY StorageParts DEF StorageOK, IndexOK
<1>2. PICK k \in 1 .. Len(st.chunk_index_) : Holds(st, k, row)
  BY DEF StorageOK, RowsAreHeld
<1> DEFINE i == (row - st.chunk_index_[k].first_row) + 1
<1>3. /\ FindChunk(st, row) = {k}
      /\ ValueAt(st, k, row) = st.chunk_store_[k].data[i]
      /\ GetValue(st, row) = st.chunk_store_[k].data[i]
  <2>1. Holds(st, k, row) /\ row \in Nat /\ IndexOK(st)
    BY <1>1, <1>2
  <2> QED BY <2>1, HeldRowIsFound
<1>4. /\ st.chunk_index_[k].first_row \in Nat /\ st.chunk_store_[k].row_count \in Nat
      /\ Len(st.chunk_store_) = Len(st.chunk_index_)
  BY <1>1, StorageParts, ChunkParts DEF IndexOK
<1>5. i \in 1 .. st.chunk_store_[k].row_count /\ i <= st.chunk_store_[k].row_count
  <2> DEFINE first == st.chunk_index_[k].first_row
             rows == st.chunk_store_[k].row_count
  <2>1. row \in Nat /\ first \in Nat /\ rows \in Nat /\ row >= first /\ (row - first) + 1 <= rows
    BY <1>1, <1>2, <1>4 DEF Holds, Contains
  <2> HIDE DEF first, rows
  <2>2. (row - first) + 1 \in 1 .. rows /\ (row - first) + 1 <= rows
    BY <2>1
  <2> QED BY <2>2 DEF first, rows
<1>6. st.chunk_store_[k].data[i] \in Rows
  BY <1>4, <1>5 DEF CommittedCellsAreRows
<1> HIDE DEF i
<1>7. /\ Holds(st, k, row) /\ FindChunk(st, row) = {k}
      /\ i <= st.chunk_store_[k].row_count
      /\ ValueAt(st, k, row) \in Rows
      /\ GetValue(st, row) = ValueAt(st, k, row)
  BY <1>2, <1>3, <1>5, <1>6
<1> QED BY <1>7, Zenon DEF i

LEMMA InvFindsRows == StorageInv => EveryRowIsFound
<1> SUFFICES ASSUME StorageInv PROVE EveryRowIsFound
  OBVIOUS
<1>1. StorageOK(storage) /\ IndexOK(storage) /\ CommittedCellsAreRows(storage)
  BY DEF StorageInv, StorageOK
<1>2. \A k \in 1 .. Len(storage.chunk_index_) : storage.chunk_index_[k].chunk = k
  BY <1>1 DEF IndexOK, IndexDescribesChunks
<1>3. RangesAreInOrder
  BY <1>1, <1>2 DEF RangesAreInOrder, IndexOK, IndexInOrder
<1>4. ASSUME NEW row \in 1 .. storage.row_count_
      PROVE  \E k \in 1 .. Len(storage.chunk_index_) :
                /\ FindChunk(storage, row) = {k}
                /\ (row - storage.chunk_index_[k].first_row) + 1
                        <= storage.chunk_store_[storage.chunk_index_[k].chunk].row_count
                /\ ValueAt(storage, k, row) \in Rows
  <2>1. PICK k \in 1 .. Len(storage.chunk_index_) :
            /\ FindChunk(storage, row) = {k}
            /\ (row - storage.chunk_index_[k].first_row) + 1 <= storage.chunk_store_[k].row_count
            /\ ValueAt(storage, k, row) \in Rows
    BY <1>1, RowOfStorage
  <2> QED BY <1>2, <2>1
<1> QED BY <1>3, <1>4 DEF EveryRowIsFound

(* get_value() finds every stored row: the binary search ends at the one   *)
(* range that holds it, in a chunk where it is committed, and reads a row. *)
THEOREM StoredRowsAreFound == Spec => []EveryRowIsFound
BY StorageInvHolds, InvFindsRows, PTL

LEMMA InvFreesArea == StorageInv => AreaIsFreeSpace
<1> SUFFICES ASSUME StorageInv, area # NoArea PROVE AreaIsFreeSpace
  BY DEF AreaIsFreeSpace
<1>1. /\ area \in [chunk : Nat, first : Nat, rows : Nat \ {0}]
      /\ area.chunk = Last(storage)
      /\ area.first = LastChunk(storage).row_count + 1
      /\ area.first + area.rows - 1 <= LastChunk(storage).size
  BY DEF StorageInv, AreaInv, IsPrepared
<1>2. LastChunk(storage).row_count \in Nat
  BY LastChunkParts, ChunkParts DEF StorageInv, StorageOK, IndexOK
<1>3. LastChunk(storage) = storage.chunk_store_[area.chunk]
  BY <1>1 DEF LastChunk
<1>4. area.rows > 0 /\ area.first > LastChunk(storage).row_count
  BY <1>1, <1>2
<1> QED BY <1>1, <1>3, <1>4 DEF AreaIsFreeSpace

(* What prepare() hands out has room for a row at least, behind the        *)
(* committed rows and inside the buffers of its chunk.                     *)
THEOREM AreasAreFreeSpace == Spec => []AreaIsFreeSpace
BY StorageInvHolds, InvFreesArea, PTL

-----------------------------------------------------------------------------
(* The storage implements the log of its rows.                             *)

LEMMA StoredRowsAreRows ==
    ASSUME NEW st, StorageOK(st), CommittedCellsAreRows(st)
    PROVE  StoredRows(st) \in Seq(Rows) /\ Len(StoredRows(st)) = st.row_count_
<1>1. st.row_count_ \in Nat
  BY StorageParts DEF StorageOK, IndexOK
<1>2. \A row \in 1 .. st.row_count_ : GetValue(st, row) \in Rows
  BY RowOfStorage
<1> QED BY <1>1, <1>2, IsASeq DEF StoredRows

LEMMA ExtensionExtendsLog ==
    ASSUME NEW st, NEW st2, StorageOK(st), CommittedCellsAreRows(st),
           StorageOK(st2), CommittedCellsAreRows(st2), Extends(st, st2)
    PROVE  /\ StoredRows(st2) \in Seq(Rows)
           /\ Len(StoredRows(st2)) >= Len(StoredRows(st))
           /\ \A row \in 1 .. Len(StoredRows(st)) :
                StoredRows(st2)[row] = StoredRows(st)[row]
<1>1. /\ StoredRows(st2) \in Seq(Rows)
      /\ Len(StoredRows(st2)) = st2.row_count_ /\ Len(StoredRows(st)) = st.row_count_
      /\ st.row_count_ \in Nat /\ st2.row_count_ \in Nat
      /\ st2.row_count_ >= st.row_count_
  BY StoredRowsAreRows, StorageParts DEF StorageOK, IndexOK, Extends
<1>2. ASSUME NEW row \in 1 .. st.row_count_
      PROVE  StoredRows(st2)[row] = StoredRows(st)[row]
  <2>1. row \in Nat /\ row \in 1 .. st2.row_count_ /\ IndexOK(st) /\ IndexOK(st2)
    BY <1>1 DEF StorageOK
  <2>2. PICK k \in 1 .. Len(st.chunk_index_) : Holds(st, k, row)
    BY DEF StorageOK, RowsAreHeld
  <2>3. GetValue(st2, row) = GetValue(st, row)
    BY <2>1, <2>2, ExtensionKeepsRows
  <2> QED BY <2>1, <2>3 DEF StoredRows
<1> QED BY <1>1, <1>2

LEMMA FreshLogIsEmpty == StoredRows(FreshStorage) = << >>
<1>1. FreshStorage.row_count_ = 0
  BY DEF FreshStorage
<1>2. Len(StoredRows(FreshStorage)) = 0 /\ StoredRows(FreshStorage) \in Seq(Rows)
  BY <1>1, FreshStorageIsOK, StoredRowsAreRows
<1> QED BY <1>2, EmptySeq

LEMMA StepExtendsLog == StorageInv /\ [Next]_vars => [RL!Next]_(StoredRows(storage))
<1> SUFFICES ASSUME StorageInv, [Next]_vars PROVE RL!Next
  OBVIOUS
<1>1. StorageInv' /\ (storage' = FreshStorage \/ Extends(storage, storage'))
  BY StepIsSound
<1>2. CASE storage' = FreshStorage
  BY <1>2, FreshLogIsEmpty DEF RL!Next, RL!Drop
<1>3. CASE Extends(storage, storage')
  <2>1. /\ StorageOK(storage) /\ CommittedCellsAreRows(storage)
        /\ StorageOK(storage') /\ CommittedCellsAreRows(storage')
    BY <1>1 DEF StorageInv
  <2>2. /\ StoredRows(storage') \in Seq(Rows)
        /\ Len(StoredRows(storage')) >= Len(StoredRows(storage))
        /\ \A row \in 1 .. Len(StoredRows(storage)) :
                StoredRows(storage')[row] = StoredRows(storage)[row]
    BY <1>3, <2>1, ExtensionExtendsLog
  <2> QED BY <2>2 DEF RL!Next, RL!AppendBatch
<1> QED BY <1>1, <1>2, <1>3

(* What was committed is read back unchanged, whatever is prepared,        *)
(* written and committed behind it, until drop() empties the storage.      *)
THEOREM StorageIsRowLog == Spec => IsRowLog
<1>1. Init => RL!Init
  BY FreshLogIsEmpty DEF Init, RL!Init
<1> QED BY <1>1, StorageInvHolds, StepExtendsLog, PTL DEF Spec, IsRowLog, RL!Spec

-----------------------------------------------------------------------------
(* Where the cells of a chunk lie in its buffers.                          *)

(* Induction over the naturals, for a set of them.                         *)
LEMMA NatSetInduction ==
    ASSUME NEW S, 0 \in S, \A n \in Nat : n \in S => n + 1 \in S
    PROVE  \A n \in Nat : n \in S
<1> SUFFICES ASSUME NEW m \in Nat, m \notin S PROVE FALSE
  OBVIOUS
<1> DEFINE T == {n \in Nat : n \notin S}
<1>1. T \subseteq Nat /\ T # {}
  OBVIOUS
<1> HIDE DEF T
<1>2. PICK x \in T : \A y \in T : ~ (<<y, x>> \in OpToRel(<, Nat))
  BY <1>1, NatLessThanWellFounded, WFMin
<1>3. x \in Nat /\ x \notin S
  BY DEF T
<1>4. x # 0 /\ x - 1 \in Nat /\ (x - 1) + 1 = x /\ x - 1 < x
  BY <1>3
<1>5. x - 1 \notin S
  BY <1>3, <1>4
<1>6. x - 1 \in T
  BY <1>4, <1>5 DEF T
<1>7. <<x - 1, x>> \in OpToRel(<, Nat)
  BY <1>3, <1>4 DEF OpToRel
<1> QED BY <1>2, <1>6, <1>7

LEMMA Products ==
    ASSUME NEW r \in Nat, NEW s \in Nat, NEW w \in Nat, r < s
    PROVE  r * w + w <= s * w /\ r * w \in Nat /\ s * w \in Nat
<1>1. PICK d \in Nat : s = r + 1 + d
  <2>1. s - r - 1 \in Nat /\ s = r + 1 + (s - r - 1)
    OBVIOUS
  <2> QED BY <2>1
<1>2. s * w = r * w + w + d * w
  BY <1>1
<1>3. d * w \in Nat /\ r * w \in Nat /\ s * w \in Nat
  OBVIOUS
<1> QED BY <1>2, <1>3

(* The columns before each, counted one by one.                            *)
Step(cols, quantity, bytes, x) ==
    IF x = 1 THEN 0 ELSE bytes[x - 1] + get_column_size(cols[x - 1]) * quantity

AddsUp(cols, quantity, n, bytes) ==
    /\ bytes \in [1 .. n + 1 -> Nat]
    /\ \A x \in 1 .. n + 1 : bytes[x] = Step(cols, quantity, bytes, x)

LEMMA SomethingAddsUp ==
    ASSUME NEW cols, NEW quantity \in Nat, NEW len \in Nat,
           \A x \in 1 .. len : get_column_size(cols[x]) \in Nat
    PROVE  \E bytes : AddsUp(cols, quantity, len, bytes)
<1> DEFINE S == {n \in Nat : n <= len => \E bytes : AddsUp(cols, quantity, n, bytes)}
<1>1. 0 \in S
  <2>1. AddsUp(cols, quantity, 0, [x \in 1 .. 1 |-> 0])
    BY DEF AddsUp, Step
  <2> QED BY <2>1
<1>2. ASSUME NEW n \in Nat, n \in S PROVE n + 1 \in S
  <2> SUFFICES ASSUME n + 1 <= len PROVE \E bytes : AddsUp(cols, quantity, n + 1, bytes)
    OBVIOUS
  <2>1. PICK before : AddsUp(cols, quantity, n, before)
    BY <1>2
  <2> DEFINE width == get_column_size(cols[n + 1])
             more == width * quantity
             after == [x \in 1 .. n + 2 |-> IF x = n + 2 THEN before[n + 1] + more ELSE before[x]]
  <2>2. width \in Nat /\ more \in Nat
    OBVIOUS
  <2>3. before \in [1 .. n + 1 -> Nat]
    BY <2>1 DEF AddsUp
  <2>4. after \in [1 .. n + 2 -> Nat]
    <3> HIDE DEF more
    <3> QED BY <2>2, <2>3
  <2>5. ASSUME NEW x \in 1 .. n + 2 PROVE after[x] = Step(cols, quantity, after, x)
    <3>1. CASE x = n + 2
      <4>1. /\ x - 1 = n + 1 /\ x # 1 /\ after[x - 1] = before[n + 1]
            /\ after[x] = before[n + 1] + more
        BY <3>1
      <4> QED BY <4>1 DEF Step
    <3>2. CASE x # n + 2
      <4>1. x \in 1 .. n + 1 /\ after[x] = before[x] /\ (x # 1 => after[x - 1] = before[x - 1])
        BY <3>2
      <4>2. before[x] = Step(cols, quantity, before, x)
        BY <2>1, <4>1 DEF AddsUp
      <4> HIDE DEF after
      <4> QED BY <4>1, <4>2 DEF Step
    <3> QED BY <3>1, <3>2
  <2> HIDE DEF after
  <2>6. AddsUp(cols, quantity, n + 1, after)
    BY <2>4, <2>5 DEF AddsUp
  <2> QED BY <2>6
<1> HIDE DEF S
<1>3. len \in S
  BY <1>1, <1>2, NatSetInduction
<1> QED BY <1>3 DEF S

LEMMA BytesBeforeAddsUp ==
    ASSUME NEW cols, NEW quantity \in Nat, Len(cols) \in Nat,
           \A x \in 1 .. Len(cols) : get_column_size(cols[x]) \in Nat
    PROVE  AddsUp(cols, quantity, Len(cols), BytesBefore(cols, quantity))
<1> DEFINE len == Len(cols)
           Def(f) == [x \in 1 .. len + 1 |->
                        IF x = 1 THEN 0 ELSE f[x - 1] + get_column_size(cols[x - 1]) * quantity]
<1>1. PICK bytes : AddsUp(cols, quantity, len, bytes)
  BY SomethingAddsUp
<1>2. bytes = Def(bytes)
  BY <1>1 DEF AddsUp, Step
<1>3. BytesBefore(cols, quantity) = CHOOSE f : f = Def(f)
  BY DEF BytesBefore
<1>4. BytesBefore(cols, quantity) = Def(BytesBefore(cols, quantity))
  <2> HIDE DEF Def
  <2> QED BY <1>2, <1>3
<1> DEFINE before == BytesBefore(cols, quantity)
<1>5. \A x \in 1 .. len + 1 : before[x] = Step(cols, quantity, before, x)
  <2> HIDE DEF before
  <2> SUFFICES ASSUME NEW x \in 1 .. len + 1 PROVE before[x] = Step(cols, quantity, before, x)
    OBVIOUS
  <2>1. before = Def(before)
    BY <1>4 DEF before
  <2>2. before[x] = Def(before)[x]
    BY <2>1
  <2> QED BY <2>2 DEF Step
<1> HIDE DEF before
<1>6. before = [x \in 1 .. len + 1 |-> before[x]]
  BY <1>4 DEF before
<1> DEFINE S == {n \in Nat : n <= len => before[n + 1] \in Nat}
<1>7. 0 \in S
  BY <1>5 DEF Step
<1>8. ASSUME NEW n \in Nat, n \in S PROVE n + 1 \in S
  <2> SUFFICES ASSUME n + 1 <= len PROVE before[n + 2] \in Nat
    OBVIOUS
  <2>1. before[n + 1] \in Nat
    BY <1>8
  <2> DEFINE more == get_column_size(cols[n + 1]) * quantity
  <2>2. more \in Nat
    OBVIOUS
  <2>3. (n + 2) - 1 = n + 1 /\ n + 2 # 1 /\ n + 2 \in 1 .. len + 1
    OBVIOUS
  <2>4. before[n + 2] = before[n + 1] + more
    BY <1>5, <2>3 DEF Step
  <2> HIDE DEF more
  <2> QED BY <2>1, <2>2, <2>4
<1> HIDE DEF S
<1>9. \A n \in Nat : n \in S
  BY <1>7, <1>8, NatSetInduction
<1>10. \A x \in 1 .. len + 1 : before[x] \in Nat
  <2> SUFFICES ASSUME NEW x \in 1 .. len + 1 PROVE before[x] \in Nat
    OBVIOUS
  <2>1. x - 1 \in Nat /\ (x - 1) + 1 = x /\ x - 1 <= len
    OBVIOUS
  <2> QED BY <1>9, <2>1 DEF S
<1>11. before \in [1 .. len + 1 -> Nat]
  BY <1>6, <1>10
<1> QED BY <1>5, <1>11 DEF AddsUp, before

(* Columns as SQLDescribeCol tells of them, of a type that has a C type.   *)
IsColumn(col) ==
    /\ col \in [sql_type : STRING, byte_len : Nat]
    /\ col.sql_type \in DOMAIN sql_type_to_c_type

TextTypes == {"SQL_CHAR", "SQL_VARCHAR"}
FixedTypes ==
    {"SQL_BIT", "SQL_TINYINT", "SQL_SMALLINT", "SQL_INTEGER", "SQL_BIGINT", "SQL_REAL",
     "SQL_DOUBLE", "SQL_FLOAT", "SQL_TYPE_DATE", "SQL_SS_TIME", "SQL_TYPE_TIMESTAMP",
     "SQL_DECIMAL"}

LEMMA KnownTypes ==
    DOMAIN sql_type_to_c_type = FixedTypes \cup TextTypes \cup {"SQL_WCHAR", "SQL_BINARY"}
BY DEF sql_type_to_c_type, FixedTypes, TextTypes

LEMMA FixedColumnParts ==
    ASSUME NEW col, IsColumn(col), col.sql_type \in FixedTypes
    PROVE  /\ IsFixed(col) /\ to_c_type(col) # "BINARY"
           /\ get_column_size(col) \in 1 .. 19
           /\ FixedLength[to_c_type(col)] = get_column_size(col)
           /\ sql_type_to_c_size_and_alignment[col.sql_type][1] = get_column_size(col)
BY DEF IsColumn, FixedTypes, IsFixed, to_c_type, get_column_size, FixedLength,
       sql_type_to_c_type, sql_type_to_c_size_and_alignment

LEMMA OtherColumnParts ==
    ASSUME NEW col, IsColumn(col)
    PROVE  /\ col.sql_type = "SQL_CHAR" =>
                ~IsFixed(col) /\ to_c_type(col) = "CHAR" /\ get_column_size(col) = 1
           /\ col.sql_type = "SQL_VARCHAR" =>
                ~IsFixed(col) /\ to_c_type(col) = "CHAR" /\ get_column_size(col) = col.byte_len + 1
           /\ col.sql_type = "SQL_WCHAR" =>
                ~IsFixed(col) /\ to_c_type(col) = "WCHAR" /\ get_column_size(col) = 2
           /\ col.sql_type = "SQL_BINARY" =>
                ~IsFixed(col) /\ to_c_type(col) = "BINARY" /\ get_column_size(col) = col.byte_len + 1
BY DEF IsFixed, to_c_type, get_column_size, FixedLength,
       sql_type_to_c_type, sql_type_to_c_size_and_alignment

LEMMA ColumnsHaveWidth ==
    ASSUME NEW col, IsColumn(col)
    PROVE  get_column_size(col) \in Nat \ {0} /\ col.byte_len \in Nat
<1>1. col.byte_len \in Nat
  BY DEF IsColumn
<1>2. CASE col.sql_type \in FixedTypes
  BY <1>1, <1>2, FixedColumnParts
<1>3. CASE col.sql_type \notin FixedTypes
  <2>1. col.sql_type \in {"SQL_CHAR", "SQL_VARCHAR", "SQL_WCHAR", "SQL_BINARY"}
    BY <1>3, KnownTypes DEF IsColumn, TextTypes
  <2> QED BY <1>1, <2>1, OtherColumnParts
<1> QED BY <1>2, <1>3

(* The columns of a chunk lie one behind the other.                        *)
AreColumns(cols) == Len(cols) \in Nat /\ \A x \in 1 .. Len(cols) : IsColumn(cols[x])

EndOf(cols, size, x) == ColumnBegin(cols, size, x) + size * get_column_size(cols[x])

LEMMA ColumnsAddUp ==
    ASSUME NEW cols, AreColumns(cols), NEW size \in Nat
    PROVE  /\ \A x \in 1 .. Len(cols) + 1 : ColumnBegin(cols, size, x) \in Nat
           /\ \A x \in 1 .. Len(cols) : ColumnBegin(cols, size, x + 1) = EndOf(cols, size, x)
           /\ calculate_data_size(cols, size) = ColumnBegin(cols, size, Len(cols) + 1)
           /\ ColumnBegin(cols, size, 1) = 0
<1> DEFINE before == BytesBefore(cols, size)
<1>1. AddsUp(cols, size, Len(cols), before) /\ Len(cols) \in Nat
  BY ColumnsHaveWidth, BytesBeforeAddsUp DEF AreColumns
<1> HIDE DEF before
<1>2. \A x \in 1 .. Len(cols) + 1 : before[x] \in Nat
  BY <1>1 DEF AddsUp
<1>3. ASSUME NEW x \in 1 .. Len(cols)
      PROVE  before[x + 1] = before[x] + size * get_column_size(cols[x])
  <2>1. x + 1 \in 1 .. Len(cols) + 1 /\ x + 1 # 1 /\ (x + 1) - 1 = x
    BY <1>1
  <2>2. before[x + 1] = Step(cols, size, before, x + 1)
    BY <1>1, <2>1 DEF AddsUp
  <2>3. get_column_size(cols[x]) \in Nat
    BY ColumnsHaveWidth DEF AreColumns
  <2>4. get_column_size(cols[x]) * size = size * get_column_size(cols[x])
    BY <2>3
  <2> QED BY <2>1, <2>2, <2>4 DEF Step
<1>4. before[1] = 0
  BY <1>1 DEF AddsUp, Step
<1> QED BY <1>2, <1>3, <1>4 DEF before, ColumnBegin, EndOf, calculate_data_size

LEMMA ColumnsLieApart ==
    ASSUME NEW cols, AreColumns(cols), NEW size \in Nat, NEW x \in 1 .. Len(cols)
    PROVE  \A y \in x + 1 .. Len(cols) + 1 : EndOf(cols, size, x) <= ColumnBegin(cols, size, y)
<1> DEFINE B(y) == ColumnBegin(cols, size, y)
           end == EndOf(cols, size, x)
           len == Len(cols)
           S == {n \in Nat : x + 1 + n <= len + 1 => end <= B(x + 1 + n)}
<1>1. /\ len \in Nat /\ x \in Nat
      /\ \A y \in 1 .. len + 1 : B(y) \in Nat
      /\ \A y \in 1 .. len : B(y + 1) = B(y) + size * get_column_size(cols[y])
      /\ B(x + 1) = end
  BY ColumnsAddUp DEF AreColumns, EndOf
<1>2. \A y \in 1 .. len : get_column_size(cols[y]) \in Nat
  BY ColumnsHaveWidth DEF AreColumns
<1> HIDE DEF end, B, len
<1>3. 0 \in S
  BY <1>1
<1>4. ASSUME NEW n \in Nat, n \in S PROVE n + 1 \in S
  <2> SUFFICES ASSUME x + 1 + (n + 1) <= len + 1 PROVE end <= B(x + 1 + (n + 1))
    OBVIOUS
  <2> DEFINE y == x + 1 + n
             more == size * get_column_size(cols[y])
  <2>1. y \in 1 .. len /\ y + 1 = x + 1 + (n + 1) /\ end <= B(y)
    BY <1>1, <1>4
  <2>2. more \in Nat /\ B(y) \in Nat /\ B(y + 1) \in Nat /\ B(x + 1) \in Nat
    <3>1. get_column_size(cols[y]) \in Nat
      BY <1>2, <2>1
    <3>2. more \in Nat
      BY <3>1
    <3> QED BY <1>1, <2>1, <3>2
  <2>3. B(y + 1) = B(y) + more
    BY <1>1, <2>1
  <2>4. end <= B(y + 1)
    <3> HIDE DEF more, y
    <3>1. end \in Nat /\ end <= B(y)
      BY <1>1, <2>1, <2>2
    <3> QED BY <2>2, <2>3, <3>1
  <2> HIDE DEF y
  <2> QED BY <2>1, <2>4
<1> HIDE DEF S
<1>5. \A n \in Nat : n \in S
  BY <1>3, <1>4, NatSetInduction
<1>6. ASSUME NEW y \in x + 1 .. len + 1 PROVE end <= B(y)
  <2>1. PICK n \in Nat : x + 1 + n = y
    <3>1. y - (x + 1) \in Nat /\ x + 1 + (y - (x + 1)) = y
      BY <1>1
    <3> QED BY <3>1
  <2>2. x + 1 + n <= len + 1 => end <= B(x + 1 + n)
    BY <1>5 DEF S
  <2>3. y <= len + 1
    BY <1>1
  <2> QED BY <2>1, <2>2, <2>3
<1> QED BY <1>6 DEF end, B, len

(* Two cells lie apart, and every cell lies inside the buffers.            *)
Width(cols, x) == get_column_size(cols[x])

LiesInside(cols, size, cell, x) ==
    /\ cell.data \in Nat /\ cell.data + Width(cols, x) <= calculate_data_size(cols, size)
    /\ cell.indicator \in Nat /\ cell.indicator < Len(cols) * size

LieApart(cols, cell, x, other, y) ==
    /\ \/ cell.data + Width(cols, x) <= other.data
       \/ other.data + Width(cols, y) <= cell.data
    /\ cell.indicator # other.indicator

LEMMA CellInItsColumn ==
    ASSUME NEW cols, AreColumns(cols), NEW size \in Nat, NEW i \in 1 .. size,
           NEW x \in 1 .. Len(cols)
    PROVE  /\ CellAt(cols, size, i, x).data \in Nat
           /\ CellAt(cols, size, i, x).data >= ColumnBegin(cols, size, x)
           /\ CellAt(cols, size, i, x).data + Width(cols, x) <= EndOf(cols, size, x)
           /\ Width(cols, x) \in Nat \ {0}
           /\ EndOf(cols, size, x) \in Nat /\ ColumnBegin(cols, size, x) \in Nat
           /\ CellAt(cols, size, i, x).indicator \in Nat
           /\ (x - 1) * size <= CellAt(cols, size, i, x).indicator
           /\ CellAt(cols, size, i, x).indicator < (x - 1) * size + size
<1> DEFINE w == Width(cols, x)
           begin == ColumnBegin(cols, size, x)
           before == (i - 1) * w
           all == size * w
           ind == (x - 1) * size
<1>1. w \in Nat \ {0} /\ begin \in Nat /\ Len(cols) \in Nat
  <2>1. Len(cols) \in Nat /\ IsColumn(cols[x]) /\ x \in 1 .. Len(cols) + 1
    BY DEF AreColumns
  <2>2. w \in Nat \ {0}
    BY <2>1, ColumnsHaveWidth DEF Width
  <2>3. begin \in Nat
    BY <2>1, ColumnsAddUp
  <2> QED BY <2>1, <2>2, <2>3
<1>2. i - 1 \in Nat /\ i - 1 < size /\ x - 1 \in Nat
  BY <1>1
<1>3. before + w <= all /\ before \in Nat /\ all \in Nat
  BY <1>1, <1>2, Products
<1>4. ind \in Nat
  BY <1>2
<1>5. /\ CellAt(cols, size, i, x).data = begin + before
      /\ CellAt(cols, size, i, x).indicator = ind + (i - 1)
      /\ EndOf(cols, size, x) = begin + all
  BY DEF CellAt, EndOf, Width, IndicatorBegin
<1> HIDE DEF before, all, ind, w, begin
<1>6. begin + before >= begin /\ begin + before + w <= begin + all
      /\ ind <= ind + (i - 1) /\ ind + (i - 1) < ind + size
      /\ begin + before \in Nat /\ begin + all \in Nat /\ ind + (i - 1) \in Nat
  BY <1>1, <1>2, <1>3, <1>4
<1> QED BY <1>1, <1>5, <1>6 DEF w, begin, ind

LEMMA ColumnEndsInside ==
    ASSUME NEW cols, AreColumns(cols), NEW size \in Nat, NEW x \in 1 .. Len(cols)
    PROVE  /\ EndOf(cols, size, x) <= calculate_data_size(cols, size)
           /\ calculate_data_size(cols, size) \in Nat
<1>1. Len(cols) \in Nat /\ Len(cols) + 1 \in x + 1 .. Len(cols) + 1
                     /\ Len(cols) + 1 \in 1 .. Len(cols) + 1
  BY DEF AreColumns
<1>2. calculate_data_size(cols, size) = ColumnBegin(cols, size, Len(cols) + 1)
  BY ColumnsAddUp
<1>3. ColumnBegin(cols, size, Len(cols) + 1) \in Nat
  BY <1>1, ColumnsAddUp
<1>4. EndOf(cols, size, x) <= ColumnBegin(cols, size, Len(cols) + 1)
  BY <1>1, ColumnsLieApart
<1> QED BY <1>2, <1>3, <1>4

LEMMA CellLiesInside ==
    ASSUME NEW cols, AreColumns(cols), NEW size \in Nat, NEW i \in 1 .. size,
           NEW x \in 1 .. Len(cols)
    PROVE  LiesInside(cols, size, CellAt(cols, size, i, x), x)
<1> DEFINE cell == CellAt(cols, size, i, x)
           len == Len(cols)
           total == calculate_data_size(cols, size)
           end == EndOf(cols, size, x)
           w == Width(cols, x)
           ind == (x - 1) * size
           inds == len * size
<1>1. len \in Nat /\ x \in Nat /\ x - 1 \in Nat /\ x - 1 < len /\ len + 1 \in x + 1 .. len + 1
  BY DEF AreColumns
<1>2. end <= total /\ total \in Nat
  BY ColumnEndsInside
<1>3. /\ cell.data \in Nat /\ cell.data + w <= end /\ end \in Nat /\ w \in Nat
      /\ cell.indicator \in Nat /\ cell.indicator < ind + size
  BY CellInItsColumn
<1>4. ind + size <= inds /\ ind \in Nat /\ inds \in Nat
  BY <1>1, Products
<1> HIDE DEF cell, total, end, w, ind, inds
<1>5. cell.data + w <= total /\ cell.indicator < inds
  BY <1>2, <1>3, <1>4
<1> QED BY <1>3, <1>5 DEF LiesInside, cell, total, w, inds, len

LEMMA LaterCellLiesBehind ==
    ASSUME NEW cols, AreColumns(cols), NEW size \in Nat,
           NEW i \in 1 .. size, NEW x \in 1 .. Len(cols),
           NEW j \in 1 .. size, NEW y \in 1 .. Len(cols),
           x < y \/ (x = y /\ i < j)
    PROVE  /\ CellAt(cols, size, i, x).data + Width(cols, x) <= CellAt(cols, size, j, y).data
           /\ CellAt(cols, size, i, x).indicator < CellAt(cols, size, j, y).indicator
<1> DEFINE cell == CellAt(cols, size, i, x)
           other == CellAt(cols, size, j, y)
           w == Width(cols, x)
<1>1. Len(cols) \in Nat /\ x \in Nat /\ y \in Nat
  BY DEF AreColumns
<1>2. CASE x < y
  <2> DEFINE end == EndOf(cols, size, x)
             begin == ColumnBegin(cols, size, y)
             ind == (x - 1) * size
             ind2 == (y - 1) * size
  <2>1. end <= begin
    BY <1>1, <1>2, ColumnsLieApart
  <2>2. /\ cell.data \in Nat /\ cell.data + w <= end /\ end \in Nat /\ w \in Nat
        /\ cell.indicator \in Nat /\ cell.indicator < ind + size
    BY CellInItsColumn
  <2>3. /\ other.data \in Nat /\ begin <= other.data /\ begin \in Nat
        /\ other.indicator \in Nat /\ ind2 <= other.indicator
    BY CellInItsColumn
  <2>4. ind + size <= ind2 /\ ind \in Nat /\ ind2 \in Nat
    BY <1>1, <1>2, Products
  <2> HIDE DEF cell, other, w, end, begin, ind, ind2
  <2>5. cell.data + w <= other.data
    <3> DEFINE a == cell.data
               b == other.data
    <3>1. a \in Nat /\ w \in Nat /\ b \in Nat /\ end \in Nat /\ begin \in Nat
      BY <2>2, <2>3
    <3>2. a + w <= end /\ end <= begin /\ begin <= b
      BY <2>1, <2>2, <2>3
    <3> HIDE DEF a, b
    <3>3. a + w <= b
      BY <3>1, <3>2
    <3> QED BY <3>3 DEF a, b
  <2>6. cell.indicator < other.indicator
    BY <1>1, <2>2, <2>3, <2>4
  <2> QED BY <2>5, <2>6 DEF cell, other, w
<1>3. CASE x = y /\ i < j
  <2> DEFINE begin == ColumnBegin(cols, size, x)
             r == (i - 1) * w
             s == (j - 1) * w
             ind == (x - 1) * size
  <2>1. begin \in Nat /\ w \in Nat
    BY CellInItsColumn
  <2>2. r + w <= s /\ r \in Nat /\ s \in Nat
    BY <1>3, <2>1, Products
  <2>3. ind \in Nat
    BY <1>1
  <2>4. /\ cell.data = begin + r /\ cell.indicator = ind + (i - 1)
        /\ other.data = begin + s /\ other.indicator = ind + (j - 1)
    BY <1>3 DEF CellAt, IndicatorBegin, Width
  <2> HIDE DEF cell, other, w, begin, r, s, ind
  <2>5. cell.data + w <= other.data /\ cell.indicator < other.indicator
    BY <1>3, <2>1, <2>2, <2>3, <2>4
  <2> QED BY <2>5 DEF cell, other, w
<1> QED BY <1>2, <1>3

LEMMA CellsLieApart ==
    ASSUME NEW cols, AreColumns(cols), NEW size \in Nat,
           NEW i \in 1 .. size, NEW x \in 1 .. Len(cols),
           NEW j \in 1 .. size, NEW y \in 1 .. Len(cols), i # j \/ x # y
    PROVE  LieApart(cols, CellAt(cols, size, i, x), x, CellAt(cols, size, j, y), y)
<1>1. Len(cols) \in Nat
  BY DEF AreColumns
<1>2. /\ CellAt(cols, size, i, x).indicator \in Nat
      /\ CellAt(cols, size, j, y).indicator \in Nat
  BY CellInItsColumn
<1>3. CASE x < y \/ (x = y /\ i < j)
  BY <1>2, <1>3, LaterCellLiesBehind DEF LieApart
<1>4. CASE y < x \/ (y = x /\ j < i)
  BY <1>2, <1>4, LaterCellLiesBehind DEF LieApart
<1> QED BY <1>1, <1>3, <1>4

-----------------------------------------------------------------------------
(* The bytes of a cell: as many as there is room for, and read back whole. *)

Written(col, cell, n) == BytesWritten(col, get_column_size(col), cell, n)
Lengths == Nat \cup {SQL_NULL_DATA}

LEMMA CellBytesParts ==
    ASSUME NEW cell, NEW n \in Nat
    PROVE  /\ Len(CellBytes(cell, n)) = n /\ DOMAIN CellBytes(cell, n) = 1 .. n
           /\ \A i \in 1 .. n : CellBytes(cell, n)[i] = <<cell, i>>
           /\ CellBytes(cell, n) \in Seq({cell} \X Nat)
           /\ CellBytes(cell, n) \in Seq(({cell} \X Nat) \cup {Nul})
<1>1. CellBytes(cell, n) = [i \in 1 .. n |-> <<cell, i>>]
  BY DEF CellBytes
<1>2. \A i \in 1 .. n : <<cell, i>> \in {cell} \X Nat
  OBVIOUS
<1> QED BY <1>1, <1>2, IsASeq

(* What a value that is not NULL leaves in the buffer of each type.        *)
LEMMA FixedBytes ==
    ASSUME NEW col, IsColumn(col), NEW cell, NEW n \in Nat, col.sql_type \in FixedTypes
    PROVE  Written(col, cell, n) = CellBytes(cell, get_column_size(col))
<1>1. n # SQL_NULL_DATA
  BY DEF SQL_NULL_DATA
<1>2. IsFixed(col) /\ FixedLength[to_c_type(col)] = get_column_size(col)
  BY FixedColumnParts
<1>3. to_c_type(col) \notin {"CHAR", "WCHAR", "BINARY"}
  BY <1>2 DEF IsFixed, FixedLength
<1> QED BY <1>1, <1>2, <1>3 DEF Written, BytesWritten

LEMMA CharBytes ==
    ASSUME NEW col, IsColumn(col), NEW cell, NEW n \in Nat, col.sql_type \in TextTypes
    PROVE  Written(col, cell, n)
                = Append(CellBytes(cell, Shorter(n, get_column_size(col) - 1)), Nul)
<1>1. n # SQL_NULL_DATA /\ ~IsFixed(col) /\ to_c_type(col) = "CHAR"
  BY OtherColumnParts DEF SQL_NULL_DATA, TextTypes
<1> QED BY <1>1 DEF Written, BytesWritten

LEMMA NoBytes == ASSUME NEW cell PROVE CellBytes(cell, 0) = << >>
<1>1. CellBytes(cell, 0) \in Seq({cell} \X Nat) /\ Len(CellBytes(cell, 0)) = 0
  BY CellBytesParts
<1> QED BY <1>1, EmptySeq

LEMMA WideBytes ==
    ASSUME NEW col, IsColumn(col), NEW cell, NEW n \in Nat, col.sql_type = "SQL_WCHAR"
    PROVE  Written(col, cell, n) = <<Nul, Nul>>
<1>1. /\ n # SQL_NULL_DATA /\ ~IsFixed(col) /\ to_c_type(col) = "WCHAR"
      /\ get_column_size(col) = 2
  BY OtherColumnParts DEF SQL_NULL_DATA
<1>2. Shorter(2 * n, 2 - 2) = 0
  BY DEF Shorter
<1>3. Written(col, cell, n) = CellBytes(cell, 0) \o <<Nul, Nul>>
  BY <1>1, <1>2 DEF Written, BytesWritten
<1>4. CellBytes(cell, 0) = << >>
  BY NoBytes
<1>5. <<Nul, Nul>> \in Seq({Nul})
  OBVIOUS
<1> QED BY <1>3, <1>4, <1>5, ConcatEmptySeq

LEMMA BinaryBytes ==
    ASSUME NEW col, IsColumn(col), NEW cell, NEW n \in Nat, col.sql_type = "SQL_BINARY"
    PROVE  Written(col, cell, n) = CellBytes(cell, col.byte_len)
<1>1. /\ n # SQL_NULL_DATA /\ ~IsFixed(col) /\ to_c_type(col) = "BINARY"
      /\ get_column_size(col) = col.byte_len + 1 /\ col.byte_len \in Nat
  BY OtherColumnParts, ColumnsHaveWidth DEF SQL_NULL_DATA
<1>2. ValueRoom(col, get_column_size(col)) = col.byte_len
  BY <1>1 DEF ValueRoom, Shorter
<1> QED BY <1>1, <1>2 DEF Written, BytesWritten

Fits(col, bytes) ==
    /\ Len(bytes) \in Nat /\ Len(bytes) <= get_column_size(col)
    /\ col.sql_type = "SQL_BINARY" => Len(bytes) <= col.byte_len

LEMMA WrittenFits ==
    ASSUME NEW col, IsColumn(col), NEW cell, NEW n \in Lengths
    PROVE  Fits(col, Written(col, cell, n))
<1> DEFINE w == get_column_size(col)
<1>1. w \in Nat \ {0} /\ col.byte_len \in Nat
  BY ColumnsHaveWidth
<1>2. CASE n = SQL_NULL_DATA
  <2>1. Written(col, cell, n) = [i \in 1 .. ValueRoom(col, w) |-> Undefined]
    BY <1>2 DEF Written, BytesWritten
  <2>2. /\ ValueRoom(col, w) \in Nat /\ ValueRoom(col, w) <= w
        /\ col.sql_type = "SQL_BINARY" => ValueRoom(col, w) <= col.byte_len
    <3>1. col.sql_type = "SQL_BINARY" => to_c_type(col) = "BINARY"
      BY OtherColumnParts
    <3> HIDE DEF w
    <3> QED BY <1>1, <3>1 DEF ValueRoom, Shorter
  <2> HIDE DEF w
  <2>3. Len(Written(col, cell, n)) = ValueRoom(col, w)
    BY <2>1, <2>2
  <2> QED BY <2>2, <2>3 DEF Fits, w
<1>3. CASE n \in Nat
  <2>1. CASE col.sql_type \in FixedTypes
    <3>1. Len(Written(col, cell, n)) = w
      <4>1. Written(col, cell, n) = CellBytes(cell, w)
        BY <1>3, <2>1, FixedBytes
      <4> HIDE DEF w
      <4> QED BY <1>1, <4>1, CellBytesParts
    <3> QED BY <1>1, <2>1, <3>1 DEF Fits, FixedTypes
  <2>2. CASE col.sql_type \in TextTypes
    <3> DEFINE m == Shorter(n, w - 1)
    <3>1. m \in Nat /\ m <= w - 1
      BY <1>1, <1>3 DEF Shorter
    <3>2. Written(col, cell, n) = Append(CellBytes(cell, m), Nul)
      BY <1>3, <2>2, CharBytes
    <3> HIDE DEF m
    <3>3. Len(Written(col, cell, n)) = m + 1
      <4>1. CellBytes(cell, m) \in Seq(({cell} \X Nat) \cup {Nul}) /\ Len(CellBytes(cell, m)) = m
        BY <3>1, CellBytesParts
      <4> QED BY <3>2, <4>1, AppendProperties
    <3> HIDE DEF w
    <3>4. Len(Written(col, cell, n)) \in Nat /\ Len(Written(col, cell, n)) <= w
      BY <1>1, <3>1, <3>3
    <3> QED BY <2>2, <3>4 DEF Fits, TextTypes, w
  <2>3. CASE col.sql_type = "SQL_WCHAR"
    <3>1. Len(Written(col, cell, n)) = 2
      BY <1>3, <2>3, WideBytes
    <3> QED BY <2>3, <3>1, OtherColumnParts DEF Fits
  <2>4. CASE col.sql_type = "SQL_BINARY"
    <3>1. Len(Written(col, cell, n)) = col.byte_len /\ w = col.byte_len + 1
      <4>1. Written(col, cell, n) = CellBytes(cell, col.byte_len)
        BY <1>3, <2>4, BinaryBytes
      <4>2. w = col.byte_len + 1
        BY <2>4, OtherColumnParts
      <4> HIDE DEF w
      <4> QED BY <1>1, <4>1, <4>2, CellBytesParts
    <3> QED BY <1>1, <3>1 DEF Fits
  <2> QED BY <2>1, <2>2, <2>3, <2>4, KnownTypes DEF IsColumn
<1> QED BY <1>2, <1>3 DEF Lengths

HasBytes(buffer, at, bytes) == \A j \in 1 .. Len(bytes) : buffer[at + j - 1] = bytes[j]

HoldsCell(buffer, at, cell, m) == \A j \in 1 .. m : buffer[at + j - 1] = <<cell, j>>

LEMMA HasCellBytes ==
    ASSUME NEW buffer, NEW at, NEW cell, NEW m \in Nat, HasBytes(buffer, at, CellBytes(cell, m))
    PROVE  HoldsCell(buffer, at, cell, m)
BY CellBytesParts DEF HasBytes, HoldsCell

LEMMA TextReadsToNul ==
    ASSUME NEW buffer, NEW total \in Nat, DOMAIN buffer = 0 .. total - 1, NEW at \in Nat,
           NEW m \in Nat, at + m < total, NEW cell,
           HasBytes(buffer, at, CellBytes(cell, m)), buffer[at + m] = Nul
    PROVE  ReadText(buffer, at) = CellBytes(cell, m)
<1>0. HoldsCell(buffer, at, cell, m)
  BY HasCellBytes
<1> DEFINE ends == {k \in DOMAIN buffer : k >= at /\ buffer[k] = Nul}
<1>1. at + m \in ends
  OBVIOUS
<1>2. ASSUME NEW k \in ends PROVE at + m <= k
  <2> SUFFICES ASSUME k < at + m PROVE FALSE
    OBVIOUS
  <2>1. k - at + 1 \in 1 .. m /\ at + (k - at + 1) - 1 = k
    OBVIOUS
  <2>2. buffer[k] = <<cell, k - at + 1>>
    BY <1>0, <2>1 DEF HoldsCell
  <2>3. <<cell, k - at + 1>> # << >>
    OBVIOUS
  <2> QED BY <2>2, <2>3 DEF Nul
<1>3. Min(ends) = at + m
  <2>1. \A k \in ends : at + m <= k /\ k \in Int
    BY <1>2
  <2> HIDE DEF ends
  <2>2. Min(ends) \in ends /\ \A k \in ends : Min(ends) <= k
    BY <1>1, <2>1 DEF Min
  <2> QED BY <1>1, <2>1, <2>2
<1>4. ReadText(buffer, at) = [i \in 1 .. Min(ends) - at |-> buffer[at + i - 1]]
  BY <1>1 DEF ReadText
<1>5. (at + m) - at = m
  OBVIOUS
<1> HIDE DEF ends
<1>6. ReadText(buffer, at) = [i \in 1 .. m |-> buffer[at + i - 1]]
  BY <1>3, <1>4, <1>5
<1> QED BY <1>0, <1>6 DEF CellBytes, HoldsCell

(* A value that is not NULL, in a buffer that has its bytes, is read back. *)
LEMMA ValueIsReadBack ==
    ASSUME NEW col, IsColumn(col), NEW cell, NEW n \in Nat, NEW buffer, NEW total \in Nat,
           DOMAIN buffer = 0 .. total - 1, NEW at \in Nat, at + get_column_size(col) <= total,
           HasBytes(buffer, at, Written(col, cell, n)),
           col.sql_type = "SQL_BINARY" => buffer[at + col.byte_len] = Nul
    PROVE  ReadCell(col, buffer, at) = Promised(col, cell, n)
<1> DEFINE w == get_column_size(col)
<1>1. w \in Nat \ {0} /\ col.byte_len \in Nat /\ n # SQL_NULL_DATA
  BY ColumnsHaveWidth DEF SQL_NULL_DATA
<1>2. CASE col.sql_type \in FixedTypes
  <2>1. /\ IsFixed(col) /\ sql_type_to_c_size_and_alignment[col.sql_type][1] = w
        /\ Written(col, cell, n) = CellBytes(cell, w)
    BY <1>2, FixedColumnParts, FixedBytes
  <2>2. HoldsCell(buffer, at, cell, w)
    <3> HIDE DEF w
    <3>1. HasBytes(buffer, at, CellBytes(cell, w))
      BY <2>1
    <3> QED BY <1>1, <3>1, HasCellBytes
  <2>3. ReadCell(col, buffer, at) = [i \in 1 .. w |-> buffer[at + i - 1]]
    BY <2>1 DEF ReadCell
  <2>4. Promised(col, cell, n) = CellBytes(cell, w)
    BY <1>1, <1>2, <2>1 DEF Promised, FixedTypes
  <2> HIDE DEF w
  <2> QED BY <2>2, <2>3, <2>4 DEF CellBytes, HoldsCell
<1>3. CASE col.sql_type \in TextTypes
  <2> DEFINE m == Shorter(n, w - 1)
  <2>1. m \in Nat /\ at + m < total
    BY <1>1 DEF Shorter
  <2>2. Written(col, cell, n) = Append(CellBytes(cell, m), Nul)
    BY <1>3, CharBytes
  <2>3. ~IsFixed(col)
    BY <1>3, OtherColumnParts DEF TextTypes
  <2>4. Promised(col, cell, n) = CellBytes(cell, m)
    <3>1. CASE col.sql_type = "SQL_VARCHAR"
      <4>1. w - 1 = col.byte_len
        BY <1>1, <3>1, OtherColumnParts
      <4> QED BY <1>1, <2>3, <3>1, <4>1 DEF Promised
    <3>2. CASE col.sql_type = "SQL_CHAR"
      <4>1. w - 1 = 0
        BY <1>1, <3>2, OtherColumnParts
      <4>2. m = 0
        BY <4>1 DEF Shorter
      <4> HIDE DEF m
      <4>3. CellBytes(cell, m) = << >>
        BY <4>2, NoBytes
      <4> QED BY <1>1, <2>3, <3>2, <4>3 DEF Promised
    <3> QED BY <1>3, <3>1, <3>2 DEF TextTypes
  <2> HIDE DEF m, w
  <2>5. /\ \A j \in 1 .. m : Written(col, cell, n)[j] = CellBytes(cell, m)[j]
        /\ Written(col, cell, n)[m + 1] = Nul /\ Len(Written(col, cell, n)) = m + 1
        /\ Len(CellBytes(cell, m)) = m
    <3>1. /\ CellBytes(cell, m) \in Seq(({cell} \X Nat) \cup {Nul})
          /\ Len(CellBytes(cell, m)) = m
      BY <2>1, CellBytesParts
    <3> QED BY <2>2, <3>1, AppendProperties
  <2>6. HasBytes(buffer, at, CellBytes(cell, m))
    BY <2>1, <2>5 DEF HasBytes
  <2>8. buffer[at + m] = Nul
    <3>1. at + (m + 1) - 1 = at + m /\ m + 1 \in 1 .. m + 1
      BY <2>1
    <3> QED BY <2>5, <3>1 DEF HasBytes
  <2>7. ReadText(buffer, at) = CellBytes(cell, m)
    BY <2>1, <2>6, <2>8, TextReadsToNul
  <2> QED BY <2>3, <2>4, <2>7 DEF ReadCell
<1>4. CASE col.sql_type = "SQL_WCHAR"
  <2>1. ~IsFixed(col) /\ w = 2 /\ Written(col, cell, n) = <<Nul, Nul>>
    BY <1>4, OtherColumnParts, WideBytes
  <2>2. buffer[at + 0] = Nul /\ at + 0 < total
    <3>1. buffer[at + 1 - 1] = Nul
      BY <2>1 DEF HasBytes
    <3> QED BY <2>1, <3>1
  <2>3. ReadText(buffer, at) = CellBytes(cell, 0)
    <3>1. HasBytes(buffer, at, CellBytes(cell, 0))
      BY NoBytes DEF HasBytes
    <3> QED BY <2>2, <3>1, TextReadsToNul
  <2> QED BY <1>1, <1>4, <2>1, <2>3, NoBytes DEF ReadCell, Promised
<1>5. CASE col.sql_type = "SQL_BINARY"
  <2> DEFINE m == col.byte_len
  <2>1. ~IsFixed(col) /\ w = m + 1 /\ Written(col, cell, n) = CellBytes(cell, m)
    BY <1>5, OtherColumnParts, BinaryBytes
  <2>2. Promised(col, cell, n) = CellBytes(cell, m)
    BY <1>1, <1>5, <2>1 DEF Promised
  <2>3. at + m < total /\ m \in Nat /\ buffer[at + m] = Nul
    BY <1>1, <1>5, <2>1
  <2> HIDE DEF m, w
  <2>4. HasBytes(buffer, at, CellBytes(cell, m))
    BY <2>1
  <2>5. ReadText(buffer, at) = CellBytes(cell, m)
    BY <2>3, <2>4, TextReadsToNul
  <2> QED BY <2>1, <2>2, <2>5 DEF ReadCell
<1> QED BY <1>2, <1>3, <1>4, <1>5, KnownTypes DEF IsColumn

-----------------------------------------------------------------------------
(* A row put into a buffer: each byte of it lands in its place, and what   *)
(* no cell of it covers stays.                                             *)

LEMMA PutAllParts ==
    ASSUME NEW cells, NEW at, NEW buffer
    PROVE  /\ DOMAIN PutAll(cells, at, buffer) = DOMAIN buffer
           /\ \A k \in DOMAIN buffer :
                Covers(cells, at, k) = {} => PutAll(cells, at, buffer)[k] = buffer[k]
           /\ \A x : \A k \in DOMAIN buffer :
                Covers(cells, at, k) = {x} /\ x \in Int =>
                    PutAll(cells, at, buffer)[k] = cells[x][k - at[x] + 1]
<1>1. \A x \in Int : Max({x}) = x
  BY DEF Max
<1> QED BY <1>1 DEF PutAll

HasBuffers(cols, mem, size) ==
    /\ DOMAIN mem.data = 0 .. calculate_data_size(cols, size) - 1
    /\ DOMAIN mem.indicators = 0 .. Len(cols) * size - 1

ShowsCell(cols, mem, cell, x, row) ==
    /\ mem.indicators[cell.indicator] = row[x]
    /\ HasBytes(mem.data, cell.data, Written(cols[x], <<row, x>>, row[x]))

(* Behind the bytes of a binary there is a null, which nothing writes.     *)
EndsInNul(cols, mem, cell, x) ==
    cols[x].sql_type = "SQL_BINARY" => mem.data[cell.data + cols[x].byte_len] = Nul

CellIsKept(cols, mem, mem2, cell, x) ==
    /\ mem2.indicators[cell.indicator] = mem.indicators[cell.indicator]
    /\ \A k \in cell.data .. cell.data + Width(cols, x) - 1 : mem2.data[k] = mem.data[k]

(* A row in the slot of a chunk.                                           *)
RowCells(cols, row) == [x \in 1 .. Len(cols) |-> Written(cols[x], <<row, x>>, row[x])]
RowLengths(cols, row) == [x \in 1 .. Len(cols) |-> <<row[x]>>]
DataPlaces(cols, size, slot) == [x \in 1 .. Len(cols) |-> CellAt(cols, size, slot, x).data]
IndicatorPlaces(cols, size, slot) ==
    [x \in 1 .. Len(cols) |-> CellAt(cols, size, slot, x).indicator]

RowPut(cols, mem, size, slot, row) ==
    [data |-> PutAll(RowCells(cols, row), DataPlaces(cols, size, slot), mem.data),
     indicators |-> PutAll(RowLengths(cols, row), IndicatorPlaces(cols, size, slot),
                           mem.indicators)]

IsRowOf(cols, row) == \A x \in 1 .. Len(cols) : row[x] \in Lengths

LEMMA RowCellsFit ==
    ASSUME NEW cols, AreColumns(cols), NEW row, IsRowOf(cols, row), NEW x \in 1 .. Len(cols)
    PROVE  /\ Fits(cols[x], RowCells(cols, row)[x])
           /\ RowCells(cols, row)[x] = Written(cols[x], <<row, x>>, row[x])
           /\ DOMAIN RowCells(cols, row) = 1 .. Len(cols)
BY WrittenFits DEF AreColumns, IsRowOf, RowCells

(* Which cells of the row cover a byte of a cell of the chunk.             *)
LEMMA DataCovers ==
    ASSUME NEW cols, AreColumns(cols), NEW size \in Nat, NEW slot \in 1 .. size,
           NEW row, IsRowOf(cols, row),
           NEW i \in 1 .. size, NEW x \in 1 .. Len(cols), NEW k \in Nat,
           CellAt(cols, size, i, x).data <= k,
           k < CellAt(cols, size, i, x).data + Width(cols, x)
    PROVE  Covers(RowCells(cols, row), DataPlaces(cols, size, slot), k)
                = IF i = slot /\ k < CellAt(cols, size, i, x).data + Len(RowCells(cols, row)[x])
                  THEN {x} ELSE {}
<1> DEFINE cells == RowCells(cols, row)
           at == DataPlaces(cols, size, slot)
           covers == Covers(cells, at, k)
<1>1. ASSUME NEW y \in 1 .. Len(cols)
      PROVE  /\ at[y] = CellAt(cols, size, slot, y).data /\ at[y] \in Nat
             /\ Width(cols, y) \in Nat
             /\ Len(cells[y]) \in Nat /\ Len(cells[y]) <= Width(cols, y)
  <2>1. /\ CellAt(cols, size, slot, y).data \in Nat /\ Width(cols, y) \in Nat
    BY CellInItsColumn
  <2>2. Fits(cols[y], cells[y])
    BY RowCellsFit
  <2> HIDE DEF cells
  <2> QED BY <2>1, <2>2 DEF DataPlaces, Fits, Width
<1>2. \A y : y \in covers <=>
        y \in 1 .. Len(cols) /\ at[y] <= k /\ k < at[y] + Len(cells[y])
  <2>1. DOMAIN cells = 1 .. Len(cols)
    BY DEF RowCells
  <2> SUFFICES ASSUME NEW y \in 1 .. Len(cols)
               PROVE  k \in at[y] .. at[y] + Len(cells[y]) - 1
                        <=> at[y] <= k /\ k < at[y] + Len(cells[y])
    BY <2>1 DEF Covers
  <2>2. at[y] \in Nat /\ Len(cells[y]) \in Nat
    BY <1>1
  <2> HIDE DEF at, cells
  <2> QED BY <2>2
<1> HIDE DEF covers, at, cells
<1>3. ASSUME NEW y \in covers PROVE y = x /\ i = slot
  <2> SUFFICES ASSUME i # slot \/ x # y PROVE FALSE
    BY <1>2
  <2> DEFINE a == CellAt(cols, size, i, x).data
             b == CellAt(cols, size, slot, y).data
             v == Width(cols, x)
             w == Width(cols, y)
             len == Len(cells[y])
  <2>1. y \in 1 .. Len(cols) /\ b <= k /\ k < b + len
    BY <1>1, <1>2, <1>3
  <2>2. a + v <= b \/ b + w <= a
    BY <2>1, CellsLieApart DEF LieApart
  <2>3. a \in Nat /\ b \in Nat /\ v \in Nat
    BY <2>1, CellInItsColumn
  <2>4. len <= w /\ w \in Nat /\ len \in Nat
    BY <1>1, <2>1
  <2>5. a <= k /\ k < a + v
    OBVIOUS
  <2> HIDE DEF a, b, v, w, len
  <2> QED BY <2>1, <2>2, <2>3, <2>4, <2>5
<1>4. i = slot => at[x] = CellAt(cols, size, i, x).data
  BY <1>1
<1>5. i = slot => (x \in covers <=> k < CellAt(cols, size, i, x).data + Len(cells[x]))
  BY <1>2, <1>4
<1>6. CASE i = slot /\ k < CellAt(cols, size, i, x).data + Len(cells[x])
  <2>1. covers = {x}
    BY <1>3, <1>5, <1>6
  <2> QED BY <1>6, <2>1 DEF covers, cells, at
<1>7. CASE ~(i = slot /\ k < CellAt(cols, size, i, x).data + Len(cells[x]))
  <2>1. covers = {}
    BY <1>3, <1>5, <1>7
  <2> QED BY <1>7, <2>1 DEF covers, cells, at
<1> QED BY <1>6, <1>7

LEMMA IndicatorCovers ==
    ASSUME NEW cols, AreColumns(cols), NEW size \in Nat, NEW slot \in 1 .. size, NEW row,
           NEW i \in 1 .. size, NEW x \in 1 .. Len(cols)
    PROVE  Covers(RowLengths(cols, row), IndicatorPlaces(cols, size, slot),
                  CellAt(cols, size, i, x).indicator) = IF i = slot THEN {x} ELSE {}
<1> DEFINE at == IndicatorPlaces(cols, size, slot)
           k == CellAt(cols, size, i, x).indicator
           covers == Covers(RowLengths(cols, row), at, k)
<1>1. ASSUME NEW y \in 1 .. Len(cols)
      PROVE  /\ at[y] = CellAt(cols, size, slot, y).indicator /\ at[y] \in Nat
             /\ Len(RowLengths(cols, row)[y]) = 1
  <2>1. CellAt(cols, size, slot, y).indicator \in Nat
    BY CellInItsColumn
  <2> QED BY <2>1 DEF IndicatorPlaces, RowLengths
<1>2. k \in Nat
  BY CellInItsColumn
<1>3. \A y : y \in covers <=> y \in 1 .. Len(cols) /\ k = at[y]
  <2>1. DOMAIN RowLengths(cols, row) = 1 .. Len(cols)
    BY DEF RowLengths
  <2> SUFFICES ASSUME NEW y \in 1 .. Len(cols)
               PROVE  k \in at[y] .. at[y] + Len(RowLengths(cols, row)[y]) - 1 <=> k = at[y]
    BY <2>1 DEF Covers
  <2>2. at[y] \in Nat /\ Len(RowLengths(cols, row)[y]) = 1
    BY <1>1
  <2> HIDE DEF at, k
  <2> QED BY <1>2, <2>2
<1> HIDE DEF covers, at
<1>4. ASSUME NEW y \in covers PROVE y = x /\ i = slot
  <2> SUFFICES ASSUME i # slot \/ x # y PROVE FALSE
    BY <1>3
  <2>1. y \in 1 .. Len(cols) /\ k = CellAt(cols, size, slot, y).indicator
    BY <1>1, <1>3, <1>4
  <2> QED BY <2>1, CellsLieApart DEF LieApart
<1>5. i = slot => x \in covers
  BY <1>1, <1>3
<1>6. covers = IF i = slot THEN {x} ELSE {}
  BY <1>4, <1>5
<1> QED BY <1>6 DEF covers, at

LEMMA PutKeepsBuffers ==
    ASSUME NEW cols, NEW mem, NEW size, HasBuffers(cols, mem, size), NEW slot, NEW row
    PROVE  HasBuffers(cols, RowPut(cols, mem, size, slot, row), size)
BY PutAllParts DEF HasBuffers, RowPut

(* Where a byte of a cell, or its indicator, is after a row was put.       *)
LEMMA PutBytes ==
    ASSUME NEW cols, AreColumns(cols), NEW size \in Nat, NEW slot \in 1 .. size,
           NEW row, IsRowOf(cols, row), NEW mem, HasBuffers(cols, mem, size),
           NEW i \in 1 .. size, NEW x \in 1 .. Len(cols), NEW k \in Nat,
           CellAt(cols, size, i, x).data <= k,
           k < CellAt(cols, size, i, x).data + Width(cols, x)
    PROVE  RowPut(cols, mem, size, slot, row).data[k]
                = IF i = slot /\ k < CellAt(cols, size, i, x).data + Len(RowCells(cols, row)[x])
                  THEN RowCells(cols, row)[x][k - CellAt(cols, size, slot, x).data + 1]
                  ELSE mem.data[k]
<1> DEFINE cells == RowCells(cols, row)
           at == DataPlaces(cols, size, slot)
           data == RowPut(cols, mem, size, slot, row).data
           a == CellAt(cols, size, i, x).data
           total == calculate_data_size(cols, size)
<1>1. data = PutAll(cells, at, mem.data)
  BY DEF RowPut
<1>2. k \in DOMAIN mem.data
  <2>1. a + Width(cols, x) <= total
    BY CellLiesInside DEF LiesInside
  <2>2. a \in Nat /\ Width(cols, x) \in Nat /\ total \in Nat
    BY CellInItsColumn, ColumnEndsInside
  <2>3. DOMAIN mem.data = 0 .. total - 1
    BY DEF HasBuffers
  <2>4. a <= k /\ k < a + Width(cols, x)
    OBVIOUS
  <2> HIDE DEF a, total
  <2> QED BY <2>1, <2>2, <2>3, <2>4
<1>3. Covers(cells, at, k) = IF i = slot /\ k < a + Len(cells[x]) THEN {x} ELSE {}
  BY DataCovers
<1>4. at[x] = CellAt(cols, size, slot, x).data
  BY DEF DataPlaces
<1> HIDE DEF cells, at, data, a
<1>5. CASE i = slot /\ k < a + Len(cells[x])
  <2>1. Covers(cells, at, k) = {x} /\ x \in Int
    BY <1>3, <1>5
  <2>2. data[k] = cells[x][k - at[x] + 1]
    BY <1>1, <1>2, <2>1, PutAllParts
  <2> QED BY <1>4, <1>5, <2>2 DEF cells, a, data
<1>6. CASE ~(i = slot /\ k < a + Len(cells[x]))
  <2>1. Covers(cells, at, k) = {}
    BY <1>3, <1>6
  <2>2. data[k] = mem.data[k]
    BY <1>1, <1>2, <2>1, PutAllParts
  <2> QED BY <1>6, <2>2 DEF cells, a, data
<1> QED BY <1>5, <1>6

LEMMA PutIndicators ==
    ASSUME NEW cols, AreColumns(cols), NEW size \in Nat, NEW slot \in 1 .. size,
           NEW row, NEW mem, HasBuffers(cols, mem, size),
           NEW i \in 1 .. size, NEW x \in 1 .. Len(cols)
    PROVE  RowPut(cols, mem, size, slot, row).indicators[CellAt(cols, size, i, x).indicator]
                = IF i = slot THEN row[x]
                  ELSE mem.indicators[CellAt(cols, size, i, x).indicator]
<1> DEFINE lengths == RowLengths(cols, row)
           at == IndicatorPlaces(cols, size, slot)
           inds == RowPut(cols, mem, size, slot, row).indicators
           k == CellAt(cols, size, i, x).indicator
           total == Len(cols) * size
<1>1. inds = PutAll(lengths, at, mem.indicators)
  BY DEF RowPut
<1>2. k \in DOMAIN mem.indicators
  <2>1. k \in Nat /\ k < total
    BY CellLiesInside DEF LiesInside
  <2>2. DOMAIN mem.indicators = 0 .. total - 1 /\ total \in Nat
    BY DEF HasBuffers, AreColumns
  <2> HIDE DEF k, total
  <2> QED BY <2>1, <2>2
<1>3. Covers(lengths, at, k) = IF i = slot THEN {x} ELSE {}
  BY IndicatorCovers
<1>4. at[x] = CellAt(cols, size, slot, x).indicator
  BY DEF IndicatorPlaces
<1>5. lengths[x] = <<row[x]>> /\ k \in Nat
  BY CellInItsColumn DEF RowLengths
<1> HIDE DEF lengths, at, inds
<1>6. CASE i = slot
  <2>1. Covers(lengths, at, k) = {x} /\ x \in Int /\ at[x] = k
    BY <1>3, <1>4, <1>6
  <2> HIDE DEF k
  <2>2. inds[k] = lengths[x][k - at[x] + 1]
    BY <1>1, <1>2, <2>1, PutAllParts
  <2>3. k - at[x] + 1 = 1
    BY <1>5, <2>1
  <2>4. inds[k] = row[x]
    BY <1>5, <2>2, <2>3
  <2> QED BY <1>6, <2>4 DEF k, inds
<1>7. CASE i # slot
  <2>1. Covers(lengths, at, k) = {}
    BY <1>3, <1>7
  <2> HIDE DEF k
  <2>2. inds[k] = mem.indicators[k]
    BY <1>1, <1>2, <2>1, PutAllParts
  <2> QED BY <1>7, <2>2 DEF k, inds
<1> QED BY <1>6, <1>7

(* The row is shown where it was put, nothing else is disturbed, and the   *)
(* null behind each binary stays.                                          *)
LEMMA PutShowsRow ==
    ASSUME NEW cols, AreColumns(cols), NEW size \in Nat, NEW slot \in 1 .. size,
           NEW row, IsRowOf(cols, row), NEW mem, HasBuffers(cols, mem, size),
           NEW x \in 1 .. Len(cols)
    PROVE  /\ ShowsCell(cols, RowPut(cols, mem, size, slot, row), CellAt(cols, size, slot, x), x, row)
           /\ EndsInNul(cols, mem, CellAt(cols, size, slot, x), x) =>
                EndsInNul(cols, RowPut(cols, mem, size, slot, row), CellAt(cols, size, slot, x), x)
<1> DEFINE mem2 == RowPut(cols, mem, size, slot, row)
           a == CellAt(cols, size, slot, x).data
           bytes == RowCells(cols, row)[x]
           w == Width(cols, x)
<1>1. /\ Fits(cols[x], bytes) /\ bytes = Written(cols[x], <<row, x>>, row[x])
      /\ a \in Nat /\ w \in Nat
  BY RowCellsFit, CellInItsColumn
<1>2. Len(bytes) \in Nat /\ Len(bytes) <= w
  BY <1>1 DEF Fits, Width
<1>3. \A k \in Nat : a <= k /\ k < a + w =>
        mem2.data[k] = IF k < a + Len(bytes) THEN bytes[k - a + 1] ELSE mem.data[k]
  BY PutBytes
<1>4. mem2.indicators[CellAt(cols, size, slot, x).indicator] = row[x]
  BY PutIndicators
<1>5. HasBytes(mem2.data, a, bytes)
  <2> SUFFICES ASSUME NEW j \in 1 .. Len(bytes) PROVE mem2.data[a + j - 1] = bytes[j]
    BY DEF HasBytes
  <2> HIDE DEF a, w, bytes, mem2
  <2>1. /\ a + j - 1 \in Nat /\ a <= a + j - 1 /\ a + j - 1 < a + w
        /\ a + j - 1 < a + Len(bytes) /\ (a + j - 1) - a + 1 = j
    BY <1>1, <1>2
  <2> QED BY <1>3, <2>1
<1>6. ShowsCell(cols, mem2, CellAt(cols, size, slot, x), x, row)
  <2> HIDE DEF mem2
  <2> QED BY <1>1, <1>4, <1>5 DEF ShowsCell
<1>7. ASSUME EndsInNul(cols, mem, CellAt(cols, size, slot, x), x)
      PROVE  EndsInNul(cols, mem2, CellAt(cols, size, slot, x), x)
  <2> SUFFICES ASSUME cols[x].sql_type = "SQL_BINARY"
               PROVE  mem2.data[a + cols[x].byte_len] = Nul
    BY DEF EndsInNul
  <2> DEFINE n == cols[x].byte_len
  <2>1. mem.data[a + n] = Nul
    BY <1>7 DEF EndsInNul
  <2>2. n \in Nat /\ w = n + 1 /\ Len(bytes) <= n
    <3>1. IsColumn(cols[x])
      BY DEF AreColumns
    <3>2. cols[x].byte_len \in Nat /\ get_column_size(cols[x]) = cols[x].byte_len + 1
      BY <3>1, ColumnsHaveWidth, OtherColumnParts
    <3> HIDE DEF bytes
    <3> QED BY <1>1, <3>2 DEF Fits, Width
  <2> HIDE DEF a, w, bytes, mem2, n
  <2>3. /\ a + n \in Nat /\ a <= a + n /\ a + n < a + w /\ ~(a + n < a + Len(bytes))
    BY <1>1, <1>2, <2>2
  <2>4. mem2.data[a + n] = Nul
    BY <1>3, <2>1, <2>3
  <2> QED BY <2>4 DEF n
<1> QED BY <1>6, <1>7

LEMMA PutKeepsCells ==
    ASSUME NEW cols, AreColumns(cols), NEW size \in Nat, NEW slot \in 1 .. size,
           NEW row, IsRowOf(cols, row), NEW mem, HasBuffers(cols, mem, size),
           NEW i \in 1 .. size, i # slot, NEW x \in 1 .. Len(cols)
    PROVE  CellIsKept(cols, mem, RowPut(cols, mem, size, slot, row), CellAt(cols, size, i, x), x)
<1>1. RowPut(cols, mem, size, slot, row).indicators[CellAt(cols, size, i, x).indicator]
        = mem.indicators[CellAt(cols, size, i, x).indicator]
  BY PutIndicators
<1> DEFINE mem2 == RowPut(cols, mem, size, slot, row)
           a == CellAt(cols, size, i, x).data
<1>2. a \in Nat /\ Width(cols, x) \in Nat
  BY CellInItsColumn
<1>3. ASSUME NEW k \in a .. a + Width(cols, x) - 1 PROVE mem2.data[k] = mem.data[k]
  <2>1. k \in Nat /\ a <= k /\ k < a + Width(cols, x)
    <3> HIDE DEF a
    <3> QED BY <1>2
  <2> QED BY <2>1, PutBytes
<1> HIDE DEF mem2
<1>4. CellIsKept(cols, mem, mem2, CellAt(cols, size, i, x), x)
  BY <1>1, <1>3 DEF CellIsKept, mem2
<1> QED BY <1>4 DEF mem2

LEMMA KeptCellIsShown ==
    ASSUME NEW cols, AreColumns(cols), NEW x \in 1 .. Len(cols), NEW mem, NEW mem2, NEW cell,
           cell.data \in Nat, CellIsKept(cols, mem, mem2, cell, x)
    PROVE  /\ \A row : IsRowOf(cols, row) /\ ShowsCell(cols, mem, cell, x, row) =>
                        ShowsCell(cols, mem2, cell, x, row)
           /\ EndsInNul(cols, mem, cell, x) => EndsInNul(cols, mem2, cell, x)
<1> DEFINE a == cell.data
           w == Width(cols, x)
<1>1. w \in Nat /\ IsColumn(cols[x])
  BY ColumnsHaveWidth DEF AreColumns, Width
<1>2. ASSUME NEW row, IsRowOf(cols, row), ShowsCell(cols, mem, cell, x, row)
      PROVE  ShowsCell(cols, mem2, cell, x, row)
  <2> DEFINE bytes == Written(cols[x], <<row, x>>, row[x])
  <2>1. Len(bytes) \in Nat /\ Len(bytes) <= w
    BY <1>1, <1>2, WrittenFits DEF Fits, Width, IsRowOf
  <2>2. HasBytes(mem.data, a, bytes)
    BY <1>2 DEF ShowsCell
  <2> HIDE DEF bytes
  <2>3. ASSUME NEW j \in 1 .. Len(bytes) PROVE mem2.data[a + j - 1] = bytes[j]
    <3>1. a + j - 1 \in a .. a + w - 1
      <4> HIDE DEF w
      <4> QED BY <1>1, <2>1
    <3>2. mem2.data[a + j - 1] = mem.data[a + j - 1]
      BY <3>1 DEF CellIsKept
    <3> QED BY <2>2, <3>2 DEF HasBytes
  <2>4. HasBytes(mem2.data, a, bytes)
    BY <2>3 DEF HasBytes
  <2> QED BY <1>2, <2>4 DEF ShowsCell, CellIsKept, bytes
<1>3. ASSUME EndsInNul(cols, mem, cell, x) PROVE EndsInNul(cols, mem2, cell, x)
  <2> SUFFICES ASSUME cols[x].sql_type = "SQL_BINARY"
               PROVE  mem2.data[a + cols[x].byte_len] = Nul
    BY DEF EndsInNul
  <2>1. cols[x].byte_len \in Nat /\ w = cols[x].byte_len + 1
    BY <1>1, ColumnsHaveWidth, OtherColumnParts DEF Width
  <2>2. a + cols[x].byte_len \in a .. a + w - 1
    <3> HIDE DEF w
    <3> QED BY <2>1
  <2>3. mem2.data[a + cols[x].byte_len] = mem.data[a + cols[x].byte_len]
    BY <2>2 DEF CellIsKept
  <2> QED BY <1>3, <2>3 DEF EndsInNul
<1> QED BY <1>2, <1>3

-----------------------------------------------------------------------------
(* The bytes of the chunks and the rows of the storage.                    *)

(* The bytes of a chunk show the rows of its slots.                        *)
Mirrors(cols, mem, chunk) ==
    /\ HasBuffers(cols, mem, chunk.size)
    /\ \A i \in 1 .. chunk.size, x \in 1 .. Len(cols) :
        /\ EndsInNul(cols, mem, CellAt(cols, chunk.size, i, x), x)
        /\ chunk.data[i] # Blank =>
                ShowsCell(cols, mem, CellAt(cols, chunk.size, i, x), x, chunk.data[i])

LEMMA NewMemoryMirrors ==
    ASSUME NEW cols, AreColumns(cols), NEW chunk, chunk.size \in Nat,
           \A i \in 1 .. chunk.size : chunk.data[i] = Blank
    PROVE  Mirrors(cols, ChunkMemory(cols, chunk.size), chunk)
<1> DEFINE size == chunk.size
           mem == ChunkMemory(cols, size)
           total == calculate_data_size(cols, size)
<1>1. HasBuffers(cols, mem, size)
  BY DEF HasBuffers, ChunkMemory
<1>2. \A k \in 0 .. total - 1 : mem.data[k] = Nul
  BY DEF ChunkMemory
<1>3. ASSUME NEW i \in 1 .. size, NEW x \in 1 .. Len(cols)
      PROVE  EndsInNul(cols, mem, CellAt(cols, size, i, x), x)
  <2> SUFFICES ASSUME cols[x].sql_type = "SQL_BINARY"
               PROVE  mem.data[CellAt(cols, size, i, x).data + cols[x].byte_len] = Nul
    BY DEF EndsInNul
  <2> DEFINE a == CellAt(cols, size, i, x).data
             n == cols[x].byte_len
  <2>1. a \in Nat /\ a + Width(cols, x) <= total /\ total \in Nat
    BY CellLiesInside, ColumnEndsInside DEF LiesInside
  <2>2. IsColumn(cols[x])
    BY DEF AreColumns
  <2>3. n \in Nat /\ Width(cols, x) = n + 1
    BY <2>2, ColumnsHaveWidth, OtherColumnParts DEF Width
  <2> HIDE DEF a, n, total
  <2>4. a + n \in 0 .. total - 1
    BY <2>1, <2>3
  <2>5. mem.data[a + n] = Nul
    BY <1>2, <2>4
  <2> QED BY <2>5 DEF a, n
<1> HIDE DEF mem
<1> QED BY <1>1, <1>3 DEF Mirrors, mem

LEMMA SameCellsMirror ==
    ASSUME NEW cols, NEW mem, NEW chunk, NEW chunk2, Mirrors(cols, mem, chunk),
           chunk2.size = chunk.size, chunk2.data = chunk.data
    PROVE  Mirrors(cols, mem, chunk2)
BY DEF Mirrors

LEMMA PutRowMirrors ==
    ASSUME NEW cols, AreColumns(cols), NEW mem, NEW chunk, Mirrors(cols, mem, chunk),
           chunk.size \in Nat, NEW slot \in 1 .. chunk.size, NEW row, IsRowOf(cols, row),
           \A i \in 1 .. chunk.size : chunk.data[i] # Blank => IsRowOf(cols, chunk.data[i]),
           NEW chunk2, chunk2.size = chunk.size,
           \A i \in 1 .. chunk.size :
                chunk2.data[i] = IF i = slot THEN row ELSE chunk.data[i]
    PROVE  Mirrors(cols, RowPut(cols, mem, chunk.size, slot, row), chunk2)
<1> DEFINE size == chunk.size
           mem2 == RowPut(cols, mem, size, slot, row)
<1>1. HasBuffers(cols, mem, size)
  BY DEF Mirrors
<1>2. HasBuffers(cols, mem2, size)
  BY <1>1, PutKeepsBuffers
<1>3. ASSUME NEW i \in 1 .. size, NEW x \in 1 .. Len(cols)
      PROVE  /\ EndsInNul(cols, mem2, CellAt(cols, size, i, x), x)
             /\ chunk2.data[i] # Blank =>
                    ShowsCell(cols, mem2, CellAt(cols, size, i, x), x, chunk2.data[i])
  <2>1. EndsInNul(cols, mem, CellAt(cols, size, i, x), x)
    BY DEF Mirrors
  <2>2. CASE i = slot
    <3>1. chunk2.data[i] = row
      BY <2>2
    <3> HIDE DEF mem2
    <3>2. /\ ShowsCell(cols, mem2, CellAt(cols, size, slot, x), x, row)
          /\ EndsInNul(cols, mem, CellAt(cols, size, slot, x), x) =>
                EndsInNul(cols, mem2, CellAt(cols, size, slot, x), x)
      BY <1>1, PutShowsRow DEF mem2
    <3> QED BY <2>1, <2>2, <3>1, <3>2
  <2>3. CASE i # slot
    <3>1. chunk2.data[i] = chunk.data[i]
      BY <2>3
    <3>2. CellIsKept(cols, mem, mem2, CellAt(cols, size, i, x), x)
      BY <1>1, <2>3, PutKeepsCells
    <3>3. CellAt(cols, size, i, x).data \in Nat
      BY CellInItsColumn
    <3> HIDE DEF mem2
    <3>4. /\ \A r : IsRowOf(cols, r) /\ ShowsCell(cols, mem, CellAt(cols, size, i, x), x, r) =>
                ShowsCell(cols, mem2, CellAt(cols, size, i, x), x, r)
          /\ EndsInNul(cols, mem, CellAt(cols, size, i, x), x) =>
                EndsInNul(cols, mem2, CellAt(cols, size, i, x), x)
      BY <3>2, <3>3, KeptCellIsShown
    <3>5. chunk.data[i] # Blank =>
            /\ IsRowOf(cols, chunk.data[i])
            /\ ShowsCell(cols, mem, CellAt(cols, size, i, x), x, chunk.data[i])
      BY DEF Mirrors
    <3> QED BY <2>1, <3>1, <3>4, <3>5
  <2> QED BY <2>2, <2>3
<1> HIDE DEF mem2
<1> QED BY <1>2, <1>3 DEF Mirrors, mem2

-----------------------------------------------------------------------------
(* What the operations do to the slots of the chunks.                      *)
SameCells(chunk, chunk2) == chunk2.size = chunk.size /\ chunk2.data = chunk.data

CellsAreKept(st, st2) ==
    \A j \in 1 .. Len(st.chunk_store_) : SameCells(st.chunk_store_[j], st2.chunk_store_[j])

(* The chunks stay, and one without a row may be added.                    *)
CellsPrepared(st, st2) ==
    /\ CellsAreKept(st, st2)
    /\ \/ Len(st2.chunk_store_) = Len(st.chunk_store_)
       \/ /\ Len(st2.chunk_store_) = Len(st.chunk_store_) + 1
          /\ \A i \in 1 .. LastChunk(st2).size : LastChunk(st2).data[i] = Blank

LEMMA NewChunkIsBlank == \A n : \A i \in 1 .. NewChunk(n).size : NewChunk(n).data[i] = Blank
BY DEF NewChunk

LEMMA WithSpaceKeepsCells ==
    ASSUME NEW st, StorageOK(st), NEW n \in Nat
    PROVE  CellsPrepared(st, WithSpace(st, n))
<1>1. /\ StorageType(st) /\ Len(st.chunk_store_) = Len(st.chunk_index_)
  BY StorageParts DEF StorageOK, IndexOK
<1>2. CASE RemainingSpace(LastChunk(st)) = 0
  <2>1. WithSpace(st, n) = CreateChunk(st, n)
    BY <1>2 DEF WithSpace
  <2>2. ChunkAdded(st, n, CreateChunk(st, n))
    BY <1>1, CreateAddsChunk
  <2> HIDE DEF CreateChunk
  <2>3. /\ LastChunk(CreateChunk(st, n)) = NewChunk(n)
        /\ Len(CreateChunk(st, n).chunk_store_) = Len(st.chunk_store_) + 1
        /\ CellsAreKept(st, CreateChunk(st, n))
    BY <1>1, <2>2 DEF ChunkAdded, CellsAreKept, SameCells
  <2> QED BY <2>1, <2>3, NewChunkIsBlank DEF CellsPrepared
<1>3. CASE RemainingSpace(LastChunk(st)) # 0
  <2>1. WithSpace(st, n) = st
    BY <1>3 DEF WithSpace
  <2> QED BY <2>1 DEF CellsPrepared, CellsAreKept, SameCells
<1> QED BY <1>2, <1>3

(* Of a chunk only what prepare() and commit() keep apart is replaced.     *)
LEMMA SetLastKeepsCells ==
    ASSUME NEW st, StorageType(st), NEW chunk \in Chunks, SameCells(LastChunk(st), chunk),
           chunk.row_count >= LastChunk(st).row_count
    PROVE  /\ CellsAreKept(st, SetLastChunk(st, chunk))
           /\ Len(SetLastChunk(st, chunk).chunk_store_) = Len(st.chunk_store_)
           /\ LastChunk(SetLastChunk(st, chunk)) = chunk
<1> DEFINE st2 == SetLastChunk(st, chunk)
<1>1. ChunkSet(st, chunk, st2)
  BY SetLastChunkSets DEF SameCells
<1> HIDE DEF st2
<1>2. /\ \A j \in 1 .. Len(st.chunk_store_) :
            st2.chunk_store_[j] = IF j = Last(st) THEN chunk ELSE st.chunk_store_[j]
      /\ Last(st2) = Last(st) /\ LastChunk(st2) = chunk
  BY <1>1 DEF ChunkSet
<1>3. CellsAreKept(st, st2)
  BY <1>2 DEF CellsAreKept, SameCells, LastChunk
<1>4. Len(st2.chunk_store_) = Len(st.chunk_store_)
  BY <1>2 DEF Last
<1> QED BY <1>2, <1>3, <1>4 DEF st2

LEMMA PrepareKeepsCells ==
    ASSUME NEW st, StorageOK(st), NEW n \in Nat
    PROVE  CellsPrepared(st, Prepare(st, n))
<1> DEFINE sp == WithSpace(st, n)
           chunk == PrepareChunk(LastChunk(sp))
           st2 == SetLastChunk(sp, chunk)
<1>1. CellsPrepared(st, sp) /\ StorageOK(sp)
  BY WithSpaceKeepsCells, WithSpaceIsOK
<1>2. Prepare(st, n) = st2
  BY DEF Prepare
<1> HIDE DEF sp
<1>3. StorageType(sp) /\ LastChunk(sp) \in Chunks
  BY <1>1, LastChunkParts DEF StorageOK, IndexOK
<1>4. /\ chunk \in Chunks /\ SameCells(LastChunk(sp), chunk)
      /\ chunk.row_count >= LastChunk(sp).row_count
  <2>1. /\ chunk \in Chunks /\ chunk.size = LastChunk(sp).size
        /\ chunk.row_count = LastChunk(sp).row_count /\ chunk.data = LastChunk(sp).data
    BY <1>3, PrepareChunkParts
  <2>2. LastChunk(sp).row_count \in Nat
    BY <1>3, ChunkParts
  <2> HIDE DEF chunk
  <2> QED BY <2>1, <2>2 DEF SameCells
<1> HIDE DEF chunk
<1>5. /\ CellsAreKept(sp, st2) /\ Len(st2.chunk_store_) = Len(sp.chunk_store_)
      /\ LastChunk(st2) = chunk
  BY <1>3, <1>4, SetLastKeepsCells
<1> HIDE DEF st2
<1>6. CellsAreKept(st, st2)
  <2> SUFFICES ASSUME NEW j \in 1 .. Len(st.chunk_store_)
               PROVE  SameCells(st.chunk_store_[j], st2.chunk_store_[j])
    BY DEF CellsAreKept
  <2>1. Len(st.chunk_store_) \in Nat
    BY StorageParts DEF StorageOK, IndexOK
  <2>2. j \in 1 .. Len(sp.chunk_store_)
    BY <1>1, <2>1 DEF CellsPrepared
  <2>3. SameCells(st.chunk_store_[j], sp.chunk_store_[j])
    BY <1>1 DEF CellsPrepared, CellsAreKept
  <2>4. SameCells(sp.chunk_store_[j], st2.chunk_store_[j])
    BY <1>5, <2>2 DEF CellsAreKept
  <2> QED BY <2>3, <2>4 DEF SameCells
<1>7. CASE Len(sp.chunk_store_) = Len(st.chunk_store_)
  BY <1>2, <1>5, <1>6, <1>7 DEF CellsPrepared
<1>8. CASE Len(sp.chunk_store_) # Len(st.chunk_store_)
  <2>1. /\ Len(sp.chunk_store_) = Len(st.chunk_store_) + 1
        /\ \A i \in 1 .. LastChunk(sp).size : LastChunk(sp).data[i] = Blank
    BY <1>1, <1>8 DEF CellsPrepared
  <2> QED BY <1>2, <1>4, <1>5, <1>6, <2>1 DEF CellsPrepared, SameCells
<1> QED BY <1>7, <1>8

LEMMA CommitKeepsCells ==
    ASSUME NEW st, StorageOK(st), NEW q \in Nat,
           LastChunk(st).row_count + q <= LastChunk(st).size
    PROVE  /\ CellsAreKept(st, Commit(st, q))
           /\ Len(Commit(st, q).chunk_store_) = Len(st.chunk_store_)
<1> DEFINE st2 == Commit(st, q)
<1>1. /\ LastChunk(st2).size = LastChunk(st).size /\ LastChunk(st2).data = LastChunk(st).data
      /\ Last(st2) = Last(st)
      /\ \A j \in 1 .. Len(st.chunk_store_) :
            j # Last(st) => st2.chunk_store_[j] = st.chunk_store_[j]
  BY CommitCounts
<1> HIDE DEF st2
<1>2. CellsAreKept(st, st2)
  BY <1>1 DEF CellsAreKept, SameCells, LastChunk
<1> QED BY <1>1, <1>2 DEF Last, st2

(* A row is written to the slot behind those already written.              *)
RowAdded(st, slot, row, st2) ==
    /\ Len(st2.chunk_store_) = Len(st.chunk_store_)
    /\ slot \in 1 .. LastChunk(st).size
    /\ LastChunk(st2).size = LastChunk(st).size
    /\ \A i \in 1 .. LastChunk(st).size :
        LastChunk(st2).data[i] = IF i = slot THEN row ELSE LastChunk(st).data[i]
    /\ \A j \in 1 .. Len(st.chunk_store_) :
        j # Last(st) => st2.chunk_store_[j] = st.chunk_store_[j]

LEMMA WriteAddsRow ==
    ASSUME StorageInv, NEW row \in Rows, Len(written) < area.rows
    PROVE  RowAdded(storage, area.first + Len(written), row,
                    WriteArea(storage, area, Append(written, row)))
<1> DEFINE rows == Append(written, row)
           chunk == WriteChunk(LastChunk(storage), area, rows)
           st2 == SetLastChunk(storage, chunk)
           slot == area.first + Len(written)
<1>1. /\ StorageOK(storage) /\ area \in Areas /\ written \in Seq(Rows)
      /\ Len(written) \in Nat
  BY LenProperties DEF StorageInv, AreaInv
<1>2. area # NoArea /\ IsPrepared(storage, area) /\ area.rows \in Nat
  BY <1>1 DEF NoArea, Areas, StorageInv, AreaInv
<1>3. /\ StorageType(storage) /\ LastChunk(storage) \in Chunks /\ area.first \in Nat
      /\ area.chunk = Last(storage) /\ area.first = LastChunk(storage).row_count + 1
      /\ area.first + area.rows - 1 <= LastChunk(storage).size
      /\ LastChunk(storage).row_count \in Nat /\ LastChunk(storage).size \in Nat
      /\ LastChunk(storage).row_count <= LastChunk(storage).size
  BY <1>1, <1>2, LastChunkParts, ChunkParts DEF StorageOK, IndexOK, IsPrepared
<1>4. slot \in 1 .. LastChunk(storage).size
  <2> DEFINE len == Len(written)
             first == area.first
             count == LastChunk(storage).row_count
             size == LastChunk(storage).size
  <2>1. /\ len \in Nat /\ area.rows \in Nat /\ len < area.rows
        /\ count \in Nat /\ first = count + 1 /\ size \in Nat /\ first + area.rows - 1 <= size
    BY <1>1, <1>2, <1>3
  <2> HIDE DEF len, first, count, size
  <2>2. first + len \in 1 .. size
    BY <2>1
  <2> QED BY <2>2 DEF len, first, size
<1>5. /\ rows \in Seq(Rows) /\ Len(rows) = Len(written) + 1
      /\ \A i \in 1 .. Len(written) : rows[i] = written[i]
      /\ rows[Len(written) + 1] = row
  BY <1>1, AppendProperties
<1>6. \A i \in 1 .. Len(written) :
        LastChunk(storage).data[area.first + i - 1] = written[i]
  BY <1>2 DEF StorageInv, AreaInv
<1> HIDE DEF rows
<1>7. rows \in Seq(Cells)
  BY <1>5 DEF Cells
<1>8. WriteArea(storage, area, rows) = st2
  BY <1>3 DEF WriteArea, SetLastChunk, LastChunk, Last
<1>9. /\ chunk \in Chunks /\ chunk.size = LastChunk(storage).size
      /\ chunk.row_count = LastChunk(storage).row_count
      /\ \A i \in 1 .. LastChunk(storage).size :
            chunk.data[i] = IF i >= area.first /\ i < area.first + Len(rows)
                            THEN rows[i - area.first + 1] ELSE LastChunk(storage).data[i]
  BY <1>3, <1>7, WriteChunkParts
<1> HIDE DEF chunk
<1>10. ASSUME NEW i \in 1 .. LastChunk(storage).size
       PROVE  chunk.data[i] = IF i = slot THEN row ELSE LastChunk(storage).data[i]
  <2> DEFINE j == i - area.first + 1
  <2>1. CASE i = slot
    <3>1. i >= area.first /\ i < area.first + Len(rows) /\ j = Len(written) + 1
      BY <1>1, <1>3, <1>5, <2>1
    <3> HIDE DEF slot
    <3>2. chunk.data[i] = rows[j]
      BY <1>9, <3>1
    <3> QED BY <1>5, <2>1, <3>1, <3>2
  <2>2. CASE i # slot /\ i >= area.first /\ i < area.first + Len(rows)
    <3>1. j \in 1 .. Len(written) /\ area.first + j - 1 = i
      <4> DEFINE first == area.first
                 len == Len(written)
      <4>1. /\ i \in Int /\ first \in Nat /\ len \in Nat /\ i # first + len
            /\ i >= first /\ i < first + (len + 1)
        BY <1>1, <1>3, <1>5, <2>2
      <4> HIDE DEF first, len
      <4>2. i - first + 1 \in 1 .. len /\ first + (i - first + 1) - 1 = i
        BY <4>1
      <4> QED BY <4>2 DEF first, len
    <3>2. chunk.data[i] = rows[j]
      BY <1>9, <2>2
    <3> HIDE DEF j, slot
    <3> QED BY <1>5, <1>6, <2>2, <3>1, <3>2
  <2>3. CASE i # slot /\ ~(i >= area.first /\ i < area.first + Len(rows))
    <3> HIDE DEF slot
    <3> QED BY <1>9, <2>3
  <2> QED BY <2>1, <2>2, <2>3
<1>11. /\ Len(st2.chunk_store_) = Len(storage.chunk_store_)
       /\ LastChunk(st2) = chunk
       /\ \A j \in 1 .. Len(storage.chunk_store_) :
            j # Last(storage) => st2.chunk_store_[j] = storage.chunk_store_[j]
  <2>1. chunk.row_count >= LastChunk(storage).row_count
    BY <1>3, <1>9
  <2>2. \A i \in 1 .. LastChunk(storage).row_count : chunk.data[i] = LastChunk(storage).data[i]
    BY <1>3, <1>9
  <2>3. ChunkSet(storage, chunk, st2)
    BY <1>3, <1>9, <2>1, <2>2, SetLastChunkSets
  <2> HIDE DEF st2
  <2> QED BY <2>3 DEF ChunkSet, Last
<1> HIDE DEF st2, slot
<1>12. RowAdded(storage, slot, row, st2)
  BY <1>4, <1>9, <1>10, <1>11 DEF RowAdded
<1> QED BY <1>8, <1>12 DEF rows, slot

-----------------------------------------------------------------------------
(* The bytes of every chunk show the rows of its slots.                    *)
IsListOf(mems, n) == mems = [k \in 1 .. n |-> mems[k]]

ShowsStorage(cols, mems, st) ==
    /\ IsListOf(mems, Len(st.chunk_store_))
    /\ \A k \in 1 .. Len(st.chunk_store_) : Mirrors(cols, mems[k], st.chunk_store_[k])

BytesInv ==
    /\ columns \in Tables /\ Generates(columns)
    /\ ShowsStorage(columns, memory, storage)

AllAreRows(cols) == \A row \in Rows : IsRowOf(cols, row)

LEMMA TablesHaveColumns ==
    ASSUME NEW t \in Tables, Generates(t)
    PROVE  AreColumns(t) /\ AllAreRows(t)
<1>1. t \in Seq([sql_type : STRING, byte_len : Nat])
  BY TablesAreTables
<1>2. Len(t) \in Nat /\ \A x \in 1 .. Len(t) : t[x] \in [sql_type : STRING, byte_len : Nat]
  BY <1>1, LenProperties, ElementOfSeq
<1>3. AreColumns(t)
  BY <1>2 DEF AreColumns, IsColumn, Generates
<1>4. \A row \in Rows : row \in [1 .. Len(t) -> Nat \cup {SQL_NULL_DATA}]
  BY TablesAreTables
<1>5. AllAreRows(t)
  BY <1>4 DEF AllAreRows, IsRowOf, Lengths
<1> QED BY <1>3, <1>5

LEMMA CellsAreRowsOrBlank ==
    ASSUME NEW cols, AllAreRows(cols), NEW chunk \in Chunks
    PROVE  \A i \in 1 .. chunk.size : chunk.data[i] # Blank => IsRowOf(cols, chunk.data[i])
<1>1. chunk.data \in [1 .. chunk.size -> Cells]
  BY ChunkParts
<1> QED BY <1>1 DEF Cells, AllAreRows

(* The driver writes where a reader will look for the row.                 *)
LEMMA TargetIsCell ==
    ASSUME AreColumns(columns), StorageInv, area # NoArea, NEW i \in Nat \ {0},
           NEW x \in 1 .. Len(columns)
    PROVE  Target(i, x) = CellAt(columns, LastChunk(storage).size, area.first + i - 1, x)
<1> DEFINE size == LastChunk(storage).size
           first == area.first
           w == get_column_size(columns[x])
           begin == ColumnBegin(columns, size, x)
           ind == IndicatorBegin(size, x)
<1>1. /\ storage.chunk_store_[area.chunk].size = size /\ first \in Nat \ {0}
      /\ size \in Nat
  <2>1. IsPrepared(storage, area) /\ StorageType(storage)
    BY DEF StorageInv, AreaInv, StorageOK, IndexOK
  <2>2. LastChunk(storage) \in Chunks
    BY <2>1, LastChunkParts
  <2>3. /\ area.chunk = Last(storage) /\ area.first = LastChunk(storage).row_count + 1
        /\ LastChunk(storage).size \in Nat /\ LastChunk(storage).row_count \in Nat
    BY <2>1, <2>2, ChunkParts DEF IsPrepared
  <2> QED BY <2>3 DEF LastChunk
<1>2. w \in Nat /\ begin \in Nat /\ ind \in Int
  <2>1. x \in 1 .. Len(columns) + 1 /\ Len(columns) \in Nat
    BY DEF AreColumns
  <2>2. begin \in Nat
    BY <1>1, <2>1, ColumnsAddUp
  <2>3. w \in Nat
    BY ColumnsHaveWidth DEF AreColumns
  <2>4. ind \in Int
    BY <1>1, <2>1 DEF IndicatorBegin
  <2> QED BY <2>2, <2>3, <2>4
<1>3. Target(i, x) = [data |-> (begin + (first - 1) * w) + (i - 1) * w,
                      indicator |-> (ind + (first - 1)) + (i - 1)]
  BY <1>1 DEF Target, bound, PreparedPointers
<1>4. CellAt(columns, size, first + i - 1, x)
        = [data |-> begin + ((first + i - 1) - 1) * w,
           indicator |-> ind + ((first + i - 1) - 1)]
  BY DEF CellAt
<1> HIDE DEF size, first, w, begin, ind
<1>5. (begin + (first - 1) * w) + (i - 1) * w = begin + ((first + i - 1) - 1) * w
  BY <1>1, <1>2
<1>6. (ind + (first - 1)) + (i - 1) = ind + ((first + i - 1) - 1)
  BY <1>1, <1>2
<1> QED BY <1>3, <1>4, <1>5, <1>6 DEF size, first

LEMMA WrittenRowIsPut ==
    ASSUME AreColumns(columns), StorageInv, area # NoArea, NEW i \in Nat \ {0}, NEW mem, NEW row
    PROVE  RowWritten(mem, row, i)
                = RowPut(columns, mem, LastChunk(storage).size, area.first + i - 1, row)
<1>1. \A x \in 1 .. Len(columns) :
        Target(i, x) = CellAt(columns, LastChunk(storage).size, area.first + i - 1, x)
  BY TargetIsCell
<1>2. [x \in 1 .. Len(columns) |-> Target(i, x).data]
        = DataPlaces(columns, LastChunk(storage).size, area.first + i - 1)
  BY <1>1, Zenon DEF DataPlaces
<1>3. [x \in 1 .. Len(columns) |-> Target(i, x).indicator]
        = IndicatorPlaces(columns, LastChunk(storage).size, area.first + i - 1)
  BY <1>1, Zenon DEF IndicatorPlaces
<1> QED BY <1>2, <1>3, Zenon DEF RowWritten, RowPut, RowCells, RowLengths, Written

LEMMA FreshBytes ==
    ASSUME NEW cols, AreColumns(cols)
    PROVE  ShowsStorage(cols, <<ChunkMemory(cols, DefaultChunkSize)>>, FreshStorage)
<1> DEFINE chunk == NewChunk(DefaultChunkSize)
           mem == ChunkMemory(cols, DefaultChunkSize)
<1>1. chunk.size = DefaultChunkSize /\ DefaultChunkSize \in Nat
  BY ChunkSizeIsPositive, NewChunkParts DEF CalcChunkSize
<1>2. \A i \in 1 .. chunk.size : chunk.data[i] = Blank
  BY NewChunkIsBlank
<1> HIDE DEF chunk
<1>3. Mirrors(cols, mem, chunk)
  BY <1>1, <1>2, NewMemoryMirrors
<1>4. FreshStorage.chunk_store_ = <<chunk>>
  BY DEF FreshStorage, chunk
<1> HIDE DEF mem
<1>5. <<mem>> = [k \in 1 .. 1 |-> <<mem>>[k]] /\ <<mem>>[1] = mem
  OBVIOUS
<1>6. Len(<<chunk>>) = 1 /\ <<chunk>>[1] = chunk
  OBVIOUS
<1>7. ShowsStorage(cols, <<mem>>, FreshStorage)
  BY <1>3, <1>4, <1>5, <1>6 DEF ShowsStorage, IsListOf
<1> QED BY <1>7 DEF mem

LEMMA KeptCellsAreShown ==
    ASSUME NEW cols, NEW mems, NEW st, NEW st2, ShowsStorage(cols, mems, st),
           CellsAreKept(st, st2), Len(st2.chunk_store_) = Len(st.chunk_store_)
    PROVE  ShowsStorage(cols, mems, st2)
BY SameCellsMirror DEF ShowsStorage, CellsAreKept, SameCells

(* prepare() may add a chunk, with a memory of its own.                    *)
LEMMA PreparedIsShown ==
    ASSUME NEW cols, AreColumns(cols), NEW mems, NEW st, NEW st2, StorageType(st),
           StorageType(st2), ShowsStorage(cols, mems, st), CellsPrepared(st, st2)
    PROVE  ShowsStorage(cols,
                mems \o [k \in 1 .. Len(st2.chunk_store_) - Len(mems) |->
                            ChunkMemory(cols, LastChunk(st2).size)], st2)
<1> DEFINE n == Len(st.chunk_store_)
           mem == ChunkMemory(cols, LastChunk(st2).size)
           S == {mems[k] : k \in 1 .. n} \cup {mem}
           d == Len(st2.chunk_store_) - Len(mems)
           more == [k \in 1 .. d |-> mem]
           mems2 == mems \o more
<1>1. n \in Nat /\ LastChunk(st2) \in Chunks
  BY StorageParts, LastChunkParts
<1>2. mems \in Seq(S) /\ Len(mems) = n
  <2>1. mems = [k \in 1 .. n |-> mems[k]]
    BY DEF ShowsStorage, IsListOf
  <2>2. \A k \in 1 .. n : mems[k] \in S
    OBVIOUS
  <2> HIDE DEF n, S
  <2> QED BY <1>1, <2>1, <2>2, IsASeq
<1>3. \A k \in 1 .. n : Mirrors(cols, mems[k], st.chunk_store_[k])
  BY DEF ShowsStorage
<1>4. \A k \in 1 .. n : Mirrors(cols, mems[k], st2.chunk_store_[k])
  BY <1>3, SameCellsMirror DEF CellsPrepared, CellsAreKept, SameCells
<1>5. CASE Len(st2.chunk_store_) = n
  <2>1. more = << >>
    BY <1>1, <1>2, <1>5
  <2> HIDE DEF more, S
  <2>2. mems2 = mems
    BY <1>2, <2>1, ConcatEmptySeq
  <2>3. IsListOf(mems, Len(st2.chunk_store_))
    BY <1>5 DEF ShowsStorage
  <2> HIDE DEF mems2, mem
  <2>4. ShowsStorage(cols, mems, st2)
    BY <1>4, <1>5, <2>3 DEF ShowsStorage
  <2> QED BY <2>2, <2>4, Zenon DEF mems2, more, mem, d
<1>6. CASE Len(st2.chunk_store_) # n
  <2>1. /\ Len(st2.chunk_store_) = n + 1
        /\ \A i \in 1 .. LastChunk(st2).size : LastChunk(st2).data[i] = Blank
    BY <1>6 DEF CellsPrepared
  <2>2. LastChunk(st2) = st2.chunk_store_[n + 1]
    BY <2>1 DEF LastChunk, Last
  <2>3. LastChunk(st2).size \in Nat
    BY <1>1, ChunkParts
  <2>4. Mirrors(cols, mem, st2.chunk_store_[n + 1])
    BY <2>1, <2>2, <2>3, NewMemoryMirrors
  <2> HIDE DEF mem
  <2>5. more \in Seq(S) /\ Len(more) = 1 /\ more[1] = mem
    <3>1. d = 1
      BY <1>1, <1>2, <2>1
    <3>2. mem \in S
      OBVIOUS
    <3> HIDE DEF S, d
    <3>3. more = [k \in 1 .. 1 |-> mem]
      BY <3>1, Zenon
    <3> HIDE DEF more
    <3> QED BY <3>2, <3>3, IsASeq
  <2> HIDE DEF more, S, n
  <2>6. /\ mems2 \in Seq(S) /\ Len(mems2) = n + 1
        /\ \A k \in 1 .. n : mems2[k] = mems[k]
        /\ mems2[n + 1] = mem
    <3>1. /\ mems2 \in Seq(S) /\ Len(mems2) = Len(mems) + Len(more)
          /\ \A k \in 1 .. Len(mems) + Len(more) :
                mems2[k] = IF k <= Len(mems) THEN mems[k] ELSE more[k - Len(mems)]
      BY <1>2, <2>5, ConcatProperties
    <3> HIDE DEF mems2
    <3> QED BY <1>1, <1>2, <2>5, <3>1
  <2> HIDE DEF mems2
  <2>7. IsListOf(mems2, n + 1)
    BY <2>6 DEF IsListOf
  <2>8. ASSUME NEW k \in 1 .. n + 1 PROVE Mirrors(cols, mems2[k], st2.chunk_store_[k])
    <3>1. CASE k = n + 1
      BY <2>4, <2>6, <3>1
    <3>2. CASE k # n + 1
      <4>1. k \in 1 .. n
        BY <1>1, <3>2
      <4> QED BY <1>4, <2>6, <4>1
    <3> QED BY <3>1, <3>2
  <2>9. IsListOf(mems2, Len(st2.chunk_store_))
    BY <2>1, <2>7
  <2>10. ShowsStorage(cols, mems2, st2)
    BY <2>1, <2>8, <2>9 DEF ShowsStorage
  <2> QED BY <2>10, Zenon DEF mems2, more, mem, d
<1> QED BY <1>5, <1>6

LEMMA AddedRowIsShown ==
    ASSUME NEW cols, AreColumns(cols), AllAreRows(cols), NEW mems, NEW st, NEW st2,
           StorageType(st), ShowsStorage(cols, mems, st), NEW row \in Rows, NEW slot,
           RowAdded(st, slot, row, st2)
    PROVE  ShowsStorage(cols,
                [mems EXCEPT ![Last(st)] =
                    RowPut(cols, mems[Last(st)], LastChunk(st).size, slot, row)], st2)
<1> DEFINE n == Last(st)
           mem2 == RowPut(cols, mems[n], LastChunk(st).size, slot, row)
           mems2 == [mems EXCEPT ![n] = mem2]
<1>1. /\ n \in 1 .. Len(st.chunk_store_) /\ LastChunk(st) \in Chunks
      /\ LastChunk(st) = st.chunk_store_[n] /\ n = Len(st.chunk_store_)
  BY StorageParts, LastChunkParts DEF LastChunk, Last
<1>2. /\ IsListOf(mems, Len(st.chunk_store_))
      /\ \A k \in 1 .. Len(st.chunk_store_) : Mirrors(cols, mems[k], st.chunk_store_[k])
  BY DEF ShowsStorage
<1>3. /\ Len(st2.chunk_store_) = Len(st.chunk_store_)
      /\ slot \in 1 .. LastChunk(st).size
      /\ LastChunk(st2).size = LastChunk(st).size
      /\ \A i \in 1 .. LastChunk(st).size :
            LastChunk(st2).data[i] = IF i = slot THEN row ELSE LastChunk(st).data[i]
      /\ \A j \in 1 .. Len(st.chunk_store_) :
            j # n => st2.chunk_store_[j] = st.chunk_store_[j]
  BY DEF RowAdded
<1>4. LastChunk(st2) = st2.chunk_store_[n]
  BY <1>3 DEF LastChunk, Last
<1> HIDE DEF n
<1>5. Mirrors(cols, mem2, st2.chunk_store_[n])
  <2>1. Mirrors(cols, mems[n], LastChunk(st))
    BY <1>1, <1>2
  <2>2. LastChunk(st).size \in Nat /\ IsRowOf(cols, row)
    BY <1>1, ChunkParts DEF AllAreRows
  <2>3. \A i \in 1 .. LastChunk(st).size :
            LastChunk(st).data[i] # Blank => IsRowOf(cols, LastChunk(st).data[i])
    BY <1>1, CellsAreRowsOrBlank
  <2>4. Mirrors(cols, mem2, LastChunk(st2))
    BY <1>3, <2>1, <2>2, <2>3, PutRowMirrors
  <2> QED BY <1>4, <2>4
<1> HIDE DEF mem2
<1>6. /\ IsListOf(mems2, Len(st.chunk_store_))
      /\ \A k \in 1 .. Len(st.chunk_store_) : mems2[k] = IF k = n THEN mem2 ELSE mems[k]
  <2>1. mems = [k \in 1 .. Len(st.chunk_store_) |-> mems[k]]
    BY <1>2 DEF IsListOf
  <2>2. mems2 = [k \in 1 .. Len(st.chunk_store_) |-> IF k = n THEN mem2 ELSE mems[k]]
    BY <2>1
  <2> HIDE DEF mems2
  <2> QED BY <2>2 DEF IsListOf
<1> HIDE DEF mems2
<1>7. ASSUME NEW k \in 1 .. Len(st.chunk_store_)
      PROVE  Mirrors(cols, mems2[k], st2.chunk_store_[k])
  <2>1. CASE k = n
    BY <1>5, <1>6, <2>1
  <2>2. CASE k # n
    BY <1>2, <1>3, <1>6, <2>2
  <2> QED BY <2>1, <2>2
<1>8. IsListOf(mems2, Len(st2.chunk_store_))
  BY <1>3, <1>6
<1>9. ShowsStorage(cols, mems2, st2)
  BY <1>3, <1>7, <1>8 DEF ShowsStorage
<1> QED BY <1>9 DEF mems2, mem2, n

LEMMA InitShowsRows == MemoryInit => BytesInv
<1> SUFFICES ASSUME MemoryInit PROVE BytesInv
  OBVIOUS
<1>1. /\ columns \in Tables /\ Generates(columns) /\ storage = FreshStorage
      /\ memory = <<ChunkMemory(columns, DefaultChunkSize)>>
  BY DEF MemoryInit, Init
<1>2. AreColumns(columns)
  BY <1>1, TablesHaveColumns
<1> QED BY <1>1, <1>2, FreshBytes DEF BytesInv

LEMMA BytesStep == StorageInv /\ BytesInv /\ [MemoryNext]_<<vars, memoryVars>> => BytesInv'
<1> SUFFICES ASSUME StorageInv, BytesInv, [MemoryNext]_<<vars, memoryVars>> PROVE BytesInv'
  OBVIOUS
<1>1. /\ columns \in Tables /\ Generates(columns)
      /\ ShowsStorage(columns, memory, storage)
      /\ AreColumns(columns) /\ AllAreRows(columns)
  BY TablesHaveColumns DEF BytesInv
<1>2. StorageOK(storage) /\ StorageType(storage)
  BY DEF StorageInv, StorageOK, IndexOK
<1>3. columns' = columns
  BY DEF MemoryNext, MemoryPrepare, MemoryWrite, MemoryCommit, MemoryDrop, memoryVars
<1>4. SUFFICES ShowsStorage(columns, memory', storage')
  BY <1>1, <1>3 DEF BytesInv
<1>5. CASE storage' = storage /\ memory' = memory
  BY <1>1, <1>5
<1>6. ASSUME NEW n \in 1 .. MaxRequest, MemoryPrepare(n)
      PROVE  ShowsStorage(columns, memory', storage')
  <2>1. memory' = memory \o [k \in 1 .. Len(storage'.chunk_store_) - Len(memory) |->
                                ChunkMemory(columns, LastChunk(storage').size)]
    BY <1>6 DEF MemoryPrepare
  <2>2. storage' = storage \/ storage' = Prepare(storage, n)
    BY <1>6 DEF MemoryPrepare, DoPrepare, Aborts
  <2>3. n \in Nat /\ n \in Nat \ {0}
    BY RequestsArePositive
  <2>4. CellsPrepared(storage, storage') /\ StorageType(storage')
    <3>1. CASE storage' = storage
      BY <1>2, <3>1 DEF CellsPrepared, CellsAreKept, SameCells
    <3>2. CASE storage' = Prepare(storage, n)
      <4>1. CellsPrepared(storage, Prepare(storage, n))
        BY <1>2, <2>3, PrepareKeepsCells
      <4>2. StorageType(Prepare(storage, n))
        BY <1>2, <2>3, PrepareKeeps DEF Kept, StorageOK, IndexOK
      <4> QED BY <3>2, <4>1, <4>2
    <3> QED BY <2>2, <3>1, <3>2
  <2>5. ShowsStorage(columns,
            memory \o [k \in 1 .. Len(storage'.chunk_store_) - Len(memory) |->
                        ChunkMemory(columns, LastChunk(storage').size)], storage')
    BY <1>1, <1>2, <2>4, PreparedIsShown
  <2> QED BY <2>1, <2>5
<1>7. ASSUME NEW row \in Rows, MemoryWrite(row)
      PROVE  ShowsStorage(columns, memory', storage')
  <2>1. /\ Len(written) < area.rows
        /\ storage' = WriteArea(storage, area, Append(written, row))
        /\ memory' = [memory EXCEPT ![area.chunk] = RowWritten(@, row, Len(written) + 1)]
    BY <1>7 DEF MemoryWrite, DoWrite
  <2>2. /\ Len(written) \in Nat /\ area # NoArea /\ area.first \in Nat
        /\ area.chunk = Last(storage)
    <3>1. area \in Areas /\ Len(written) \in Nat
      BY LenProperties DEF StorageInv, AreaInv
    <3>2. area # NoArea
      BY <2>1, <3>1 DEF NoArea
    <3> QED BY <3>1, <3>2 DEF StorageInv, AreaInv, IsPrepared, Areas
  <2> DEFINE slot == area.first + Len(written)
  <2>3. RowAdded(storage, slot, row, storage')
    BY <2>1, WriteAddsRow
  <2>4. area.first + (Len(written) + 1) - 1 = slot /\ Len(written) + 1 \in Nat \ {0}
    BY <2>2
  <2> HIDE DEF slot
  <2>5. RowWritten(memory[Last(storage)], row, Len(written) + 1)
            = RowPut(columns, memory[Last(storage)], LastChunk(storage).size, slot, row)
    BY <1>1, <2>2, <2>4, WrittenRowIsPut
  <2>6. ShowsStorage(columns,
            [memory EXCEPT ![Last(storage)] =
                RowPut(columns, memory[Last(storage)], LastChunk(storage).size, slot, row)],
            storage')
    BY <1>1, <1>2, <2>3, AddedRowIsShown
  <2>7. memory' = [memory EXCEPT ![Last(storage)] =
            RowPut(columns, memory[Last(storage)], LastChunk(storage).size, slot, row)]
    BY <2>1, <2>2, <2>5
  <2> QED BY <2>6, <2>7
<1>8. ASSUME NEW q \in 0 .. Len(written), MemoryCommit(q)
      PROVE  ShowsStorage(columns, memory', storage')
  <2>1. memory' = memory /\ (storage' = storage \/ storage' = Commit(storage, q)) /\ area # NoArea
    BY <1>8 DEF MemoryCommit, DoCommit, Aborts, memoryVars
  <2>2. q \in Nat /\ LastChunk(storage).row_count + q <= LastChunk(storage).size
    <3>1. /\ area \in Areas /\ IsPrepared(storage, area) /\ Len(written) \in Nat
          /\ Len(written) <= area.rows /\ LastChunk(storage) \in Chunks
      BY <1>2, <2>1, LenProperties, LastChunkParts DEF StorageInv, AreaInv
    <3>2. /\ LastChunk(storage).row_count \in Nat /\ LastChunk(storage).size \in Nat
          /\ area.first = LastChunk(storage).row_count + 1 /\ area.rows \in Nat
          /\ area.first + area.rows - 1 <= LastChunk(storage).size
      BY <3>1, ChunkParts DEF IsPrepared, Areas
    <3> QED BY <3>1, <3>2
  <2>3. CASE storage' = storage
    BY <1>1, <2>1, <2>3
  <2>4. CASE storage' = Commit(storage, q)
    <3>1. /\ CellsAreKept(storage, Commit(storage, q))
          /\ Len(Commit(storage, q).chunk_store_) = Len(storage.chunk_store_)
      BY <1>2, <2>2, CommitKeepsCells
    <3>2. ShowsStorage(columns, memory, Commit(storage, q))
      BY <1>1, <3>1, KeptCellsAreShown
    <3> QED BY <2>1, <2>4, <3>2
  <2> QED BY <2>1, <2>3, <2>4
<1>9. ASSUME MemoryDrop PROVE ShowsStorage(columns, memory', storage')
  <2>1. storage' = FreshStorage /\ memory' = <<ChunkMemory(columns, DefaultChunkSize)>>
    BY <1>9 DEF MemoryDrop, DoDrop
  <2> QED BY <1>1, <2>1, FreshBytes
<1>10. CASE UNCHANGED <<vars, memoryVars>>
  BY <1>5, <1>10 DEF vars, memoryVars
<1> QED BY <1>6, <1>7, <1>8, <1>9, <1>10 DEF MemoryNext

LEMMA BytesInvHolds == MemorySpec => [](StorageInv /\ BytesInv)
<1>1. StorageInv /\ BytesInv /\ [MemoryNext]_<<vars, memoryVars>> => BytesInv'
  BY BytesStep
<1> QED BY <1>1, InitShowsRows, MemoryImplementsStorage, StorageInvHolds, PTL DEF MemorySpec

-----------------------------------------------------------------------------
(* A cell that shows a row reads as that row promises.                     *)
LEMMA ShownCellIsRead ==
    ASSUME NEW cols, AreColumns(cols), NEW row, IsRowOf(cols, row), NEW x \in 1 .. Len(cols),
           NEW size \in Nat, NEW i \in 1 .. size, NEW mem, HasBuffers(cols, mem, size),
           ShowsCell(cols, mem, CellAt(cols, size, i, x), x, row),
           EndsInNul(cols, mem, CellAt(cols, size, i, x), x)
    PROVE  (IF IsNull(mem.indicators[CellAt(cols, size, i, x).indicator]) THEN "null"
            ELSE ReadCell(cols[x], mem.data, CellAt(cols, size, i, x).data))
                = Promised(cols[x], <<row, x>>, row[x])
<1> DEFINE cell == CellAt(cols, size, i, x)
           total == calculate_data_size(cols, size)
<1>1. mem.indicators[cell.indicator] = row[x] /\ row[x] \in Lengths
  BY DEF ShowsCell, IsRowOf
<1>2. CASE row[x] = SQL_NULL_DATA
  <2>1. Promised(cols[x], <<row, x>>, row[x]) = "null"
    BY <1>2 DEF Promised
  <2> QED BY <1>1, <1>2, <2>1 DEF IsNull
<1>3. CASE row[x] # SQL_NULL_DATA
  <2>1. row[x] \in Nat
    BY <1>1, <1>3 DEF Lengths
  <2>2. /\ cell.data \in Nat /\ cell.data + get_column_size(cols[x]) <= total /\ total \in Nat
    BY CellLiesInside, ColumnEndsInside DEF LiesInside, Width
  <2>3. HasBytes(mem.data, cell.data, Written(cols[x], <<row, x>>, row[x]))
    BY DEF ShowsCell
  <2>4. cols[x].sql_type = "SQL_BINARY" => mem.data[cell.data + cols[x].byte_len] = Nul
    BY DEF EndsInNul
  <2>5. DOMAIN mem.data = 0 .. total - 1
    BY DEF HasBuffers
  <2>6. IsColumn(cols[x])
    BY DEF AreColumns
  <2> HIDE DEF cell, total
  <2>7. ReadCell(cols[x], mem.data, cell.data) = Promised(cols[x], <<row, x>>, row[x])
    BY <2>1, <2>2, <2>3, <2>4, <2>5, <2>6, ValueIsReadBack
  <2>8. ~IsNull(mem.indicators[cell.indicator])
    BY <1>1, <1>3 DEF IsNull
  <2> QED BY <2>7, <2>8 DEF cell
<1> QED BY <1>2, <1>3

LEMMA InvReadsCells == StorageInv /\ BytesInv => ViewsReadTheirCells
<1> SUFFICES ASSUME StorageInv, BytesInv, NEW row \in 1 .. storage.row_count_,
                    NEW x \in 1 .. Len(columns)
             PROVE  ViewReads(row, x) = Promised(columns[x], <<GetValue(storage, row), x>>,
                                                 GetValue(storage, row)[x])
  BY DEF ViewsReadTheirCells
<1>1. /\ StorageOK(storage) /\ IndexOK(storage) /\ CommittedCellsAreRows(storage)
      /\ AreColumns(columns) /\ AllAreRows(columns)
      /\ ShowsStorage(columns, memory, storage)
  BY TablesHaveColumns DEF StorageInv, BytesInv, StorageOK
<1>2. PICK k \in 1 .. Len(storage.chunk_index_) :
        /\ Holds(storage, k, row)
        /\ FindChunk(storage, row) = {k}
        /\ (row - storage.chunk_index_[k].first_row) + 1 <= storage.chunk_store_[k].row_count
        /\ ValueAt(storage, k, row) \in Rows
        /\ GetValue(storage, row) = ValueAt(storage, k, row)
  BY <1>1, RowOfStorage
<1> DEFINE chunk == storage.chunk_store_[k]
           i == (row - storage.chunk_index_[k].first_row) + 1
           cell == CellAt(columns, chunk.size, i, x)
           stored == GetValue(storage, row)
<1>3. /\ storage.chunk_index_[k].chunk = k
      /\ storage.chunk_index_[k].first_row \in Nat
      /\ k \in 1 .. Len(storage.chunk_store_) /\ chunk \in Chunks
  BY <1>1, StorageParts DEF IndexOK, IndexDescribesChunks
<1>4. chunk.size \in Nat /\ chunk.row_count \in Nat /\ chunk.row_count <= chunk.size
  BY <1>3, ChunkParts
<1>5. i \in 1 .. chunk.size
  <2> DEFINE first == storage.chunk_index_[k].first_row
             rows == chunk.row_count
             size == chunk.size
  <2>1. /\ row \in Nat /\ first \in Nat /\ rows \in Nat /\ size \in Nat
        /\ row >= first /\ (row - first) + 1 <= rows /\ rows <= size
    BY <1>1, <1>2, <1>3, <1>4, StorageParts DEF Holds, Contains, IndexOK
  <2> HIDE DEF first, rows, size
  <2>2. (row - first) + 1 \in 1 .. size
    BY <2>1
  <2> QED BY <2>2 DEF first, size
<1>6. chunk.data[i] = stored /\ stored \in Rows
  BY <1>2, <1>3 DEF ValueAt
<1>7. stored # Blank /\ IsRowOf(columns, stored)
  BY <1>1, <1>6, BlankIsNoRow DEF AllAreRows
<1>8. (CHOOSE j \in FindChunk(storage, row) : TRUE) = k
  BY <1>2
<1>9. ViewReads(row, x) =
        IF IsNull(memory[k].indicators[cell.indicator]) THEN "null"
        ELSE ReadCell(columns[x], memory[k].data, cell.data)
  <2> DEFINE c == CHOOSE j \in FindChunk(storage, row) : TRUE
             Place(j) == CellAt(columns,
                            storage.chunk_store_[storage.chunk_index_[j].chunk].size,
                            (row - storage.chunk_index_[j].first_row) + 1, x)
             Bytes(j) == memory[storage.chunk_index_[j].chunk]
             Reads(j) == IF IsNull(Bytes(j).indicators[Place(j).indicator]) THEN "null"
                         ELSE ReadCell(columns[x], Bytes(j).data, Place(j).data)
  <2>1. ViewReads(row, x) = Reads(c)
    BY DEF ViewReads
  <2>2. c = k
    BY <1>8
  <2>3. Place(k) = cell /\ Bytes(k) = memory[k]
    BY <1>3
  <2> HIDE DEF c, Place, Bytes, cell
  <2>4. Reads(k) = IF IsNull(memory[k].indicators[cell.indicator]) THEN "null"
                   ELSE ReadCell(columns[x], memory[k].data, cell.data)
    BY <2>3
  <2> HIDE DEF Reads
  <2> QED BY <2>1, <2>2, <2>4
<1>10. Mirrors(columns, memory[k], chunk)
  BY <1>1, <1>3 DEF ShowsStorage
<1> HIDE DEF chunk, i, stored
<1>11. /\ HasBuffers(columns, memory[k], chunk.size)
       /\ EndsInNul(columns, memory[k], cell, x)
       /\ ShowsCell(columns, memory[k], cell, x, stored)
  BY <1>5, <1>6, <1>7, <1>10 DEF Mirrors
<1>12. (IF IsNull(memory[k].indicators[cell.indicator]) THEN "null"
        ELSE ReadCell(columns[x], memory[k].data, cell.data))
            = Promised(columns[x], <<stored, x>>, stored[x])
  BY <1>1, <1>4, <1>5, <1>7, <1>11, ShownCellIsRead
<1> HIDE DEF cell
<1> QED BY <1>9, <1>12 DEF stored

(* A getter of a view reads the cell that was fetched into its row and     *)
(* column: all of a fixed or binary cell, a text up to the width of its    *)
(* column, NULL for NULL; whatever is written into other cells and to      *)
(* areas that were given up (compact_result_set.hpp:23-122).               *)
THEOREM CellsAreReadBack == MemorySpec => []ViewsReadTheirCells
BY BytesInvHolds, InvReadsCells, PTL

-----------------------------------------------------------------------------
(* The driver needs the width of a column and no more.                     *)
LEMMA ExtentIsWidth ==
    ASSUME NEW cols, AreColumns(cols), NEW x \in 1 .. Len(cols), NEW at
    PROVE  Extent(cols[x], at) = at .. at + Width(cols, x) - 1
<1>1. IsColumn(cols[x])
  BY DEF AreColumns
<1>2. CASE cols[x].sql_type \in FixedTypes
  BY <1>1, <1>2, FixedColumnParts DEF Extent, Width
<1>3. CASE cols[x].sql_type \notin FixedTypes
  <2>1. cols[x].sql_type \in {"SQL_CHAR", "SQL_VARCHAR", "SQL_WCHAR", "SQL_BINARY"}
    BY <1>1, <1>3, KnownTypes DEF IsColumn, TextTypes
  <2>2. ~IsFixed(cols[x])
    BY <1>1, <2>1, OtherColumnParts
  <2> QED BY <2>2 DEF Extent, Width
<1> QED BY <1>2, <1>3

(* The bytes of a cell, and that they share none with another.             *)
CellExtent(cols, size, i, x) == Extent(cols[x], CellAt(cols, size, i, x).data)

LEMMA ExtentLiesInside ==
    ASSUME NEW cols, AreColumns(cols), NEW size \in Nat, NEW mem, HasBuffers(cols, mem, size),
           NEW i \in 1 .. size, NEW x \in 1 .. Len(cols)
    PROVE  /\ CellExtent(cols, size, i, x) \subseteq DOMAIN mem.data
           /\ CellAt(cols, size, i, x).indicator \in DOMAIN mem.indicators
<1> DEFINE cell == CellAt(cols, size, i, x)
           w == Width(cols, x)
           total == calculate_data_size(cols, size)
           inds == Len(cols) * size
           a == cell.data
           ind == cell.indicator
<1>1. CellExtent(cols, size, i, x) = a .. a + w - 1
  BY ExtentIsWidth DEF CellExtent
<1>2. a \in Nat /\ a + w <= total /\ ind \in Nat /\ ind < inds
  BY CellLiesInside DEF LiesInside
<1>3. total \in Nat /\ w \in Nat /\ inds \in Nat
  BY ColumnEndsInside, CellInItsColumn DEF AreColumns
<1>4. DOMAIN mem.data = 0 .. total - 1 /\ DOMAIN mem.indicators = 0 .. inds - 1
  BY DEF HasBuffers
<1> HIDE DEF a, w, total, inds, ind
<1>5. a .. a + w - 1 \subseteq 0 .. total - 1 /\ ind \in 0 .. inds - 1
  BY <1>2, <1>3
<1> QED BY <1>1, <1>4, <1>5 DEF ind

LEMMA ExtentsLieApart ==
    ASSUME NEW cols, AreColumns(cols), NEW size \in Nat,
           NEW i \in 1 .. size, NEW x \in 1 .. Len(cols),
           NEW j \in 1 .. size, NEW y \in 1 .. Len(cols), i # j \/ x # y
    PROVE  /\ CellExtent(cols, size, i, x) \cap CellExtent(cols, size, j, y) = {}
           /\ CellAt(cols, size, i, x).indicator # CellAt(cols, size, j, y).indicator
<1> DEFINE a == CellAt(cols, size, i, x).data
           b == CellAt(cols, size, j, y).data
           v == Width(cols, x)
           w == Width(cols, y)
<1>1. LieApart(cols, CellAt(cols, size, i, x), x, CellAt(cols, size, j, y), y)
  BY CellsLieApart
<1>2. a + v <= b \/ b + w <= a
  BY <1>1 DEF LieApart
<1>3. a \in Nat /\ b \in Nat /\ v \in Nat /\ w \in Nat
  BY CellInItsColumn
<1>4. /\ CellExtent(cols, size, i, x) = a .. a + v - 1
      /\ CellExtent(cols, size, j, y) = b .. b + w - 1
  BY ExtentIsWidth DEF CellExtent
<1> HIDE DEF a, b, v, w
<1>5. (a .. a + v - 1) \cap (b .. b + w - 1) = {}
  BY <1>2, <1>3
<1> QED BY <1>1, <1>4, <1>5 DEF LieApart

LEMMA InvKeepsDriverInArea == StorageInv /\ BytesInv => DriverStaysInItsArea
<1> SUFFICES ASSUME StorageInv, BytesInv, area # NoArea PROVE DriverStaysInItsArea
  BY DEF DriverStaysInItsArea
<1> DEFINE chunk == storage.chunk_store_[area.chunk]
           mem == memory[area.chunk]
           size == LastChunk(storage).size
           cells == (1 .. area.rows) \X (1 .. Len(columns))
           committed == (1 .. chunk.row_count) \X (1 .. Len(columns))
           Place(c) == CellAt(columns, chunk.size, c[1], c[2])
           Bytes(c) == Extent(columns[c[2]], Target(c[1], c[2]).data)
           kept == UNION {Extent(columns[c[2]], Place(c).data) : c \in committed}
           keptIndicators == {Place(c).indicator : c \in committed}
           Slot(c) == area.first + c[1] - 1
<1>1. /\ IsPrepared(storage, area) /\ StorageType(storage) /\ area.rows \in Nat
      /\ AreColumns(columns) /\ ShowsStorage(columns, memory, storage)
  BY TablesHaveColumns DEF StorageInv, BytesInv, StorageOK, IndexOK, AreaInv, Areas
<1>2. /\ chunk = LastChunk(storage) /\ area.chunk = Last(storage)
      /\ area.first = chunk.row_count + 1 /\ area.first + area.rows - 1 <= size
      /\ Last(storage) \in 1 .. Len(storage.chunk_store_)
      /\ LastChunk(storage) = storage.chunk_store_[Last(storage)]
      /\ LastChunk(storage) \in Chunks
  BY <1>1, LastChunkParts, StorageParts DEF IsPrepared, LastChunk, Last
<1>3. chunk.row_count \in Nat /\ size \in Nat /\ chunk.size = size /\ chunk.row_count <= size
  BY <1>2, ChunkParts
<1>4. HasBuffers(columns, mem, size)
  BY <1>1, <1>2 DEF ShowsStorage, Mirrors
<1> HIDE DEF chunk, mem, size
<1>5. ASSUME NEW c \in cells
      PROVE  /\ Slot(c) \in 1 .. size /\ Slot(c) > chunk.row_count /\ c[2] \in 1 .. Len(columns)
             /\ Target(c[1], c[2]) = CellAt(columns, size, Slot(c), c[2])
             /\ Bytes(c) = CellExtent(columns, size, Slot(c), c[2])
  <2>1. c[1] \in 1 .. area.rows /\ c[2] \in 1 .. Len(columns)
    OBVIOUS
  <2>2. /\ Slot(c) \in 1 .. size /\ Slot(c) > chunk.row_count /\ c[1] \in Nat \ {0}
    <3> DEFINE i == c[1]
               first == area.first
               rows == area.rows
               count == chunk.row_count
    <3>1. /\ i \in 1 .. rows /\ rows \in Nat /\ count \in Nat /\ size \in Nat
          /\ first = count + 1 /\ first + rows - 1 <= size
      BY <1>1, <1>2, <1>3, <2>1
    <3> HIDE DEF i, first, rows, count
    <3>2. first + i - 1 \in 1 .. size /\ first + i - 1 > count /\ i \in Nat \ {0}
      BY <3>1
    <3> QED BY <3>2 DEF i, first, count
  <2>3. Target(c[1], c[2]) = CellAt(columns, size, Slot(c), c[2])
    BY <1>1, <2>1, <2>2, TargetIsCell DEF size
  <2>4. Bytes(c) = CellExtent(columns, size, Slot(c), c[2])
    BY <2>3 DEF CellExtent
  <2> QED BY <2>1, <2>2, <2>3, <2>4
<1>6. ASSUME NEW d \in committed
      PROVE  /\ d[1] \in 1 .. size /\ d[1] <= chunk.row_count /\ d[2] \in 1 .. Len(columns)
             /\ Place(d) = CellAt(columns, size, d[1], d[2])
             /\ Extent(columns[d[2]], Place(d).data) = CellExtent(columns, size, d[1], d[2])
  <2>1. d[1] \in 1 .. chunk.row_count /\ d[2] \in 1 .. Len(columns)
    OBVIOUS
  <2> QED BY <1>3, <2>1 DEF CellExtent
<1>7. ASSUME NEW c \in cells, NEW d \in committed
      PROVE  /\ Bytes(c) \cap Extent(columns[d[2]], Place(d).data) = {}
             /\ Target(c[1], c[2]).indicator # Place(d).indicator
  <2>1. Slot(c) # d[1]
    BY <1>3, <1>5, <1>6
  <2>2. /\ CellExtent(columns, size, Slot(c), c[2]) \cap CellExtent(columns, size, d[1], d[2]) = {}
        /\ CellAt(columns, size, Slot(c), c[2]).indicator # CellAt(columns, size, d[1], d[2]).indicator
    <3> HIDE DEF Slot
    <3> QED BY <1>1, <1>3, <1>5, <1>6, <2>1, ExtentsLieApart
  <2> QED BY <1>5, <1>6, <2>2
<1>8. ASSUME NEW c \in cells, NEW d \in cells \ {c}
      PROVE  /\ Bytes(c) \cap Bytes(d) = {}
             /\ Target(c[1], c[2]).indicator # Target(d[1], d[2]).indicator
  <2>1. c[1] # d[1] \/ c[2] # d[2]
    OBVIOUS
  <2>2. Slot(c) # Slot(d) \/ c[2] # d[2]
    <3>1. c[1] \in Int /\ d[1] \in Int /\ area.first \in Int
      BY <1>2, <1>3
    <3> QED BY <2>1, <3>1
  <2>3. /\ CellExtent(columns, size, Slot(c), c[2]) \cap CellExtent(columns, size, Slot(d), d[2]) = {}
        /\ CellAt(columns, size, Slot(c), c[2]).indicator
                # CellAt(columns, size, Slot(d), d[2]).indicator
    <3>1. Slot(c) \in 1 .. size /\ c[2] \in 1 .. Len(columns)
      BY <1>5
    <3>2. d \in cells /\ Slot(d) \in 1 .. size /\ d[2] \in 1 .. Len(columns)
      BY <1>5
    <3> HIDE DEF Slot, cells
    <3> QED BY <1>1, <1>3, <2>2, <3>1, <3>2, ExtentsLieApart
  <2> QED BY <1>5, <2>3
<1>9. ASSUME NEW c \in cells
      PROVE  /\ Bytes(c) \subseteq DOMAIN mem.data
             /\ Target(c[1], c[2]).indicator \in DOMAIN mem.indicators
  <2> HIDE DEF Slot
  <2>1. /\ CellExtent(columns, size, Slot(c), c[2]) \subseteq DOMAIN mem.data
        /\ CellAt(columns, size, Slot(c), c[2]).indicator \in DOMAIN mem.indicators
    BY <1>1, <1>3, <1>4, <1>5, ExtentLiesInside
  <2> QED BY <1>5, <2>1
<1> HIDE DEF cells, Place, Bytes, Slot, committed
<1>10. ASSUME NEW c \in cells
       PROVE  /\ Bytes(c) \subseteq DOMAIN mem.data \ kept
              /\ Target(c[1], c[2]).indicator \in DOMAIN mem.indicators \ keptIndicators
              /\ \A d \in cells \ {c} :
                    /\ Bytes(c) \cap Bytes(d) = {}
                    /\ Target(c[1], c[2]).indicator # Target(d[1], d[2]).indicator
  BY <1>7, <1>8, <1>9
<1> HIDE DEF kept, keptIndicators
<1>11. \A c \in cells :
        /\ Bytes(c) \subseteq DOMAIN mem.data \ kept
        /\ Target(c[1], c[2]).indicator \in DOMAIN mem.indicators \ keptIndicators
        /\ \A d \in cells \ {c} :
            /\ Bytes(c) \cap Bytes(d) = {}
            /\ Target(c[1], c[2]).indicator # Target(d[1], d[2]).indicator
  BY <1>10
<1> QED BY <1>11, Zenon DEF DriverStaysInItsArea, cells, kept, keptIndicators, Bytes, Place,
                            committed, chunk, mem

(* What prepare() hands out lies inside the buffers of the chunk, and the  *)
(* driver touches no committed cell through it, nor two cells at once.     *)
THEOREM DriverIsConfined == MemorySpec => []DriverStaysInItsArea
BY BytesInvHolds, InvKeepsDriverInArea, PTL

-----------------------------------------------------------------------------
(* Multiples, for the alignment of the cells.                              *)
Multiple(n, a) == \E q \in Nat : n = q * a

LEMMA RemainderOfMultiple ==
    ASSUME NEW n \in Nat, NEW a \in Nat \ {0}
    PROVE  n % a = 0 <=> Multiple(n, a)
<1>1. ASSUME n % a = 0 PROVE Multiple(n, a)
  <2>1. n = a * (n \div a) + (n % a) /\ n \div a \in Int
    OBVIOUS
  <2>2. n \div a \in Nat
    OBVIOUS
  <2>3. n = (n \div a) * a
    BY <1>1, <2>1, <2>2
  <2> QED BY <2>2, <2>3 DEF Multiple
<1>2. ASSUME NEW q \in Nat, n = q * a PROVE n % a = 0
  BY <1>2
<1> QED BY <1>1, <1>2 DEF Multiple

LEMMA MultiplesAddUp ==
    ASSUME NEW a \in Nat, NEW m, NEW n, Multiple(m, a), Multiple(n, a)
    PROVE  Multiple(m + n, a)
<1>1. PICK p \in Nat : m = p * a
  BY DEF Multiple
<1>2. PICK q \in Nat : n = q * a
  BY DEF Multiple
<1>3. m + n = (p + q) * a /\ p + q \in Nat
  BY <1>1, <1>2
<1> QED BY <1>3 DEF Multiple

LEMMA MultipleOfMultiple ==
    ASSUME NEW a \in Nat, NEW m \in Nat, NEW n, Multiple(m, a), Multiple(n, m)
    PROVE  Multiple(n, a)
<1>1. PICK p \in Nat : m = p * a
  BY DEF Multiple
<1>2. PICK q \in Nat : n = q * m
  BY DEF Multiple
<1>3. n = (q * p) * a /\ q * p \in Nat
  BY <1>1, <1>2
<1> QED BY <1>3 DEF Multiple

AlignmentOf(col) == sql_type_to_c_size_and_alignment[col.sql_type][2]

LEMMA WidthIsAligned ==
    ASSUME NEW col, IsColumn(col)
    PROVE  AlignmentOf(col) \in {1, 2, 4, 8} /\ get_column_size(col) % AlignmentOf(col) = 0
<1>1. CASE col.sql_type \in FixedTypes
  BY <1>1 DEF FixedTypes, AlignmentOf, get_column_size, sql_type_to_c_size_and_alignment
<1>2. CASE col.sql_type \notin FixedTypes
  <2>1. col.sql_type \in {"SQL_CHAR", "SQL_VARCHAR", "SQL_WCHAR", "SQL_BINARY"}
    BY <1>2, KnownTypes DEF IsColumn, TextTypes
  <2>2. col.sql_type \in {"SQL_CHAR", "SQL_WCHAR"} =>
            AlignmentOf(col) \in {1, 2} /\ get_column_size(col) % AlignmentOf(col) = 0
    BY DEF AlignmentOf, get_column_size, sql_type_to_c_size_and_alignment
  <2>3. col.sql_type \in {"SQL_VARCHAR", "SQL_BINARY"} => AlignmentOf(col) = 1
    BY DEF AlignmentOf, sql_type_to_c_size_and_alignment
  <2>4. \A n \in Nat : n % 1 = 0
    OBVIOUS
  <2> QED BY <2>1, <2>2, <2>3, <2>4, ColumnsHaveWidth
<1> QED BY <1>1, <1>2

LEMMA ColumnsBeginAligned ==
    ASSUME NEW cols, AreColumns(cols), NEW size \in Nat
    PROVE  \A x \in 1 .. Len(cols) : Multiple(ColumnBegin(cols, size, x), size)
<1> DEFINE B(x) == ColumnBegin(cols, size, x)
           len == Len(cols)
           S == {n \in Nat : n + 1 <= len => Multiple(B(n + 1), size)}
<1>1. /\ len \in Nat /\ B(1) = 0
      /\ \A x \in 1 .. len : B(x + 1) = B(x) + size * get_column_size(cols[x])
  BY ColumnsAddUp DEF AreColumns, EndOf
<1>2. \A x \in 1 .. len : get_column_size(cols[x]) \in Nat
  BY ColumnsHaveWidth DEF AreColumns
<1> HIDE DEF B, len
<1>3. 0 \in S
  <2>1. 0 = 0 * size /\ 0 + 1 = 1
    OBVIOUS
  <2>2. Multiple(B(0 + 1), size)
    BY <1>1, <2>1 DEF Multiple
  <2> QED BY <2>2
<1>4. ASSUME NEW n \in Nat, n \in S PROVE n + 1 \in S
  <2> SUFFICES ASSUME (n + 1) + 1 <= len PROVE Multiple(B((n + 1) + 1), size)
    OBVIOUS
  <2>1. n + 1 \in 1 .. len /\ Multiple(B(n + 1), size)
    BY <1>1, <1>4
  <2> DEFINE w == get_column_size(cols[n + 1])
  <2>2. w \in Nat
    BY <1>2, <2>1
  <2>3. Multiple(size * w, size)
    <3>1. size * w = w * size
      BY <2>2
    <3> QED BY <2>2, <3>1 DEF Multiple
  <2>4. B((n + 1) + 1) = B(n + 1) + size * w
    BY <1>1, <2>1
  <2> HIDE DEF w
  <2> QED BY <2>1, <2>3, <2>4, MultiplesAddUp
<1> HIDE DEF S
<1>5. \A n \in Nat : n \in S
  BY <1>3, <1>4, NatSetInduction
<1>6. ASSUME NEW x \in 1 .. len PROVE Multiple(B(x), size)
  <2>1. x - 1 \in Nat /\ (x - 1) + 1 = x /\ x <= len
    BY <1>1
  <2> QED BY <1>5, <2>1 DEF S
<1> QED BY <1>6 DEF B, len

LEMMA CellsOfColumnAreAligned ==
    ASSUME NEW cols, AreColumns(cols), NEW size \in Nat, NEW i \in 1 .. size,
           NEW x \in 1 .. Len(cols), Multiple(size, AlignmentOf(cols[x]))
    PROVE  CellIsAligned(cols[x], CellAt(cols, size, i, x))
<1> DEFINE a == AlignmentOf(cols[x])
           w == get_column_size(cols[x])
           begin == ColumnBegin(cols, size, x)
           r == i - 1
           d == CellAt(cols, size, i, x).data
<1>1. IsColumn(cols[x])
  BY DEF AreColumns
<1>2. a \in Nat \ {0} /\ w \in Nat /\ w % a = 0 /\ r \in Nat /\ d \in Nat
  <2>1. a \in {1, 2, 4, 8} /\ w % a = 0
    BY <1>1, WidthIsAligned
  <2>2. w \in Nat
    BY <1>1, ColumnsHaveWidth
  <2>3. d \in Nat
    BY CellInItsColumn
  <2> HIDE DEF a, w, d
  <2> QED BY <2>1, <2>2, <2>3
<1>3. d = begin + r * w
  BY DEF CellAt
<1>4. Multiple(begin, size)
  BY ColumnsBeginAligned
<1> HIDE DEF a, w, begin, r, d
<1>5. Multiple(begin, a)
  BY <1>2, <1>4, MultipleOfMultiple DEF a
<1>6. Multiple(w, a)
  BY <1>2, RemainderOfMultiple
<1>7. Multiple(r * w, w)
  BY <1>2 DEF Multiple
<1>8. Multiple(r * w, a)
  BY <1>2, <1>6, <1>7, MultipleOfMultiple
<1>9. Multiple(begin + r * w, a)
  BY <1>2, <1>5, <1>8, MultiplesAddUp
<1>10. d % a = 0
  BY <1>2, <1>3, <1>9, RemainderOfMultiple
<1> QED BY <1>10 DEF CellIsAligned, a, d, AlignmentOf

LEMMA InvAlignsCells == StorageInv /\ BytesInv => CellsAreAligned
<1> SUFFICES ASSUME StorageInv, BytesInv, NEW k \in DOMAIN storage.chunk_store_,
                    storage.chunk_store_[k].size % DefaultChunkSize = 0,
                    NEW i \in 1 .. storage.chunk_store_[k].size, NEW x \in 1 .. Len(columns)
             PROVE  CellIsAligned(columns[x],
                                  CellAt(columns, storage.chunk_store_[k].size, i, x))
  BY DEF CellsAreAligned
<1> DEFINE size == storage.chunk_store_[k].size
           a == AlignmentOf(columns[x])
<1>1. columns \in Tables /\ Generates(columns) /\ AreColumns(columns)
  BY TablesHaveColumns DEF BytesInv
<1>2. size \in Nat
  <2>1. storage.chunk_store_ \in Seq(Chunks)
    BY DEF StorageInv, StorageOK, IndexOK, StorageType
  <2>2. storage.chunk_store_[k] \in Chunks
    BY <2>1, ElementOfSeq, LenProperties
  <2> QED BY <2>2, ChunkParts
<1>3. DefaultChunkSize % a = 0
  BY <1>1, ChunksAreAligned DEF AlignmentOf
<1>4. a \in Nat \ {0}
  BY <1>1, WidthIsAligned DEF AreColumns
<1> HIDE DEF size, a
<1>5. Multiple(DefaultChunkSize, a)
  BY <1>3, <1>4, ChunkSizeIsPositive, RemainderOfMultiple
<1>6. Multiple(size, DefaultChunkSize)
  BY <1>2, ChunkSizeIsPositive, RemainderOfMultiple DEF size
<1>7. Multiple(size, a)
  BY <1>4, <1>5, <1>6, ChunkSizeIsPositive, MultipleOfMultiple
<1> QED BY <1>1, <1>2, <1>7, CellsOfColumnAreAligned DEF size, a

(* The cells of a chunk whose rows are a multiple of the default number    *)
(* lie at multiples of the alignment of their C++ type.                    *)
THEOREM CellsOfFullChunksAreAligned == MemorySpec => []CellsAreAligned
BY BytesInvHolds, InvAlignsCells, PTL
=============================================================================
