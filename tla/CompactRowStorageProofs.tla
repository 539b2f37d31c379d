------------------------ MODULE CompactRowStorageProofs ------------------------
(***************************************************************************)
(* Lemmas about the operators of CompactRowStorage: what a storage looks   *)
(* like that was only used through them, and what each operation leaves    *)
(* as it was.                                                              *)
(***************************************************************************)
EXTENDS CompactRowStorage, SequenceTheorems, TLAPS

Cells == Rows \cup {Blank}

Chunks ==
    {chunk \in [size : Nat \ {0}, row_count : Nat, prepared : BOOLEAN,
                data : UNION {[1 .. n -> Cells] : n \in Nat}] :
        /\ chunk.row_count <= chunk.size
        /\ chunk.data \in [1 .. chunk.size -> Cells]}

IndexRanges == [first_row : Nat, length : Nat, chunk : Nat]

StorageType(st) ==
    /\ st \in [chunk_store_ : Seq(Chunks), chunk_index_ : Seq(IndexRanges), row_count_ : Nat]
    /\ Len(st.chunk_store_) = Len(st.chunk_index_)
    /\ Len(st.chunk_store_) > 0

(* The k-th range describes the k-th chunk.                                *)
IndexDescribesChunks(st) ==
    \A k \in 1 .. Len(st.chunk_index_) :
        /\ st.chunk_index_[k].chunk = k
        /\ st.chunk_index_[k].length = st.chunk_store_[k].size
        /\ st.chunk_index_[k].first_row > 0

(* The ranges lie one behind the other.                                    *)
IndexInOrder(st) ==
    \A j, k \in 1 .. Len(st.chunk_index_) :
        j < k => st.chunk_index_[j].first_row + st.chunk_index_[j].length
                    <= st.chunk_index_[k].first_row

IndexOK(st) == StorageType(st) /\ IndexDescribesChunks(st) /\ IndexInOrder(st)

(* The k-th chunk holds the row among those committed to it.               *)
Holds(st, k, row) ==
    /\ k \in 1 .. Len(st.chunk_index_)
    /\ Contains(st.chunk_index_[k], row)
    /\ (row - st.chunk_index_[k].first_row) + 1 <= st.chunk_store_[k].row_count

RowsAreHeld(st) ==
    \A row \in 1 .. st.row_count_ : \E k \in 1 .. Len(st.chunk_index_) : Holds(st, k, row)

(* The last chunk ends where the storage does.                             *)
CountsAgree(st) ==
    st.row_count_ + 1
        = st.chunk_index_[Len(st.chunk_index_)].first_row + LastChunk(st).row_count

CommittedCellsAreRows(st) ==
    \A k \in 1 .. Len(st.chunk_store_) :
        \A i \in 1 .. st.chunk_store_[k].row_count : st.chunk_store_[k].data[i] \in Rows

(* What later operations keep of a storage.                                *)
Extends(st, st2) ==
    /\ Len(st2.chunk_index_) >= Len(st.chunk_index_)
    /\ st2.row_count_ >= st.row_count_
    /\ \A k \in 1 .. Len(st.chunk_index_) :
        /\ st2.chunk_index_[k] = st.chunk_index_[k]
        /\ st2.chunk_store_[k].row_count >= st.chunk_store_[k].row_count
        /\ \A i \in 1 .. st.chunk_store_[k].row_count :
            st2.chunk_store_[k].data[i] = st.chunk_store_[k].data[i]

-----------------------------------------------------------------------------
(* The types of the parts.                                                 *)

LEMMA ChunkParts ==
    ASSUME NEW chunk \in Chunks
    PROVE  /\ chunk.size \in Nat \ {0}
           /\ chunk.row_count \in Nat /\ chunk.row_count <= chunk.size
           /\ chunk.prepared \in BOOLEAN
           /\ chunk.data \in [1 .. chunk.size -> Cells]
           /\ chunk = [size |-> chunk.size, row_count |-> chunk.row_count,
                       prepared |-> chunk.prepared, data |-> chunk.data]
BY DEF Chunks

LEMMA StorageParts ==
    ASSUME NEW st, StorageType(st)
    PROVE  /\ Len(st.chunk_index_) \in Nat \ {0}
           /\ Len(st.chunk_store_) = Len(st.chunk_index_)
           /\ st.row_count_ \in Nat
           /\ \A k \in 1 .. Len(st.chunk_index_) :
                /\ st.chunk_index_[k].first_row \in Nat
                /\ st.chunk_index_[k].length \in Nat
                /\ st.chunk_index_[k].chunk \in Nat
                /\ st.chunk_store_[k] \in Chunks
<1>1. /\ st.chunk_store_ \in Seq(Chunks) /\ st.chunk_index_ \in Seq(IndexRanges)
      /\ st.row_count_ \in Nat
      /\ Len(st.chunk_store_) = Len(st.chunk_index_) /\ Len(st.chunk_store_) > 0
  BY DEF StorageType
<1>2. Len(st.chunk_index_) \in Nat
  BY <1>1, LenProperties
<1>3. \A k \in 1 .. Len(st.chunk_index_) :
        st.chunk_index_[k] \in IndexRanges /\ st.chunk_store_[k] \in Chunks
  BY <1>1, ElementOfSeq
<1>4. Len(st.chunk_index_) \in Nat \ {0}
  BY <1>1, <1>2
<1>5. \A k \in 1 .. Len(st.chunk_index_) :
        /\ st.chunk_index_[k].first_row \in Nat
        /\ st.chunk_index_[k].length \in Nat
        /\ st.chunk_index_[k].chunk \in Nat
  BY <1>3 DEF IndexRanges
<1> QED BY <1>1, <1>3, <1>4, <1>5

-----------------------------------------------------------------------------
(* find_chunk() and get_value().                                           *)

LEMMA HeldRowIsFound ==
    ASSUME NEW st, IndexOK(st), NEW row \in Nat, NEW k, Holds(st, k, row)
    PROVE  /\ FindChunk(st, row) = {k}
           /\ ValueAt(st, k, row) = st.chunk_store_[k].data[(row - st.chunk_index_[k].first_row) + 1]
           /\ GetValue(st, row) = st.chunk_store_[k].data[(row - st.chunk_index_[k].first_row) + 1]
<1> DEFINE n == Len(st.chunk_index_)
<1>1. /\ n \in Nat /\ k \in 1 .. n
      /\ \A j \in 1 .. n : /\ st.chunk_index_[j].first_row \in Nat
                           /\ st.chunk_index_[j].length \in Nat
                           /\ st.chunk_index_[j].chunk = j
  BY StorageParts DEF IndexOK, IndexDescribesChunks, Holds
<1>2. Contains(st.chunk_index_[k], row) /\ ~RangeLess(st.chunk_index_[k], row)
  <2>1. Contains(st.chunk_index_[k], row)
    BY DEF Holds
  <2>2. st.chunk_index_[k].first_row \in Nat /\ st.chunk_index_[k].length \in Nat
    BY <1>1
  <2> QED BY <2>1, <2>2 DEF Contains, RangeLess
<1>3. \A j \in 1 .. k - 1 : RangeLess(st.chunk_index_[j], row)
  <2> SUFFICES ASSUME NEW j \in 1 .. k - 1 PROVE RangeLess(st.chunk_index_[j], row)
    OBVIOUS
  <2>1. j \in 1 .. n /\ k \in 1 .. n /\ j < k
    BY <1>1
  <2>2. st.chunk_index_[j].first_row + st.chunk_index_[j].length <= st.chunk_index_[k].first_row
    BY <2>1 DEF IndexOK, IndexInOrder
  <2>3. row >= st.chunk_index_[k].first_row
    BY DEF Holds, Contains
  <2>4. st.chunk_index_[j].first_row + st.chunk_index_[j].length \in Nat
        /\ st.chunk_index_[k].first_row \in Nat
    BY <1>1, <2>1
  <2>5. st.chunk_index_[j].first_row + st.chunk_index_[j].length <= row
    BY <2>2, <2>3, <2>4
  <2> QED BY <2>5 DEF RangeLess
<1>4. LowerBound(st, row) = {k}
  BY <1>1, <1>2, <1>3 DEF LowerBound
<1>5. FindChunk(st, row) = {k}
  BY <1>2, <1>4 DEF FindChunk
<1>6. (CHOOSE j \in {k} : TRUE) = k
  OBVIOUS
<1> QED BY <1>1, <1>5, <1>6 DEF GetValue, ValueAt

(* Rows that are stored stay where they are, and what they are.            *)
LEMMA ExtensionKeepsRows ==
    ASSUME NEW st, NEW st2, IndexOK(st), IndexOK(st2), Extends(st, st2),
           NEW row \in Nat, NEW k, Holds(st, k, row)
    PROVE  Holds(st2, k, row) /\ GetValue(st2, row) = GetValue(st, row)
<1> DEFINE i == (row - st.chunk_index_[k].first_row) + 1
<1>1. /\ Len(st.chunk_index_) \in Nat /\ Len(st2.chunk_index_) \in Nat
      /\ k \in 1 .. Len(st.chunk_index_) /\ k \in 1 .. Len(st2.chunk_index_)
      /\ st.chunk_index_[k].first_row \in Nat
      /\ st.chunk_store_[k].row_count \in Nat /\ st2.chunk_store_[k].row_count \in Nat
  <2>1. /\ Len(st.chunk_index_) \in Nat /\ Len(st2.chunk_index_) \in Nat
        /\ k \in 1 .. Len(st.chunk_index_) /\ k \in 1 .. Len(st2.chunk_index_)
    BY StorageParts DEF IndexOK, Holds, Extends
  <2> QED BY <2>1, StorageParts, ChunkParts DEF IndexOK
<1>2. i \in 1 .. st.chunk_store_[k].row_count
  BY <1>1 DEF Holds, Contains
<1>3. /\ st2.chunk_index_[k] = st.chunk_index_[k]
      /\ st2.chunk_store_[k].row_count >= st.chunk_store_[k].row_count
      /\ st2.chunk_store_[k].data[i] = st.chunk_store_[k].data[i]
  BY <1>1, <1>2 DEF Extends
<1>4. Holds(st2, k, row)
  BY <1>1, <1>2, <1>3 DEF Holds
<1>5. GetValue(st, row) = st.chunk_store_[k].data[i]
  BY HeldRowIsFound
<1>6. GetValue(st2, row) = st2.chunk_store_[k].data[(row - st2.chunk_index_[k].first_row) + 1]
  BY <1>4, HeldRowIsFound
<1> QED BY <1>3, <1>4, <1>5, <1>6

-----------------------------------------------------------------------------
(* Chunks.                                                                 *)

LEMMA NewChunkParts ==
    ASSUME NEW n \in Nat
    PROVE  /\ CalcChunkSize(n) \in Nat \ {0} /\ CalcChunkSize(n) >= n
           /\ NewChunk(n) \in Chunks
           /\ NewChunk(n).size = CalcChunkSize(n)
           /\ NewChunk(n).row_count = 0
           /\ NewChunk(n).prepared = FALSE
<1>1. CalcChunkSize(n) \in Nat \ {0} /\ CalcChunkSize(n) >= n
  BY ChunkSizeIsPositive DEF CalcChunkSize
<1> QED BY <1>1 DEF NewChunk, Chunks, Cells

LEMMA PrepareChunkParts ==
    ASSUME NEW chunk \in Chunks
    PROVE  /\ PrepareChunk(chunk) \in Chunks
           /\ PrepareChunk(chunk).size = chunk.size
           /\ PrepareChunk(chunk).row_count = chunk.row_count
           /\ PrepareChunk(chunk).data = chunk.data
           /\ PrepareChunk(chunk).prepared = TRUE
BY DEF PrepareChunk, Chunks

LEMMA CommitChunkParts ==
    ASSUME NEW chunk \in Chunks, NEW q \in Nat, chunk.row_count + q <= chunk.size
    PROVE  /\ CommitChunk(chunk, q) \in Chunks
           /\ CommitChunk(chunk, q).size = chunk.size
           /\ CommitChunk(chunk, q).row_count = chunk.row_count + q
           /\ CommitChunk(chunk, q).data = chunk.data
           /\ CommitChunk(chunk, q).prepared = FALSE
<1> DEFINE counted == chunk.row_count + q
<1>1. counted \in Nat /\ counted <= chunk.size
  BY ChunkParts
<1>2. CommitChunk(chunk, q) = [[chunk EXCEPT !.prepared = FALSE] EXCEPT !.row_count = counted]
  BY ChunkParts DEF CommitChunk
<1> HIDE DEF counted
<1>3. CommitChunk(chunk, q) = [size |-> chunk.size, row_count |-> counted,
                               prepared |-> FALSE, data |-> chunk.data]
  BY <1>2, ChunkParts
<1>4. CommitChunk(chunk, q) \in Chunks
  BY <1>1, <1>3, ChunkParts DEF Chunks
<1> QED BY <1>3, <1>4 DEF counted

LEMMA WriteChunkParts ==
    ASSUME NEW chunk \in Chunks, NEW area, area.first \in Nat, NEW rows \in Seq(Cells)
    PROVE  /\ WriteChunk(chunk, area, rows) \in Chunks
           /\ WriteChunk(chunk, area, rows).size = chunk.size
           /\ WriteChunk(chunk, area, rows).row_count = chunk.row_count
           /\ WriteChunk(chunk, area, rows).prepared = chunk.prepared
           /\ \A i \in 1 .. chunk.size :
                WriteChunk(chunk, area, rows).data[i] =
                    IF i >= area.first /\ i < area.first + Len(rows)
                    THEN rows[i - area.first + 1] ELSE chunk.data[i]
<1> DEFINE after == WriteChunk(chunk, area, rows)
           data == [i \in 1 .. chunk.size |->
                        IF i \in area.first .. (area.first + Len(rows) - 1)
                        THEN rows[i - area.first + 1] ELSE chunk.data[i]]
<1>1. after = [chunk EXCEPT !.data = data]
  BY DEF WriteChunk
<1>2. /\ Len(rows) \in Nat /\ \A i \in 1 .. Len(rows) : rows[i] \in Cells
  BY ElementOfSeq, LenProperties
<1>3. \A i \in 1 .. chunk.size :
        i \in area.first .. (area.first + Len(rows) - 1) => i - area.first + 1 \in 1 .. Len(rows)
  BY <1>2, ChunkParts
<1>4. data \in [1 .. chunk.size -> Cells]
  BY <1>2, <1>3, ChunkParts
<1>5. \A i \in 1 .. chunk.size :
        data[i] = IF i >= area.first /\ i < area.first + Len(rows)
                  THEN rows[i - area.first + 1] ELSE chunk.data[i]
  BY <1>2, ChunkParts
<1> HIDE DEF data
<1>6. after = [size |-> chunk.size, row_count |-> chunk.row_count,
               prepared |-> chunk.prepared, data |-> data]
  BY <1>1, ChunkParts
<1> HIDE DEF after
<1>7. after \in Chunks
  BY <1>4, <1>6, ChunkParts DEF Chunks
<1> QED BY <1>5, <1>6, <1>7 DEF after

-----------------------------------------------------------------------------
(* Storages: one chunk is replaced by another of its size, or a chunk is   *)
(* added at the end.                                                       *)

SetChunk(st, k, chunk) == [st EXCEPT !.chunk_store_[k] = chunk]

LEMMA SetLastIsSet == \A st, chunk : SetLastChunk(st, chunk) = SetChunk(st, Last(st), chunk)
BY DEF SetLastChunk, SetChunk

LEMMA ReplacedChunk ==
    ASSUME NEW st, StorageType(st), NEW k \in 1 .. Len(st.chunk_index_), NEW chunk \in Chunks,
           NEW st2, st2 = SetChunk(st, k, chunk)
    PROVE  /\ StorageType(st2)
           /\ st2.chunk_index_ = st.chunk_index_
           /\ st2.row_count_ = st.row_count_
           /\ Last(st2) = Last(st)
           /\ st2.chunk_store_[k] = chunk
           /\ \A j \in 1 .. Len(st.chunk_index_) : j # k => st2.chunk_store_[j] = st.chunk_store_[j]
<1>1. st.chunk_store_ \in Seq(Chunks) /\ k \in 1 .. Len(st.chunk_store_)
  BY DEF StorageType
<1> DEFINE chunks == [st.chunk_store_ EXCEPT ![k] = chunk]
<1>2. /\ chunks \in Seq(Chunks) /\ Len(chunks) = Len(st.chunk_store_)
      /\ \A j \in 1 .. Len(st.chunk_store_) : chunks[j] = IF j = k THEN chunk ELSE st.chunk_store_[j]
  BY <1>1, ExceptSeq
<1> HIDE DEF chunks
<1>3. st2 = [st EXCEPT !.chunk_store_ = chunks]
  BY DEF SetChunk, chunks
<1>4. st = [chunk_store_ |-> st.chunk_store_, chunk_index_ |-> st.chunk_index_,
            row_count_ |-> st.row_count_]
  BY DEF StorageType
<1>5. st2 = [chunk_store_ |-> chunks, chunk_index_ |-> st.chunk_index_,
             row_count_ |-> st.row_count_]
  BY <1>3, <1>4
<1>6. StorageType(st2)
  <2>1. st.chunk_index_ \in Seq(IndexRanges) /\ st.row_count_ \in Nat
    BY DEF StorageType
  <2>2. st2 \in [chunk_store_ : Seq(Chunks), chunk_index_ : Seq(IndexRanges), row_count_ : Nat]
    BY <1>2, <1>5, <2>1
  <2> QED BY <1>2, <1>5, <2>2 DEF StorageType
<1> QED BY <1>1, <1>2, <1>5, <1>6 DEF Last, StorageType

LEMMA ReplacedChunkKeepsIndex ==
    ASSUME NEW st, IndexOK(st), NEW k \in 1 .. Len(st.chunk_index_), NEW chunk \in Chunks,
           chunk.size = st.chunk_store_[k].size,
           NEW st2, st2 = SetChunk(st, k, chunk)
    PROVE  IndexOK(st2)
<1>1. StorageType(st)
  BY DEF IndexOK
<1>2. /\ StorageType(st2) /\ st2.chunk_index_ = st.chunk_index_
      /\ st2.chunk_store_[k] = chunk
      /\ \A j \in 1 .. Len(st.chunk_index_) : j # k => st2.chunk_store_[j] = st.chunk_store_[j]
  BY <1>1, ReplacedChunk
<1>3. \A j \in 1 .. Len(st.chunk_index_) : st2.chunk_store_[j].size = st.chunk_store_[j].size
  BY <1>2
<1> QED BY <1>2, <1>3 DEF IndexOK, IndexDescribesChunks, IndexInOrder

LEMMA ReplacedChunkExtends ==
    ASSUME NEW st, StorageType(st), NEW k \in 1 .. Len(st.chunk_index_), NEW chunk \in Chunks,
           chunk.row_count >= st.chunk_store_[k].row_count,
           \A i \in 1 .. st.chunk_store_[k].row_count : chunk.data[i] = st.chunk_store_[k].data[i],
           NEW st2, st2 = SetChunk(st, k, chunk)
    PROVE  Extends(st, st2)
<1>1. /\ st2.chunk_index_ = st.chunk_index_
      /\ st2.row_count_ = st.row_count_
      /\ st2.chunk_store_[k] = chunk
      /\ \A j \in 1 .. Len(st.chunk_index_) : j # k => st2.chunk_store_[j] = st.chunk_store_[j]
  BY ReplacedChunk
<1>2. /\ Len(st.chunk_index_) \in Nat /\ st.row_count_ \in Nat
      /\ \A j \in 1 .. Len(st.chunk_index_) : st.chunk_store_[j].row_count \in Nat
  BY StorageParts, ChunkParts
<1> QED BY <1>1, <1>2 DEF Extends

LEMMA ExtendsIsReflexive == ASSUME NEW st, StorageType(st) PROVE Extends(st, st)
BY StorageParts, ChunkParts DEF Extends

LEMMA ExtendsIsTransitive ==
    ASSUME NEW s1, NEW s2, NEW s3, StorageType(s1), StorageType(s2), StorageType(s3),
           Extends(s1, s2), Extends(s2, s3)
    PROVE  Extends(s1, s3)
<1>1. /\ Len(s1.chunk_index_) \in Nat /\ Len(s2.chunk_index_) \in Nat /\ Len(s3.chunk_index_) \in Nat
      /\ s1.row_count_ \in Nat /\ s2.row_count_ \in Nat /\ s3.row_count_ \in Nat
      /\ Len(s1.chunk_index_) <= Len(s2.chunk_index_) /\ Len(s2.chunk_index_) <= Len(s3.chunk_index_)
      /\ s1.row_count_ <= s2.row_count_ /\ s2.row_count_ <= s3.row_count_
  BY StorageParts DEF Extends
<1>2. ASSUME NEW k \in 1 .. Len(s1.chunk_index_)
      PROVE  /\ s3.chunk_index_[k] = s1.chunk_index_[k]
             /\ s3.chunk_store_[k].row_count >= s1.chunk_store_[k].row_count
             /\ \A i \in 1 .. s1.chunk_store_[k].row_count :
                    s3.chunk_store_[k].data[i] = s1.chunk_store_[k].data[i]
  <2>1. k \in 1 .. Len(s2.chunk_index_) /\ k \in 1 .. Len(s3.chunk_index_)
    BY <1>1
  <2>2. /\ s1.chunk_store_[k].row_count \in Nat /\ s2.chunk_store_[k].row_count \in Nat
        /\ s3.chunk_store_[k].row_count \in Nat
    BY <2>1, StorageParts, ChunkParts
  <2>3. /\ s2.chunk_index_[k] = s1.chunk_index_[k]
        /\ s2.chunk_store_[k].row_count >= s1.chunk_store_[k].row_count
        /\ \A i \in 1 .. s1.chunk_store_[k].row_count :
            s2.chunk_store_[k].data[i] = s1.chunk_store_[k].data[i]
    BY DEF Extends
  <2>4. /\ s3.chunk_index_[k] = s2.chunk_index_[k]
        /\ s3.chunk_store_[k].row_count >= s2.chunk_store_[k].row_count
        /\ \A i \in 1 .. s2.chunk_store_[k].row_count :
            s3.chunk_store_[k].data[i] = s2.chunk_store_[k].data[i]
    BY <2>1 DEF Extends
  <2> QED BY <2>2, <2>3, <2>4
<1> QED BY <1>1, <1>2 DEF Extends

(* Rows that were held are, for as long as none is added.                  *)
LEMMA ExtensionHoldsRows ==
    ASSUME NEW st, NEW st2, IndexOK(st), IndexOK(st2), Extends(st, st2), RowsAreHeld(st),
           st2.row_count_ = st.row_count_
    PROVE  RowsAreHeld(st2)
<1> SUFFICES ASSUME NEW row \in 1 .. st.row_count_
             PROVE  \E k \in 1 .. Len(st2.chunk_index_) : Holds(st2, k, row)
  BY DEF RowsAreHeld
<1>1. row \in Nat
  BY StorageParts DEF IndexOK
<1>2. PICK k \in 1 .. Len(st.chunk_index_) : Holds(st, k, row)
  BY DEF RowsAreHeld
<1> QED BY <1>1, <1>2, ExtensionKeepsRows DEF Holds

(* A chunk is appended to a storage that is full.                          *)
ChunkAdded(st, n, st2) ==
    /\ StorageType(st2)
    /\ Len(st2.chunk_index_) = Len(st.chunk_index_) + 1
    /\ Len(st2.chunk_store_) = Len(st.chunk_index_) + 1
    /\ st2.row_count_ = st.row_count_
    /\ LastChunk(st2) = NewChunk(n)
    /\ st2.chunk_store_[Len(st.chunk_index_) + 1] = NewChunk(n)
    /\ st2.chunk_index_[Len(st.chunk_index_) + 1]
        = [first_row |-> st.row_count_ + 1, length |-> CalcChunkSize(n),
           chunk |-> Len(st.chunk_index_) + 1]
    /\ \A j \in 1 .. Len(st.chunk_index_) : st2.chunk_store_[j] = st.chunk_store_[j]
    /\ \A j \in 1 .. Len(st.chunk_index_) : st2.chunk_index_[j] = st.chunk_index_[j]

LEMMA CreateAddsChunk ==
    ASSUME NEW st, StorageType(st), NEW n \in Nat
    PROVE  ChunkAdded(st, n, CreateChunk(st, n))
<1> DEFINE range == [first_row |-> st.row_count_ + 1, length |-> CalcChunkSize(n),
                     chunk |-> Last(st) + 1]
           chunks == Append(st.chunk_store_, NewChunk(n))
           ranges == Append(st.chunk_index_, range)
           st2 == CreateChunk(st, n)
<1>1. /\ st.chunk_store_ \in Seq(Chunks) /\ st.chunk_index_ \in Seq(IndexRanges)
      /\ st.row_count_ \in Nat /\ Len(st.chunk_store_) = Len(st.chunk_index_)
      /\ Len(st.chunk_index_) \in Nat \ {0}
  BY StorageParts DEF StorageType
<1>2. range \in IndexRanges /\ NewChunk(n) \in Chunks
  <2>1. st.row_count_ + 1 \in Nat /\ Last(st) + 1 \in Nat
    BY <1>1 DEF Last
  <2>2. CalcChunkSize(n) \in Nat /\ NewChunk(n) \in Chunks
    BY NewChunkParts
  <2> QED BY <2>1, <2>2 DEF IndexRanges
<1>3. /\ chunks \in Seq(Chunks) /\ Len(chunks) = Len(st.chunk_store_) + 1
      /\ chunks[Len(st.chunk_store_) + 1] = NewChunk(n)
      /\ \A j \in 1 .. Len(st.chunk_store_) : chunks[j] = st.chunk_store_[j]
  BY <1>1, <1>2, AppendProperties
<1>4. /\ ranges \in Seq(IndexRanges) /\ Len(ranges) = Len(st.chunk_index_) + 1
      /\ ranges[Len(st.chunk_index_) + 1] = range
      /\ \A j \in 1 .. Len(st.chunk_index_) : ranges[j] = st.chunk_index_[j]
  BY <1>1, <1>2, AppendProperties
<1>5. st2 = [st EXCEPT !.chunk_store_ = chunks, !.chunk_index_ = ranges]
  BY DEF CreateChunk
<1>6. st = [chunk_store_ |-> st.chunk_store_, chunk_index_ |-> st.chunk_index_,
            row_count_ |-> st.row_count_]
  BY DEF StorageType
<1>7. range.chunk = Len(st.chunk_index_) + 1
  BY <1>1 DEF Last
<1> HIDE DEF chunks, ranges
<1>8. st2 = [chunk_store_ |-> chunks, chunk_index_ |-> ranges, row_count_ |-> st.row_count_]
  BY <1>5, <1>6
<1> HIDE DEF st2
<1>9. st2 \in [chunk_store_ : Seq(Chunks), chunk_index_ : Seq(IndexRanges), row_count_ : Nat]
  BY <1>1, <1>3, <1>4, <1>8
<1>10. StorageType(st2)
  BY <1>1, <1>3, <1>4, <1>8, <1>9 DEF StorageType
<1>11. LastChunk(st2) = NewChunk(n)
  BY <1>1, <1>3, <1>8 DEF LastChunk, Last
<1>12. ChunkAdded(st, n, st2)
  BY <1>1, <1>3, <1>4, <1>7, <1>8, <1>10, <1>11 DEF ChunkAdded, Last
<1> QED BY <1>12 DEF st2

-----------------------------------------------------------------------------
(* The operations of a storage.                                            *)

StorageOK(st) == IndexOK(st) /\ CountsAgree(st) /\ RowsAreHeld(st)

LEMMA FreshStorageIsOK == StorageOK(FreshStorage) /\ CommittedCellsAreRows(FreshStorage)
<1> DEFINE range == [first_row |-> 1, length |-> DefaultChunkSize, chunk |-> 1]
           chunk == NewChunk(DefaultChunkSize)
<1>1. /\ chunk \in Chunks /\ chunk.row_count = 0 /\ chunk.size = DefaultChunkSize
      /\ DefaultChunkSize \in Nat \ {0}
  BY ChunkSizeIsPositive, NewChunkParts DEF CalcChunkSize
<1>2. range \in IndexRanges /\ range.first_row = 1 /\ range.chunk = 1 /\ range.length = chunk.size
  BY <1>1 DEF IndexRanges
<1>3. FreshStorage = [chunk_store_ |-> <<chunk>>, chunk_index_ |-> <<range>>, row_count_ |-> 0]
  BY DEF FreshStorage
<1> HIDE DEF range, chunk
<1>4. StorageType(FreshStorage)
  BY <1>1, <1>2, <1>3 DEF StorageType
<1>5. /\ FreshStorage.chunk_store_[1] = chunk /\ FreshStorage.chunk_index_[1] = range
      /\ Len(FreshStorage.chunk_index_) = 1 /\ Len(FreshStorage.chunk_store_) = 1
      /\ FreshStorage.row_count_ = 0
  BY <1>3
<1>6. IndexOK(FreshStorage)
  BY <1>1, <1>2, <1>4, <1>5 DEF IndexOK, IndexDescribesChunks, IndexInOrder
<1> QED BY <1>1, <1>2, <1>5, <1>6
        DEF StorageOK, CountsAgree, RowsAreHeld, CommittedCellsAreRows, LastChunk, Last

LEMMA AddedChunkIsOK ==
    ASSUME NEW st, StorageOK(st), RemainingSpace(LastChunk(st)) = 0, NEW n \in Nat
    PROVE  StorageOK(CreateChunk(st, n)) /\ Extends(st, CreateChunk(st, n))
<1> DEFINE st2 == CreateChunk(st, n)
           N == Len(st.chunk_index_)
<1>1. /\ StorageType(st) /\ IndexOK(st) /\ CountsAgree(st) /\ RowsAreHeld(st)
      /\ N \in Nat \ {0} /\ st.row_count_ \in Nat /\ Len(st.chunk_store_) = N
  BY StorageParts DEF StorageOK, IndexOK
<1>2. /\ StorageType(st2)
      /\ Len(st2.chunk_index_) = N + 1
      /\ st2.row_count_ = st.row_count_
      /\ st2.chunk_store_[N + 1] = NewChunk(n)
      /\ LastChunk(st2) = NewChunk(n)
      /\ st2.chunk_index_[N + 1].first_row = st.row_count_ + 1
      /\ st2.chunk_index_[N + 1].length = CalcChunkSize(n)
      /\ st2.chunk_index_[N + 1].chunk = N + 1
      /\ \A j \in 1 .. N : st2.chunk_store_[j] = st.chunk_store_[j]
      /\ \A j \in 1 .. N : st2.chunk_index_[j] = st.chunk_index_[j]
  <2>1. ChunkAdded(st, n, st2)
    BY <1>1, CreateAddsChunk
  <2> QED BY <2>1 DEF ChunkAdded
<1>3. /\ NewChunk(n).size = CalcChunkSize(n) /\ NewChunk(n).row_count = 0
      /\ CalcChunkSize(n) \in Nat
  BY NewChunkParts
<1>4. \A j \in 1 .. N : /\ st.chunk_index_[j].first_row \in Nat
                        /\ st.chunk_index_[j].length \in Nat
                        /\ st.chunk_store_[j].row_count \in Nat
                        /\ st.chunk_store_[j].size \in Nat
  BY <1>1, StorageParts, ChunkParts
<1> HIDE DEF st2
(* The old ranges end where the last chunk does, which is full.            *)
<1>5. st.chunk_index_[N].first_row + st.chunk_index_[N].length = st.row_count_ + 1
  <2>1. /\ LastChunk(st) = st.chunk_store_[N] /\ N \in 1 .. N
        /\ st.row_count_ + 1 = st.chunk_index_[N].first_row + LastChunk(st).row_count
        /\ LastChunk(st).size - LastChunk(st).row_count = 0
        /\ st.chunk_index_[N].length = st.chunk_store_[N].size
    BY <1>1 DEF CountsAgree, LastChunk, Last, RemainingSpace, IndexOK, IndexDescribesChunks
  <2> QED BY <1>4, <2>1
<1>6. \A j \in 1 .. N : st.chunk_index_[j].first_row + st.chunk_index_[j].length <= st.row_count_ + 1
  <2> SUFFICES ASSUME NEW j \in 1 .. N, j # N
               PROVE  st.chunk_index_[j].first_row + st.chunk_index_[j].length <= st.row_count_ + 1
    BY <1>1, <1>5
  <2>1. st.chunk_index_[j].first_row + st.chunk_index_[j].length <= st.chunk_index_[N].first_row
    BY <1>1 DEF IndexOK, IndexInOrder
  <2>2. st.chunk_index_[N].first_row <= st.row_count_ + 1
    BY <1>1, <1>4, <1>5
  <2>3. /\ st.chunk_index_[N].first_row \in Nat /\ st.chunk_index_[j].first_row \in Nat
        /\ st.chunk_index_[j].length \in Nat /\ st.row_count_ + 1 \in Nat
    BY <1>1, <1>4
  <2> HIDE DEF N
  <2> QED BY <2>1, <2>2, <2>3
<1>7. IndexDescribesChunks(st2)
  <2> SUFFICES ASSUME NEW k \in 1 .. N + 1
               PROVE  /\ st2.chunk_index_[k].chunk = k
                      /\ st2.chunk_index_[k].length = st2.chunk_store_[k].size
                      /\ st2.chunk_index_[k].first_row > 0
    BY <1>2 DEF IndexDescribesChunks
  <2>1. CASE k \in 1 .. N
    BY <1>1, <1>2, <2>1 DEF IndexOK, IndexDescribesChunks
  <2>2. CASE k = N + 1
    BY <1>1, <1>2, <1>3, <2>2
  <2> QED BY <1>1, <2>1, <2>2
<1>8. IndexInOrder(st2)
  <2> SUFFICES ASSUME NEW j \in 1 .. N + 1, NEW k \in 1 .. N + 1, j < k
               PROVE  st2.chunk_index_[j].first_row + st2.chunk_index_[j].length
                        <= st2.chunk_index_[k].first_row
    BY <1>2 DEF IndexInOrder
  <2>1. CASE k \in 1 .. N
    <3>1. j \in 1 .. N
      BY <1>1, <2>1
    <3>2. st.chunk_index_[j].first_row + st.chunk_index_[j].length <= st.chunk_index_[k].first_row
      BY <1>1, <2>1, <3>1 DEF IndexOK, IndexInOrder
    <3>3. st2.chunk_index_[j] = st.chunk_index_[j] /\ st2.chunk_index_[k] = st.chunk_index_[k]
      BY <1>2, <2>1, <3>1
    <3> QED BY <3>2, <3>3
  <2>2. CASE k = N + 1
    <3>1. j \in 1 .. N
      BY <1>1, <2>2
    <3>2. /\ st2.chunk_index_[j] = st.chunk_index_[j]
          /\ st2.chunk_index_[k].first_row = st.row_count_ + 1
      BY <1>2, <2>2, <3>1
    <3>3. st.chunk_index_[j].first_row + st.chunk_index_[j].length <= st.row_count_ + 1
      BY <1>6, <3>1
    <3> QED BY <3>2, <3>3
  <2> QED BY <1>1, <2>1, <2>2
<1>9. IndexOK(st2)
  BY <1>2, <1>7, <1>8 DEF IndexOK
<1>10. Extends(st, st2)
  <2>1. \A k \in 1 .. N : /\ st2.chunk_index_[k] = st.chunk_index_[k]
                         /\ st2.chunk_store_[k] = st.chunk_store_[k]
                         /\ st.chunk_store_[k].row_count \in Nat
    BY <1>2, <1>4
  <2>2. N + 1 >= N /\ st.row_count_ >= st.row_count_
    BY <1>1
  <2> QED BY <1>2, <2>1, <2>2 DEF Extends
<1>11. RowsAreHeld(st2)
  BY <1>1, <1>2, <1>9, <1>10, ExtensionHoldsRows
<1>12. CountsAgree(st2)
  BY <1>1, <1>2, <1>3 DEF CountsAgree
<1> QED BY <1>9, <1>10, <1>11, <1>12 DEF StorageOK, st2

LEMMA WithSpaceIsOK ==
    ASSUME NEW st, StorageOK(st), NEW n \in Nat
    PROVE  /\ StorageOK(WithSpace(st, n))
           /\ Extends(st, WithSpace(st, n))
           /\ WithSpace(st, n).row_count_ = st.row_count_
           /\ RemainingSpace(LastChunk(WithSpace(st, n))) \in Nat \ {0}
           /\ CommittedCellsAreRows(st) => CommittedCellsAreRows(WithSpace(st, n))
<1>1. /\ StorageType(st) /\ Len(st.chunk_index_) \in Nat \ {0}
      /\ Len(st.chunk_store_) = Len(st.chunk_index_)
      /\ \A k \in 1 .. Len(st.chunk_index_) : st.chunk_store_[k] \in Chunks
  BY StorageParts DEF StorageOK, IndexOK
<1>2. CASE RemainingSpace(LastChunk(st)) = 0
  <2>1. WithSpace(st, n) = CreateChunk(st, n)
    BY <1>2 DEF WithSpace
  <2>2. StorageOK(CreateChunk(st, n)) /\ Extends(st, CreateChunk(st, n))
    BY <1>2, AddedChunkIsOK
  <2>3. /\ LastChunk(CreateChunk(st, n)) = NewChunk(n)
        /\ CreateChunk(st, n).row_count_ = st.row_count_
        /\ Len(CreateChunk(st, n).chunk_store_) = Len(st.chunk_index_) + 1
        /\ CreateChunk(st, n).chunk_store_[Len(st.chunk_index_) + 1] = NewChunk(n)
        /\ \A j \in 1 .. Len(st.chunk_index_) :
            CreateChunk(st, n).chunk_store_[j] = st.chunk_store_[j]
    <3>1. ChunkAdded(st, n, CreateChunk(st, n))
      BY <1>1, CreateAddsChunk
    <3> QED BY <3>1 DEF ChunkAdded
  <2>4. RemainingSpace(NewChunk(n)) \in Nat \ {0} /\ NewChunk(n).row_count = 0
    <3>1. /\ NewChunk(n).size = CalcChunkSize(n) /\ CalcChunkSize(n) \in Nat \ {0}
          /\ NewChunk(n).row_count = 0
      BY NewChunkParts
    <3> QED BY <3>1 DEF RemainingSpace
  <2>5. CommittedCellsAreRows(st) => CommittedCellsAreRows(CreateChunk(st, n))
    <3> SUFFICES ASSUME CommittedCellsAreRows(st), NEW k \in 1 .. Len(st.chunk_index_) + 1,
                        NEW i \in 1 .. CreateChunk(st, n).chunk_store_[k].row_count
                 PROVE  CreateChunk(st, n).chunk_store_[k].data[i] \in Rows
      BY <2>3 DEF CommittedCellsAreRows
    <3>1. k \in 1 .. Len(st.chunk_index_)
      BY <1>1, <2>3, <2>4
    <3> QED BY <1>1, <2>3, <3>1 DEF CommittedCellsAreRows
  <2> QED BY <2>1, <2>2, <2>3, <2>4, <2>5
<1>3. CASE RemainingSpace(LastChunk(st)) # 0
  <2>1. WithSpace(st, n) = st
    BY <1>3 DEF WithSpace
  <2>2. LastChunk(st) \in Chunks
    BY <1>1 DEF LastChunk, Last
  <2>3. RemainingSpace(LastChunk(st)) \in Nat
    BY <2>2, ChunkParts DEF RemainingSpace
  <2> QED BY <1>1, <1>3, <2>1, <2>3, ExtendsIsReflexive
<1> QED BY <1>2, <1>3

(* The last chunk is replaced by one of its size with no row less.         *)
ChunkSet(st, chunk, st2) ==
    /\ StorageType(st2) /\ Extends(st, st2)
    /\ IndexOK(st) => IndexOK(st2)
    /\ st2.chunk_index_ = st.chunk_index_
    /\ st2.row_count_ = st.row_count_
    /\ Last(st2) = Last(st)
    /\ LastChunk(st2) = chunk
    /\ \A j \in 1 .. Len(st.chunk_store_) :
        st2.chunk_store_[j] = IF j = Last(st) THEN chunk ELSE st.chunk_store_[j]

LEMMA SetLastChunkSets ==
    ASSUME NEW st, StorageType(st), NEW chunk \in Chunks,
           chunk.size = LastChunk(st).size, chunk.row_count >= LastChunk(st).row_count,
           \A i \in 1 .. LastChunk(st).row_count : chunk.data[i] = LastChunk(st).data[i]
    PROVE  ChunkSet(st, chunk, SetLastChunk(st, chunk))
<1> DEFINE N == Last(st)
           st2 == SetLastChunk(st, chunk)
<1>1. N \in 1 .. Len(st.chunk_index_) /\ N = Len(st.chunk_index_) /\ Len(st.chunk_store_) = N
  BY StorageParts DEF Last
<1>2. st2 = SetChunk(st, N, chunk)
  BY SetLastIsSet
<1>3. LastChunk(st) = st.chunk_store_[N]
  BY DEF LastChunk
<1> HIDE DEF N, st2
<1>4. /\ StorageType(st2)
      /\ st2.chunk_index_ = st.chunk_index_
      /\ st2.row_count_ = st.row_count_
      /\ Last(st2) = N
      /\ st2.chunk_store_[N] = chunk
      /\ \A j \in 1 .. N : j # N => st2.chunk_store_[j] = st.chunk_store_[j]
  BY <1>1, <1>2, ReplacedChunk DEF N
<1>5. Extends(st, st2)
  BY <1>1, <1>2, <1>3, ReplacedChunkExtends
<1>6. IndexOK(st) => IndexOK(st2)
  BY <1>1, <1>2, <1>3, ReplacedChunkKeepsIndex
<1>7. LastChunk(st2) = chunk
  BY <1>4 DEF LastChunk
<1>8. ChunkSet(st, chunk, st2)
  BY <1>1, <1>4, <1>5, <1>6, <1>7 DEF ChunkSet, N
<1> QED BY <1>8 DEF st2

(* What every operation but commit() does to a storage.                    *)
Kept(st, st2) ==
    /\ StorageOK(st2) /\ Extends(st, st2)
    /\ st2.row_count_ = st.row_count_
    /\ CommittedCellsAreRows(st) => CommittedCellsAreRows(st2)

(* An area as prepare() hands it out.                                      *)
IsPrepared(st, area) ==
    /\ area \in [chunk : Nat, first : Nat, rows : Nat \ {0}]
    /\ area.chunk = Last(st)
    /\ area.first = LastChunk(st).row_count + 1
    /\ area.first + area.rows - 1 <= LastChunk(st).size
    /\ LastChunk(st).prepared = TRUE

LEMMA LastChunkParts ==
    ASSUME NEW st, StorageType(st)
    PROVE  /\ LastChunk(st) \in Chunks
           /\ LastChunk(st) = st.chunk_store_[Len(st.chunk_index_)]
           /\ Last(st) = Len(st.chunk_index_)
           /\ Last(st) \in Nat \ {0}
BY StorageParts DEF LastChunk, Last

(* A new last chunk with the same rows counted.                            *)
LEMMA NewLastChunkIsKept ==
    ASSUME NEW st, StorageOK(st), NEW chunk \in Chunks,
           chunk.size = LastChunk(st).size, chunk.row_count = LastChunk(st).row_count,
           \A i \in 1 .. LastChunk(st).row_count : chunk.data[i] = LastChunk(st).data[i]
    PROVE  Kept(st, SetLastChunk(st, chunk))
<1> DEFINE st2 == SetLastChunk(st, chunk)
<1>1. /\ StorageType(st) /\ IndexOK(st) /\ RowsAreHeld(st) /\ CountsAgree(st)
      /\ chunk.row_count >= LastChunk(st).row_count
  BY LastChunkParts, ChunkParts DEF StorageOK, IndexOK
<1>2. ChunkSet(st, chunk, st2)
  BY <1>1, SetLastChunkSets
<1> HIDE DEF st2
<1>3. /\ IndexOK(st2) /\ Extends(st, st2) /\ st2.row_count_ = st.row_count_
      /\ st2.chunk_index_ = st.chunk_index_ /\ LastChunk(st2) = chunk
  BY <1>1, <1>2 DEF ChunkSet
<1>4. RowsAreHeld(st2)
  BY <1>1, <1>3, ExtensionHoldsRows
<1>5. CountsAgree(st2)
  BY <1>1, <1>3 DEF CountsAgree
<1>6. CommittedCellsAreRows(st) => CommittedCellsAreRows(st2)
  <2> SUFFICES ASSUME CommittedCellsAreRows(st), NEW k \in 1 .. Len(st2.chunk_store_),
                      NEW i \in 1 .. st2.chunk_store_[k].row_count
               PROVE  st2.chunk_store_[k].data[i] \in Rows
    BY DEF CommittedCellsAreRows
  <2>1. k \in 1 .. Len(st.chunk_store_)
    BY <1>2, <1>1, StorageParts DEF ChunkSet
  <2>2. st2.chunk_store_[k] = IF k = Last(st) THEN chunk ELSE st.chunk_store_[k]
    BY <1>2, <2>1 DEF ChunkSet
  <2>3. /\ i \in 1 .. st.chunk_store_[k].row_count
        /\ st2.chunk_store_[k].data[i] = st.chunk_store_[k].data[i]
    BY <2>2 DEF LastChunk
  <2> QED BY <2>1, <2>3 DEF CommittedCellsAreRows
<1> QED BY <1>3, <1>4, <1>5, <1>6 DEF Kept, StorageOK, st2

LEMMA KeptIsTransitive ==
    ASSUME NEW s1, NEW s2, NEW s3, StorageOK(s1), Kept(s1, s2), Kept(s2, s3)
    PROVE  Kept(s1, s3)
<1>1. StorageType(s1) /\ StorageType(s2) /\ StorageType(s3)
  BY DEF Kept, StorageOK, IndexOK
<1>2. Extends(s1, s3)
  BY <1>1, ExtendsIsTransitive DEF Kept
<1> QED BY <1>2 DEF Kept

LEMMA PrepareKeeps ==
    ASSUME NEW st, StorageOK(st), NEW n \in Nat \ {0}
    PROVE  /\ Kept(st, Prepare(st, n))
           /\ IsPrepared(Prepare(st, n), AreaOf(st, n))
           /\ AreaOf(st, n).rows <= n
<1> DEFINE sp == WithSpace(st, n)
           chunk == PrepareChunk(LastChunk(sp))
           st2 == SetLastChunk(sp, chunk)
           area == PreparedArea(LastChunk(sp), Last(sp), PrepareCount(sp, n))
<1>1. Kept(st, sp) /\ RemainingSpace(LastChunk(sp)) \in Nat \ {0}
  BY WithSpaceIsOK DEF Kept
<1>2. Prepare(st, n) = st2 /\ AreaOf(st, n) = area
  BY DEF Prepare, AreaOf
<1> HIDE DEF sp
<1>3. StorageOK(sp) /\ StorageType(sp) /\ LastChunk(sp) \in Chunks /\ Last(sp) \in Nat \ {0}
  BY <1>1, LastChunkParts DEF Kept, StorageOK, IndexOK
<1>4. /\ chunk \in Chunks /\ chunk.size = LastChunk(sp).size
      /\ chunk.row_count = LastChunk(sp).row_count /\ chunk.data = LastChunk(sp).data
      /\ chunk.prepared = TRUE
      /\ LastChunk(sp).row_count \in Nat /\ LastChunk(sp).size \in Nat
  BY <1>3, PrepareChunkParts, ChunkParts
<1> HIDE DEF chunk
<1>5. Kept(sp, st2)
  BY <1>3, <1>4, NewLastChunkIsKept
<1>6. Kept(st, st2)
  BY <1>1, <1>5, KeptIsTransitive
<1>7. ChunkSet(sp, chunk, st2)
  BY <1>3, <1>4, SetLastChunkSets
<1> HIDE DEF st2
<1>8. LastChunk(st2) = chunk /\ Last(st2) = Last(sp)
  BY <1>7 DEF ChunkSet
<1>9. PrepareCount(sp, n) \in Nat \ {0} /\ PrepareCount(sp, n) <= n
      /\ PrepareCount(sp, n) <= LastChunk(sp).size - LastChunk(sp).row_count
  BY <1>1, <1>4 DEF PrepareCount, RemainingSpace
<1>10. /\ area \in [chunk : Nat, first : Nat, rows : Nat \ {0}]
       /\ area.chunk = Last(sp) /\ area.first = LastChunk(sp).row_count + 1
       /\ area.rows = PrepareCount(sp, n)
  BY <1>3, <1>4, <1>9 DEF PreparedArea
<1> HIDE DEF area
<1>11. area.first + area.rows - 1 <= LastChunk(sp).size
  BY <1>4, <1>9, <1>10
<1>12. IsPrepared(st2, area)
  BY <1>4, <1>8, <1>10, <1>11 DEF IsPrepared
<1> QED BY <1>2, <1>6, <1>9, <1>10, <1>12

(* The driver writes behind the committed rows.                            *)
AreaWritten(st, area, rows, st2) ==
    /\ Kept(st, st2)
    /\ IsPrepared(st2, area)
    /\ LastChunk(st2).row_count = LastChunk(st).row_count
    /\ LastChunk(st2).size = LastChunk(st).size
    /\ \A i \in 1 .. LastChunk(st).size :
        LastChunk(st2).data[i] =
            IF i >= area.first /\ i < area.first + Len(rows)
            THEN rows[i - area.first + 1] ELSE LastChunk(st).data[i]

LEMMA WriteKeeps ==
    ASSUME NEW st, StorageOK(st), NEW area, IsPrepared(st, area), NEW rows \in Seq(Cells)
    PROVE  AreaWritten(st, area, rows, WriteArea(st, area, rows))
<1> DEFINE chunk == WriteChunk(LastChunk(st), area, rows)
           st2 == SetLastChunk(st, chunk)
<1>1. /\ StorageType(st) /\ LastChunk(st) \in Chunks /\ area.first \in Nat
      /\ area.chunk = Last(st) /\ area.first = LastChunk(st).row_count + 1
      /\ LastChunk(st).row_count \in Nat /\ LastChunk(st).size \in Nat
      /\ LastChunk(st).row_count <= LastChunk(st).size
  BY LastChunkParts, ChunkParts DEF StorageOK, IndexOK, IsPrepared
<1>2. WriteArea(st, area, rows) = st2
  BY <1>1 DEF WriteArea, SetLastChunk, LastChunk, Last
<1>3. /\ chunk \in Chunks /\ chunk.size = LastChunk(st).size
      /\ chunk.row_count = LastChunk(st).row_count /\ chunk.prepared = LastChunk(st).prepared
      /\ \A i \in 1 .. LastChunk(st).size :
            chunk.data[i] = IF i >= area.first /\ i < area.first + Len(rows)
                            THEN rows[i - area.first + 1] ELSE LastChunk(st).data[i]
  BY <1>1, WriteChunkParts
<1> HIDE DEF chunk
<1>4. \A i \in 1 .. LastChunk(st).row_count : chunk.data[i] = LastChunk(st).data[i]
  BY <1>1, <1>3
<1>5. Kept(st, st2)
  BY <1>3, <1>4, NewLastChunkIsKept
<1>6. chunk.row_count >= LastChunk(st).row_count
  BY <1>1, <1>3
<1>7. ChunkSet(st, chunk, st2)
  BY <1>1, <1>3, <1>4, <1>6, SetLastChunkSets
<1> HIDE DEF st2
<1>8. LastChunk(st2) = chunk /\ Last(st2) = Last(st)
  BY <1>7 DEF ChunkSet
<1>9. IsPrepared(st2, area)
  BY <1>3, <1>8 DEF IsPrepared
<1> QED BY <1>2, <1>3, <1>5, <1>8, <1>9 DEF AreaWritten

(* commit() in two steps: the chunk counts its rows, then the storage.     *)
ChunkCommitted(st, q) == SetLastChunk(st, CommitChunk(LastChunk(st), q))

LEMMA ChunkCommits ==
    ASSUME NEW st, StorageOK(st), NEW q \in Nat,
           LastChunk(st).row_count + q <= LastChunk(st).size
    PROVE  /\ IndexOK(ChunkCommitted(st, q)) /\ RowsAreHeld(ChunkCommitted(st, q))
           /\ Extends(st, ChunkCommitted(st, q))
           /\ ChunkCommitted(st, q).row_count_ = st.row_count_
           /\ ChunkCommitted(st, q).chunk_index_ = st.chunk_index_
           /\ LastChunk(ChunkCommitted(st, q)) = CommitChunk(LastChunk(st), q)
           /\ Last(ChunkCommitted(st, q)) = Last(st)
           /\ \A j \in 1 .. Len(st.chunk_store_) :
                ChunkCommitted(st, q).chunk_store_[j] =
                    IF j = Last(st) THEN CommitChunk(LastChunk(st), q) ELSE st.chunk_store_[j]
<1> DEFINE chunk == CommitChunk(LastChunk(st), q)
           st2 == SetLastChunk(st, chunk)
<1>1. /\ IndexOK(st) /\ RowsAreHeld(st) /\ StorageType(st) /\ LastChunk(st) \in Chunks
      /\ LastChunk(st).row_count \in Nat
  BY LastChunkParts, ChunkParts DEF StorageOK, IndexOK
<1>2. /\ chunk \in Chunks /\ chunk.size = LastChunk(st).size
      /\ chunk.row_count = LastChunk(st).row_count + q /\ chunk.data = LastChunk(st).data
  BY <1>1, CommitChunkParts
<1> HIDE DEF chunk
<1>3. chunk.row_count >= LastChunk(st).row_count
  BY <1>1, <1>2
<1>4. ChunkSet(st, chunk, st2)
  BY <1>1, <1>2, <1>3, SetLastChunkSets
<1>5. ChunkCommitted(st, q) = st2
  BY DEF ChunkCommitted, chunk
<1> HIDE DEF st2
<1>6. IndexOK(st2) /\ Extends(st, st2) /\ st2.row_count_ = st.row_count_
  BY <1>1, <1>4 DEF ChunkSet
<1>7. RowsAreHeld(st2)
  BY <1>1, <1>6, ExtensionHoldsRows
<1> QED BY <1>4, <1>5, <1>6, <1>7 DEF ChunkSet, chunk

LEMMA RowBehindIsInside ==
    ASSUME NEW row \in Nat, NEW before \in Nat, NEW counted \in Nat, NEW first \in Nat,
           NEW rows \in Nat, NEW size \in Nat, rows <= size, row > before, row <= counted,
           counted + 1 = first + rows, first <= before + 1
    PROVE  row >= first /\ row < first + size /\ (row - first) + 1 <= rows
OBVIOUS

LEMMA StorageCounts ==
    ASSUME NEW st, IndexOK(st), RowsAreHeld(st), NEW q \in Nat,
           (st.row_count_ + q) + 1
                = st.chunk_index_[Len(st.chunk_index_)].first_row + LastChunk(st).row_count,
           q <= LastChunk(st).row_count,
           NEW st2, st2 = [st EXCEPT !.row_count_ = @ + q]
    PROVE  /\ StorageOK(st2) /\ Extends(st, st2)
           /\ st2.row_count_ = st.row_count_ + q
           /\ st2.chunk_store_ = st.chunk_store_ /\ st2.chunk_index_ = st.chunk_index_
<1> DEFINE N == Len(st.chunk_index_)
           counted == st.row_count_ + q
<1>1. /\ StorageType(st) /\ N \in Nat \ {0} /\ st.row_count_ \in Nat /\ counted \in Nat
      /\ st.chunk_index_[N].first_row \in Nat /\ st.chunk_index_[N].length \in Nat
      /\ LastChunk(st) = st.chunk_store_[N] /\ LastChunk(st) \in Chunks
      /\ st.chunk_index_[N].length = LastChunk(st).size
      /\ LastChunk(st).row_count \in Nat /\ LastChunk(st).row_count <= LastChunk(st).size
      /\ LastChunk(st).size \in Nat
  <2>1. StorageType(st) /\ N \in Nat \ {0} /\ N \in 1 .. N /\ st.row_count_ \in Nat
    BY StorageParts DEF IndexOK
  <2>2. /\ st.chunk_index_[N].first_row \in Nat /\ st.chunk_index_[N].length \in Nat
        /\ st.chunk_index_[N].length = st.chunk_store_[N].size
    BY <2>1, StorageParts DEF IndexOK, IndexDescribesChunks
  <2>3. LastChunk(st) = st.chunk_store_[N] /\ LastChunk(st) \in Chunks
    BY <2>1, LastChunkParts
  <2>4. /\ LastChunk(st).row_count \in Nat /\ LastChunk(st).row_count <= LastChunk(st).size
        /\ LastChunk(st).size \in Nat
    BY <2>3, ChunkParts
  <2>5. counted \in Nat
    BY <2>1
  <2> QED BY <2>1, <2>2, <2>3, <2>4, <2>5
<1>2. st = [chunk_store_ |-> st.chunk_store_, chunk_index_ |-> st.chunk_index_,
            row_count_ |-> st.row_count_]
  BY <1>1 DEF StorageType
<1>3. st2 = [st EXCEPT !.row_count_ = counted]
  OBVIOUS
<1> HIDE DEF counted
<1>4. /\ st2.chunk_store_ = st.chunk_store_ /\ st2.chunk_index_ = st.chunk_index_
      /\ st2.row_count_ = counted
      /\ st2 = [chunk_store_ |-> st.chunk_store_, chunk_index_ |-> st.chunk_index_,
                row_count_ |-> counted]
  BY <1>2, <1>3
<1>5. LastChunk(st2) = LastChunk(st)
  BY <1>4 DEF LastChunk, Last
<1>6. IndexOK(st2)
  BY <1>1, <1>4 DEF IndexOK, StorageType, IndexDescribesChunks, IndexInOrder
<1>7. CountsAgree(st2)
  BY <1>4, <1>5 DEF CountsAgree, counted
<1>8. RowsAreHeld(st2)
  <2> SUFFICES ASSUME NEW row \in 1 .. counted
               PROVE  \E k \in 1 .. N : Holds(st2, k, row)
    BY <1>4 DEF RowsAreHeld
  <2>1. CASE row <= st.row_count_
    <3>1. row \in 1 .. st.row_count_
      BY <1>1, <2>1
    <3> QED BY <1>4, <3>1 DEF RowsAreHeld, Holds
  <2>2. CASE row > st.row_count_
    <3> DEFINE first == st.chunk_index_[N].first_row
               rows == LastChunk(st).row_count
               size == st.chunk_index_[N].length
    <3>1. row \in Nat /\ row <= counted /\ st.row_count_ \in Nat /\ counted \in Nat
      BY <1>1
    <3>2. first \in Nat /\ rows \in Nat /\ size \in Nat /\ rows <= size
      BY <1>1
    <3>3. counted + 1 = first + rows
      BY <1>1 DEF counted
    <3>4. q \in Nat /\ q <= rows /\ counted = st.row_count_ + q
      BY <1>1 DEF counted
    <3> HIDE DEF first, rows, size
    <3>5. first <= st.row_count_ + 1
      BY <3>1, <3>2, <3>3, <3>4
    <3>6. row >= first /\ row < first + size /\ (row - first) + 1 <= rows
      BY <2>2, <3>1, <3>2, <3>3, <3>5, RowBehindIsInside
    <3>7. Holds(st2, N, row)
      BY <1>1, <1>4, <3>6 DEF Holds, Contains, first, rows, size
    <3> QED BY <1>1, <3>7
  <2>3. row \in Nat /\ st.row_count_ \in Nat
    BY <1>1
  <2> QED BY <2>1, <2>2, <2>3
<1>9. Extends(st, st2)
  <2>1. Extends(st, st)
    BY <1>1, ExtendsIsReflexive
  <2>2. counted >= st.row_count_
    BY <1>1 DEF counted
  <2> QED BY <1>4, <2>1, <2>2 DEF Extends
<1> QED BY <1>4, <1>6, <1>7, <1>8, <1>9 DEF StorageOK, counted

LEMMA CommitCounts ==
    ASSUME NEW st, StorageOK(st), NEW q \in Nat,
           LastChunk(st).row_count + q <= LastChunk(st).size
    PROVE  /\ StorageOK(Commit(st, q)) /\ Extends(st, Commit(st, q))
           /\ Commit(st, q).row_count_ = st.row_count_ + q
           /\ LastChunk(Commit(st, q)).row_count = LastChunk(st).row_count + q
           /\ LastChunk(Commit(st, q)).size = LastChunk(st).size
           /\ LastChunk(Commit(st, q)).data = LastChunk(st).data
           /\ Last(Commit(st, q)) = Last(st)
           /\ \A j \in 1 .. Len(st.chunk_store_) :
                j # Last(st) => Commit(st, q).chunk_store_[j] = st.chunk_store_[j]
<1> DEFINE s1 == ChunkCommitted(st, q)
           st2 == [s1 EXCEPT !.row_count_ = @ + q]
<1>1. /\ StorageType(st) /\ CountsAgree(st) /\ LastChunk(st) \in Chunks
      /\ LastChunk(st).row_count \in Nat /\ st.row_count_ \in Nat
      /\ st.chunk_index_[Len(st.chunk_index_)].first_row \in Nat
  <2>1. StorageType(st) /\ CountsAgree(st)
    BY DEF StorageOK, IndexOK
  <2>2. /\ LastChunk(st) \in Chunks /\ st.row_count_ \in Nat
        /\ st.chunk_index_[Len(st.chunk_index_)].first_row \in Nat
    BY <2>1, LastChunkParts, StorageParts
  <2> QED BY <2>1, <2>2, ChunkParts
<1>2. /\ IndexOK(s1) /\ RowsAreHeld(s1) /\ Extends(st, s1)
      /\ s1.row_count_ = st.row_count_ /\ s1.chunk_index_ = st.chunk_index_
      /\ LastChunk(s1) = CommitChunk(LastChunk(st), q) /\ Last(s1) = Last(st)
      /\ \A j \in 1 .. Len(st.chunk_store_) : j # Last(st) => s1.chunk_store_[j] = st.chunk_store_[j]
  BY ChunkCommits
<1>3. /\ LastChunk(s1).row_count = LastChunk(st).row_count + q
      /\ LastChunk(s1).size = LastChunk(st).size /\ LastChunk(s1).data = LastChunk(st).data
  <2>1. /\ CommitChunk(LastChunk(st), q).row_count = LastChunk(st).row_count + q
        /\ CommitChunk(LastChunk(st), q).size = LastChunk(st).size
        /\ CommitChunk(LastChunk(st), q).data = LastChunk(st).data
    BY <1>1, CommitChunkParts
  <2> QED BY <1>2, <2>1
<1>4. Commit(st, q) = st2
  BY DEF Commit, ChunkCommitted
<1> HIDE DEF s1
<1>5. (s1.row_count_ + q) + 1
        = s1.chunk_index_[Len(s1.chunk_index_)].first_row + LastChunk(s1).row_count
  <2>1. s1.chunk_index_[Len(s1.chunk_index_)].first_row
            = st.chunk_index_[Len(st.chunk_index_)].first_row
    BY <1>2
  <2>2. st.row_count_ + 1
            = st.chunk_index_[Len(st.chunk_index_)].first_row + LastChunk(st).row_count
    BY <1>1 DEF CountsAgree
  <2>3. (st.row_count_ + q) + 1 = st.chunk_index_[Len(st.chunk_index_)].first_row
                                        + (LastChunk(st).row_count + q)
    <3> DEFINE count == st.row_count_
               first == st.chunk_index_[Len(st.chunk_index_)].first_row
               rows == LastChunk(st).row_count
    <3>1. count \in Nat /\ first \in Nat /\ rows \in Nat /\ count + 1 = first + rows
      BY <1>1, <2>2
    <3> HIDE DEF count, first, rows
    <3>2. (count + q) + 1 = first + (rows + q)
      BY <3>1
    <3> QED BY <3>2 DEF count, first, rows
  <2> QED BY <1>2, <1>3, <2>1, <2>3
<1>6. q <= LastChunk(s1).row_count
  BY <1>1, <1>3
<1>7. /\ StorageOK(st2) /\ Extends(s1, st2)
      /\ st2.row_count_ = s1.row_count_ + q
      /\ st2.chunk_store_ = s1.chunk_store_ /\ st2.chunk_index_ = s1.chunk_index_
  BY <1>2, <1>5, <1>6, StorageCounts
<1> HIDE DEF st2
<1>8. LastChunk(st2) = LastChunk(s1) /\ Last(st2) = Last(s1)
  BY <1>7 DEF LastChunk, Last
<1>9. Extends(st, st2)
  BY <1>1, <1>2, <1>7, ExtendsIsTransitive DEF StorageOK, IndexOK
<1> QED BY <1>2, <1>3, <1>4, <1>7, <1>8, <1>9

(* Committing rows that were written leaves rows in every committed place. *)
LEMMA CommitOfRows ==
    ASSUME NEW st, StorageOK(st), CommittedCellsAreRows(st), NEW q \in Nat,
           LastChunk(st).row_count + q <= LastChunk(st).size,
           \A i \in LastChunk(st).row_count + 1 .. LastChunk(st).row_count + q :
                LastChunk(st).data[i] \in Rows
    PROVE  CommittedCellsAreRows(Commit(st, q))
<1> DEFINE st2 == Commit(st, q)
<1>1. /\ StorageType(st) /\ LastChunk(st).row_count \in Nat
      /\ Len(st.chunk_store_) = Last(st) /\ Last(st) \in Nat
      /\ Last(st) \in 1 .. Len(st.chunk_store_) /\ LastChunk(st) = st.chunk_store_[Last(st)]
  BY LastChunkParts, StorageParts, ChunkParts DEF StorageOK, IndexOK, LastChunk
<1>2. /\ LastChunk(st2).row_count = LastChunk(st).row_count + q
      /\ LastChunk(st2).data = LastChunk(st).data
      /\ Last(st2) = Last(st)
      /\ \A j \in 1 .. Len(st.chunk_store_) : j # Last(st) => st2.chunk_store_[j] = st.chunk_store_[j]
  BY CommitCounts
<1> HIDE DEF st2
<1>3. LastChunk(st2) = st2.chunk_store_[Last(st)] /\ Len(st2.chunk_store_) = Last(st)
  BY <1>2 DEF LastChunk, Last
<1>4. ASSUME NEW k \in 1 .. Len(st2.chunk_store_), NEW i \in 1 .. st2.chunk_store_[k].row_count
      PROVE  st2.chunk_store_[k].data[i] \in Rows
  <2>1. CASE k = Last(st)
    <3>1. i \in 1 .. LastChunk(st).row_count \/ i \in LastChunk(st).row_count + 1 .. LastChunk(st).row_count + q
      BY <1>1, <1>2, <1>3, <2>1
    <3> QED BY <1>1, <1>2, <1>3, <2>1, <3>1 DEF CommittedCellsAreRows
  <2>2. CASE k # Last(st)
    BY <1>1, <1>2, <1>3, <2>2 DEF CommittedCellsAreRows
  <2> QED BY <2>1, <2>2
<1> QED BY <1>4 DEF CommittedCellsAreRows, st2
-----------------------------------------------------------------------------
(* What a reader gets.                                                     *)

LEMMA ReadsAreKept ==
    ASSUME NEW st, NEW st2, StorageOK(st), StorageOK(st2), Extends(st, st2)
    PROVE  /\ st.row_count_ \in Nat /\ st2.row_count_ \in Nat
           /\ st.row_count_ <= st2.row_count_
           /\ \A row \in 1 .. st.row_count_ :
                GetValue(st2, row) = GetValue(st, row) /\ GetValue(st, row) \in Cells
<1>1. /\ IndexOK(st) /\ IndexOK(st2) /\ RowsAreHeld(st)
      /\ st.row_count_ \in Nat /\ st2.row_count_ \in Nat
      /\ st.row_count_ <= st2.row_count_
  BY StorageParts DEF StorageOK, IndexOK, Extends
<1>2. ASSUME NEW row \in 1 .. st.row_count_
      PROVE  GetValue(st2, row) = GetValue(st, row) /\ GetValue(st, row) \in Cells
  <2>1. PICK k \in 1 .. Len(st.chunk_index_) : Holds(st, k, row)
    BY <1>1 DEF RowsAreHeld
  <2>2. row \in Nat
    BY <1>1
  <2>3. GetValue(st2, row) = GetValue(st, row)
    BY <1>1, <2>1, <2>2, ExtensionKeepsRows
  <2> DEFINE i == (row - st.chunk_index_[k].first_row) + 1
             chunk == st.chunk_store_[k]
  <2>4. GetValue(st, row) = chunk.data[i]
    BY <1>1, <2>1, <2>2, HeldRowIsFound
  <2>5. /\ st.chunk_index_[k].first_row \in Nat /\ chunk.row_count \in Nat
        /\ chunk.size \in Nat /\ chunk.row_count <= chunk.size
        /\ chunk.data \in [1 .. chunk.size -> Cells]
    BY <1>1, StorageParts, ChunkParts DEF IndexOK
  <2>6. i \in 1 .. chunk.size
    BY <2>1, <2>2, <2>5 DEF Holds, Contains
  <2> HIDE DEF i, chunk
  <2> QED BY <2>3, <2>4, <2>5, <2>6
<1> QED BY <1>1, <1>2

LEMMA NextRowIsInside ==
    ASSUME NEW count \in Nat, NEW first \in Nat, NEW rows \in Nat, NEW size \in Nat,
           NEW q \in Nat, NEW i \in 1 .. q, rows + q <= size,
           count + q + 1 = first + (rows + q)
    PROVE  /\ count + i \in Nat /\ count + i >= first /\ count + i < first + size
           /\ ((count + i) - first) + 1 = rows + i /\ rows + i <= rows + q
OBVIOUS

(* A row that is committed is read from the place it was written to.       *)
LEMMA CommittedRowIsRead ==
    ASSUME NEW st, StorageOK(st), NEW q \in Nat,
           LastChunk(st).row_count + q <= LastChunk(st).size, NEW i \in 1 .. q
    PROVE  GetValue(Commit(st, q), st.row_count_ + i)
                = LastChunk(st).data[LastChunk(st).row_count + i]
<1> DEFINE st2 == Commit(st, q)
           N == Last(st)
           first == st2.chunk_index_[N].first_row
           rows == LastChunk(st).row_count
           count == st.row_count_
           size == LastChunk(st).size
           row == count + i
<1>1. rows \in Nat /\ count \in Nat /\ size \in Nat /\ rows + q <= size
  BY LastChunkParts, StorageParts, ChunkParts DEF StorageOK, IndexOK
<1>2. /\ StorageOK(st2) /\ st2.row_count_ = st.row_count_ + q
      /\ LastChunk(st2).row_count = rows + q /\ LastChunk(st2).data = LastChunk(st).data
      /\ LastChunk(st2).size = size /\ Last(st2) = N
  BY CommitCounts
<1>3. /\ IndexOK(st2) /\ CountsAgree(st2)
      /\ N = Len(st2.chunk_index_) /\ N \in Nat \ {0} /\ LastChunk(st2) = st2.chunk_store_[N]
      /\ first \in Nat
  BY <1>2, LastChunkParts, StorageParts DEF StorageOK, IndexOK
<1>4. st2.chunk_index_[N].length = size
  BY <1>2, <1>3 DEF IndexOK, IndexDescribesChunks
<1>5. count + q + 1 = first + (rows + q)
  BY <1>1, <1>2, <1>3 DEF CountsAgree
<1> HIDE DEF st2, N, first, rows, count, size
<1>6. row \in Nat /\ row >= first /\ row < first + size
      /\ (row - first) + 1 = rows + i /\ rows + i <= rows + q
  BY <1>1, <1>3, <1>5, NextRowIsInside
<1> HIDE DEF row
<1>7. Holds(st2, N, row)
  <2>1. N \in 1 .. Len(st2.chunk_index_)
    BY <1>3
  <2>2. Contains(st2.chunk_index_[N], row)
    BY <1>3, <1>4, <1>6 DEF Contains, first
  <2> QED BY <1>2, <1>3, <1>6, <2>1, <2>2 DEF Holds, first
<1>8. GetValue(st2, row) = st2.chunk_store_[N].data[(row - first) + 1]
  <2>1. IndexOK(st2) /\ N \in 1 .. Len(st2.chunk_index_) /\ row \in Nat
    BY <1>3, <1>6
  <2> QED BY <1>7, <2>1, HeldRowIsFound DEF first
<1>9. GetValue(st2, row) = LastChunk(st).data[rows + i]
  BY <1>2, <1>3, <1>6, <1>8
<1> QED BY <1>9 DEF st2, rows, count, row

-----------------------------------------------------------------------------
(* A whole fetch: the rows that were put in the area it prepared, and      *)
(* those of them that it committed.                                        *)

(* The space there is once prepare(n) has seen to it that there is some.   *)
SpaceFor(st, n) == RemainingSpace(LastChunk(WithSpace(st, n)))

Stored(st, n, rows, q, st2) ==
    /\ StorageOK(st2) /\ Extends(st, st2)
    /\ st2.row_count_ = st.row_count_ + q
    /\ \A i \in 1 .. q : i <= Len(rows) => GetValue(st2, st.row_count_ + i) = rows[i]
    /\ RemainingSpace(LastChunk(st2)) = SpaceFor(st, n) - q

LEMMA PrepareSpace ==
    ASSUME NEW st, StorageOK(st), NEW n \in Nat \ {0}
    PROVE  /\ SpaceFor(st, n) \in Nat \ {0}
           /\ SpaceFor(st, n) = IF RemainingSpace(LastChunk(st)) = 0 THEN CalcChunkSize(n)
                                ELSE RemainingSpace(LastChunk(st))
           /\ AreaOf(st, n).rows = IF SpaceFor(st, n) < n THEN SpaceFor(st, n) ELSE n
           /\ RemainingSpace(LastChunk(Prepare(st, n))) = SpaceFor(st, n)
<1> DEFINE sp == WithSpace(st, n)
           chunk == PrepareChunk(LastChunk(sp))
           st2 == SetLastChunk(sp, chunk)
<1>1. StorageOK(sp) /\ SpaceFor(st, n) \in Nat \ {0}
  BY WithSpaceIsOK DEF SpaceFor
<1>2. SpaceFor(st, n) = IF RemainingSpace(LastChunk(st)) = 0 THEN CalcChunkSize(n)
                        ELSE RemainingSpace(LastChunk(st))
  <2>1. ASSUME RemainingSpace(LastChunk(st)) = 0
        PROVE  SpaceFor(st, n) = CalcChunkSize(n)
    <3>1. WithSpace(st, n) = CreateChunk(st, n)
      BY <2>1 DEF WithSpace
    <3>2. ChunkAdded(st, n, CreateChunk(st, n))
      BY CreateAddsChunk DEF StorageOK, IndexOK
    <3>3. LastChunk(CreateChunk(st, n)) = NewChunk(n)
      BY <3>2 DEF ChunkAdded
    <3>4. NewChunk(n).size = CalcChunkSize(n) /\ NewChunk(n).row_count = 0
          /\ CalcChunkSize(n) \in Nat
      BY NewChunkParts
    <3> QED BY <3>1, <3>3, <3>4 DEF SpaceFor, RemainingSpace
  <2>2. ASSUME RemainingSpace(LastChunk(st)) # 0
        PROVE  SpaceFor(st, n) = RemainingSpace(LastChunk(st))
    BY <2>2 DEF WithSpace, SpaceFor
  <2> QED BY <2>1, <2>2
<1>3. AreaOf(st, n).rows = IF SpaceFor(st, n) < n THEN SpaceFor(st, n) ELSE n
  BY DEF AreaOf, PreparedArea, PrepareCount, SpaceFor
<1>4. Prepare(st, n) = st2
  BY DEF Prepare
<1> HIDE DEF sp
<1>5. /\ StorageType(sp) /\ LastChunk(sp) \in Chunks
      /\ LastChunk(sp).row_count \in Nat
  BY <1>1, LastChunkParts, ChunkParts DEF StorageOK, IndexOK
<1>6. /\ chunk \in Chunks /\ chunk.size = LastChunk(sp).size
      /\ chunk.row_count = LastChunk(sp).row_count /\ chunk.data = LastChunk(sp).data
  BY <1>5, PrepareChunkParts
<1> HIDE DEF chunk
<1>7. ChunkSet(sp, chunk, st2)
  BY <1>5, <1>6, SetLastChunkSets
<1> HIDE DEF st2
<1>8. LastChunk(st2) = chunk
  BY <1>7 DEF ChunkSet
<1>9. RemainingSpace(LastChunk(st2)) = SpaceFor(st, n)
  BY <1>6, <1>8 DEF RemainingSpace, SpaceFor, sp
<1> QED BY <1>1, <1>2, <1>3, <1>4, <1>9

LEMMA PreparingStores ==
    ASSUME NEW st, StorageOK(st), NEW n \in Nat \ {0}
    PROVE  Stored(st, n, << >>, 0, Prepare(st, n))
<1>1. Kept(st, Prepare(st, n))
  BY PrepareKeeps
<1>2. st.row_count_ \in Nat
  BY StorageParts DEF StorageOK, IndexOK
<1>3. SpaceFor(st, n) \in Nat /\ RemainingSpace(LastChunk(Prepare(st, n))) = SpaceFor(st, n)
  BY PrepareSpace
<1> QED BY <1>1, <1>2, <1>3 DEF Kept, Stored

LEMMA FillingStores ==
    ASSUME NEW st, StorageOK(st), NEW n \in Nat \ {0}, NEW rows \in Seq(Cells),
           NEW full, full = WriteArea(Prepare(st, n), AreaOf(st, n), rows)
    PROVE  /\ Stored(st, n, rows, 0, full)
           /\ \A q \in 0 .. AreaOf(st, n).rows : Stored(st, n, rows, q, Commit(full, q))
<1> DEFINE pr == Prepare(st, n)
           area == AreaOf(st, n)
           space == SpaceFor(st, n)
<1>1. Kept(st, pr) /\ IsPrepared(pr, area) /\ StorageOK(pr)
  BY PrepareKeeps DEF Kept
<1>2. AreaWritten(pr, area, rows, full)
  BY <1>1, WriteKeeps
<1>3. space \in Nat \ {0} /\ RemainingSpace(LastChunk(pr)) = space
  BY PrepareSpace
<1> HIDE DEF pr, area, space
<1>4. Kept(pr, full) /\ Kept(st, full) /\ StorageOK(full) /\ st.row_count_ \in Nat
      /\ full.row_count_ = st.row_count_
  BY <1>1, <1>2, KeptIsTransitive, StorageParts DEF AreaWritten, Kept, StorageOK, IndexOK
<1> DEFINE before == LastChunk(pr).row_count
           size == LastChunk(pr).size
<1>5. /\ before \in Nat /\ size \in Nat /\ area.first = before + 1
      /\ area.rows \in Nat /\ area.first + area.rows - 1 <= size
  BY <1>1, LastChunkParts, ChunkParts DEF StorageOK, IndexOK, IsPrepared
<1>6. /\ LastChunk(full).row_count = before /\ LastChunk(full).size = size
      /\ \A i \in 1 .. size :
            LastChunk(full).data[i] =
                IF i >= area.first /\ i < area.first + Len(rows)
                THEN rows[i - area.first + 1] ELSE LastChunk(pr).data[i]
  BY <1>2 DEF AreaWritten
<1>7. size - before = space
  BY <1>3 DEF RemainingSpace
<1> HIDE DEF before, size
<1>8. ASSUME NEW q \in 0 .. area.rows
      PROVE  Stored(st, n, rows, q, Commit(full, q))
  <2>1. q \in Nat /\ before + q <= size
    BY <1>5
  <2>2. /\ StorageOK(Commit(full, q)) /\ Extends(full, Commit(full, q))
        /\ Commit(full, q).row_count_ = st.row_count_ + q
        /\ LastChunk(Commit(full, q)).row_count = before + q
        /\ LastChunk(Commit(full, q)).size = size
    BY <1>4, <1>6, <2>1, CommitCounts
  <2>3. Extends(st, Commit(full, q))
    BY <1>4, <2>2, ExtendsIsTransitive DEF Kept, StorageOK, IndexOK
  <2>4. ASSUME NEW i \in 1 .. q, i <= Len(rows)
        PROVE  GetValue(Commit(full, q), st.row_count_ + i) = rows[i]
    <3>1. GetValue(Commit(full, q), full.row_count_ + i)
            = LastChunk(full).data[LastChunk(full).row_count + i]
      BY <1>4, <1>6, <2>1, CommittedRowIsRead
    <3>2. Len(rows) \in Nat
      BY LenProperties
    <3>3. /\ before + i \in 1 .. size /\ before + i >= area.first
          /\ before + i < area.first + Len(rows) /\ (before + i) - area.first + 1 = i
      BY <1>5, <2>1, <2>4, <3>2
    <3> QED BY <1>4, <1>6, <3>1, <3>3
  <2>5. RemainingSpace(LastChunk(Commit(full, q))) = space - q
    BY <1>3, <1>5, <1>7, <2>1, <2>2 DEF RemainingSpace
  <2> QED BY <2>2, <2>3, <2>4, <2>5 DEF Stored, space
<1>9. Stored(st, n, rows, 0, full)
  <2>1. RemainingSpace(LastChunk(full)) = space - 0
    BY <1>3, <1>6, <1>7 DEF RemainingSpace
  <2> QED BY <1>4, <2>1 DEF Stored, Kept, space
<1> QED BY <1>8, <1>9 DEF area

=============================================================================
