---------------------- MODULE AsyncCompactResultSetProofs ----------------------
(***************************************************************************)
(* What AsyncCompactResultSet promises, proved for every number of threads *)
(* and rows, every size of chunk and every mix of fetches and reads.       *)
(***************************************************************************)
EXTENDS AsyncCompactResultSet, CompactRowStorageProofs

Phases == {"idle", "awaiting", "prepared", "filled", "counted", "looping", "resumable"}

SharedTypes ==
    /\ discipline \in Disciplines
    /\ total \in 0 .. MaxTotal /\ cursor \in 0 .. total
    /\ usable \in BOOLEAN /\ alive \in BOOLEAN /\ dangling \in BOOLEAN
    /\ buffer \in 0 .. Len(storage.chunk_index_)
    /\ call \in [Users -> Calls \cup {NoCall}]
    /\ phase \in [Users -> Phases]
    /\ area \in [Users -> [chunk : Nat, first : Nat, rows : Nat]]
    /\ view \in [Users -> Int]
    /\ reading \in [Users -> [row : Nat, buffer : Nat]]

(* One fetch at a time is on the strand, and those that wait for it wait   *)
(* once each, with a call to make.                                         *)
TasksInv ==
    /\ queue \in Seq(Users)
    /\ \A u, v \in Users : InTask(u) /\ InTask(v) => u = v
    /\ \A u \in Users : InTask(u) => call[u] \in Calls
    /\ \A i \in 1 .. Len(queue) : phase[queue[i]] = "awaiting" /\ call[queue[i]] \in Calls
    /\ \A i, j \in 1 .. Len(queue) : i # j => queue[i] # queue[j]

(* n rows are in the buffers of the last chunk, which counts none of them. *)
IsFilled(st, n) ==
    /\ LastChunk(st).row_count + n <= LastChunk(st).size
    /\ \A i \in 1 .. n : LastChunk(st).data[LastChunk(st).row_count + i] = st.row_count_ + i

(* n rows are counted by the last chunk, and by the storage not yet.       *)
IsCounted(st, n) ==
    /\ n <= LastChunk(st).row_count
    /\ (st.row_count_ + n) + 1
        = st.chunk_index_[Len(st.chunk_index_)].first_row + LastChunk(st).row_count
    /\ \A i \in 1 .. n : LastChunk(st).data[(LastChunk(st).row_count - n) + i] = st.row_count_ + i

(* What is stored is what the cursor has passed, but for the rows of the   *)
(* fetch that is between SQLFetchScroll and the end of its commit.         *)
FetchInv ==
    /\ IndexOK(storage) /\ RowsAreHeld(storage)
    /\ \A row \in 1 .. storage.row_count_ : GetValue(storage, row) = row
    /\ (\A u \in Users : phase[u] # "counted") => CountsAgree(storage)
    /\ (\A u \in Users : phase[u] \notin {"filled", "counted"}) => storage.row_count_ = cursor
    /\ \A u \in Users :
        /\ phase[u] = "prepared" => IsPrepared(storage, area[u])
        /\ phase[u] \in {"filled", "counted"} => storage.row_count_ + area[u].rows = cursor
        /\ phase[u] = "filled" => IsFilled(storage, area[u].rows)
        /\ phase[u] = "counted" => IsCounted(storage, area[u].rows)

(* Views, and reads of them, are of rows that are counted.                 *)
ReadersInv ==
    /\ \A u \in Users : view[u] \in {NoView} \cup (0 .. storage.row_count_)
    /\ \A u \in Users : reading[u] # NoRead => reading[u].row \in 1 .. storage.row_count_
    /\ answer \in {"none", "right", "raced"}

(* A private program's only coroutine reads between its fetches, and lets  *)
(* go of the result set between them.                                      *)
PrivateInv ==
    discipline = "private" =>
        /\ ~dangling /\ answer # "raced"
        /\ \A u \in Users \ {Owner} : phase[u] = "idle" /\ reading[u] = NoRead
        /\ ~alive => phase[Owner] \in {"idle", "resumable"}
        /\ reading[Owner] # NoRead =>
            phase[Owner] = "idle" /\ reading[Owner].buffer = buffer

SharedInv == SharedTypes /\ TasksInv /\ FetchInv /\ ReadersInv /\ PrivateInv
-----------------------------------------------------------------------------
(* The storage.                                                            *)

(* Rows that are counted stay what they are.                               *)
LEMMA CountedRowsAreKept ==
    ASSUME NEW st, NEW st2, IndexOK(st), RowsAreHeld(st), IndexOK(st2), Extends(st, st2)
    PROVE  /\ st.row_count_ \in Nat /\ st2.row_count_ \in Nat
           /\ st.row_count_ <= st2.row_count_
           /\ \A row \in 1 .. st.row_count_ : GetValue(st2, row) = GetValue(st, row)
<1>1. st.row_count_ \in Nat /\ st2.row_count_ \in Nat
  BY StorageParts DEF IndexOK
<1>2. st.row_count_ <= st2.row_count_
  BY <1>1 DEF Extends
<1>3. ASSUME NEW row \in 1 .. st.row_count_ PROVE GetValue(st2, row) = GetValue(st, row)
  <2>1. PICK k \in 1 .. Len(st.chunk_index_) : Holds(st, k, row)
    BY DEF RowsAreHeld
  <2>2. row \in Nat
    BY <1>1
  <2> QED BY <2>1, <2>2, ExtensionKeepsRows
<1> QED BY <1>1, <1>2, <1>3

(* A storage as a fetch in phase p leaves it, whose area is a, when the    *)
(* cursor has passed c rows.                                               *)
RowsAreNumbers(st) == \A row \in 1 .. st.row_count_ : GetValue(st, row) = row

FetchedTo(st, c, p, a) ==
    /\ IndexOK(st) /\ RowsAreHeld(st) /\ RowsAreNumbers(st)
    /\ p # "counted" => CountsAgree(st)
    /\ p \notin {"filled", "counted"} => st.row_count_ = c
    /\ p = "prepared" => IsPrepared(st, a)
    /\ p \in {"filled", "counted"} => st.row_count_ + a.rows = c
    /\ p = "filled" => IsFilled(st, a.rows)
    /\ p = "counted" => IsCounted(st, a.rows)

LEMMA KeptNumbers ==
    ASSUME NEW st, NEW st2, IndexOK(st), RowsAreHeld(st), IndexOK(st2), Extends(st, st2),
           RowsAreNumbers(st), st2.row_count_ = st.row_count_
    PROVE  RowsAreNumbers(st2)
BY CountedRowsAreKept DEF RowsAreNumbers

(* prepare() in a storage that is in agreement with the cursor.            *)
LEMMA PrepareFetches ==
    ASSUME NEW st, StorageOK(st), RowsAreNumbers(st), NEW n \in Nat \ {0}, NEW p, NEW a,
           (p = "prepared" /\ a = AreaOf(st, n)) \/ p = "resumable"
    PROVE  /\ FetchedTo(Prepare(st, n), st.row_count_, p, a)
           /\ Prepare(st, n).row_count_ = st.row_count_
           /\ Len(Prepare(st, n).chunk_index_) \in Nat /\ Len(st.chunk_index_) \in Nat
           /\ Len(Prepare(st, n).chunk_index_) >= Len(st.chunk_index_)
           /\ WithSpace(st, n) # st =>
                Len(Prepare(st, n).chunk_index_) = Len(st.chunk_index_) + 1
<1> DEFINE st2 == Prepare(st, n)
           sp == WithSpace(st, n)
<1>1. Kept(st, st2) /\ IsPrepared(st2, AreaOf(st, n))
  BY PrepareKeeps
<1>2. StorageOK(st2) /\ Extends(st, st2) /\ st2.row_count_ = st.row_count_
  BY <1>1 DEF Kept
<1>3. RowsAreNumbers(st2)
  BY <1>2, KeptNumbers DEF StorageOK
<1>4. FetchedTo(st2, st.row_count_, p, a)
  BY <1>1, <1>2, <1>3 DEF FetchedTo, StorageOK
<1>5. Len(st2.chunk_index_) \in Nat /\ Len(st.chunk_index_) \in Nat
  BY <1>2, StorageParts DEF StorageOK, IndexOK
<1>6. Len(st2.chunk_index_) >= Len(st.chunk_index_)
  BY <1>2 DEF Extends
<1>7. ASSUME sp # st PROVE Len(st2.chunk_index_) = Len(st.chunk_index_) + 1
  <2>1. sp = CreateChunk(st, n)
    BY <1>7 DEF WithSpace
  <2>2. ChunkAdded(st, n, sp)
    BY <2>1, CreateAddsChunk DEF StorageOK, IndexOK
  <2>3. StorageType(sp) /\ Len(sp.chunk_index_) = Len(st.chunk_index_) + 1
    BY <2>2 DEF ChunkAdded
  <2> DEFINE chunk == PrepareChunk(LastChunk(sp))
  <2>4. LastChunk(sp) \in Chunks
    BY <2>3, LastChunkParts
  <2>5. /\ chunk \in Chunks /\ chunk.size = LastChunk(sp).size
        /\ chunk.row_count >= LastChunk(sp).row_count /\ chunk.data = LastChunk(sp).data
    <3>1. LastChunk(sp).row_count \in Nat
      BY <2>4, ChunkParts
    <3>2. /\ chunk \in Chunks /\ chunk.size = LastChunk(sp).size
          /\ chunk.row_count = LastChunk(sp).row_count /\ chunk.data = LastChunk(sp).data
      BY <2>4, PrepareChunkParts
    <3> HIDE DEF chunk, sp
    <3> QED BY <3>1, <3>2
  <2> HIDE DEF chunk, sp
  <2>6. ChunkSet(sp, chunk, SetLastChunk(sp, chunk))
    BY <2>3, <2>5, SetLastChunkSets
  <2>7. st2 = SetLastChunk(sp, chunk)
    BY DEF Prepare, sp, chunk
  <2>8. st2.chunk_index_ = sp.chunk_index_
    BY <2>6, <2>7 DEF ChunkSet
  <2> QED BY <2>3, <2>8
<1> QED BY <1>2, <1>4, <1>5, <1>6, <1>7

(* How a fetch goes on when SQLFetchScroll has returned n rows.            *)
LeavesScroll(p, b, n) ==
    \/ p = "filled" /\ b.rows = n
    \/ p \in {"looping", "resumable"} /\ n = 0

(* SQLFetchScroll writes the next rows of the cursor at the front of the   *)
(* area.                                                                   *)
LEMMA ScrollFetches ==
    ASSUME NEW st, StorageOK(st), RowsAreNumbers(st), NEW a, IsPrepared(st, a),
           NEW rowset \in Seq(Cells), Len(rowset) <= a.rows,
           \A i \in 1 .. Len(rowset) : rowset[i] = st.row_count_ + i,
           NEW p, NEW b,
           LeavesScroll(p, b, Len(rowset))
    PROVE  /\ FetchedTo(WriteArea(st, a, rowset), st.row_count_ + Len(rowset), p, b)
           /\ WriteArea(st, a, rowset).row_count_ = st.row_count_
           /\ Len(WriteArea(st, a, rowset).chunk_index_) \in Nat
           /\ Len(WriteArea(st, a, rowset).chunk_index_) >= Len(st.chunk_index_)
<1> DEFINE st2 == WriteArea(st, a, rowset)
           n == Len(rowset)
           rows == LastChunk(st).row_count
<1>1. AreaWritten(st, a, rowset, st2)
  BY WriteKeeps
<1>2. /\ StorageOK(st2) /\ Extends(st, st2) /\ st2.row_count_ = st.row_count_
      /\ LastChunk(st2).row_count = rows /\ LastChunk(st2).size = LastChunk(st).size
      /\ \A i \in 1 .. LastChunk(st).size :
          LastChunk(st2).data[i] = IF i >= a.first /\ i < a.first + Len(rowset)
                                   THEN rowset[i - a.first + 1] ELSE LastChunk(st).data[i]
  BY <1>1 DEF AreaWritten, Kept
<1>3. /\ a.first = rows + 1 /\ a.first + a.rows - 1 <= LastChunk(st).size /\ a.rows \in Nat
      /\ n <= a.rows /\ n \in Nat /\ rows \in Nat /\ LastChunk(st).size \in Nat
      /\ st.row_count_ \in Nat
  <2>1. LastChunk(st) \in Chunks /\ st.row_count_ \in Nat
    BY LastChunkParts, StorageParts DEF StorageOK, IndexOK
  <2> QED BY <2>1, ChunkParts, LenProperties DEF IsPrepared
<1>4. RowsAreNumbers(st2)
  BY <1>2, KeptNumbers DEF StorageOK
<1> HIDE DEF st2
<1>5. IsFilled(st2, n)
  <2>1. rows + n <= LastChunk(st).size
    BY <1>3
  <2>2. ASSUME NEW i \in 1 .. n PROVE LastChunk(st2).data[rows + i] = st.row_count_ + i
    <3>1. /\ rows + i \in 1 .. LastChunk(st).size /\ rows + i >= a.first
          /\ rows + i < a.first + n /\ (rows + i) - a.first + 1 = i
      <4> DEFINE size == LastChunk(st).size
                 first == a.first
      <4>1. /\ first = rows + 1 /\ n \in Nat /\ rows \in Nat /\ size \in Nat
            /\ rows + n <= size /\ i \in 1 .. n
        BY <1>3, <2>1
      <4> HIDE DEF size, first, rows, n
      <4>2. /\ rows + i \in 1 .. size /\ rows + i >= first
            /\ rows + i < first + n /\ (rows + i) - first + 1 = i
        BY <4>1
      <4> QED BY <4>2 DEF size, first
    <3>2. LastChunk(st2).data[rows + i] = rowset[(rows + i) - a.first + 1]
      BY <1>2, <3>1
    <3> QED BY <3>1, <3>2
  <2> QED BY <1>2, <2>1, <2>2 DEF IsFilled
<1>6. FetchedTo(st2, st.row_count_ + n, p, b)
  <2>1. CASE p = "filled" /\ b.rows = n
    BY <1>2, <1>4, <1>5, <2>1 DEF FetchedTo, StorageOK
  <2>2. CASE p \in {"looping", "resumable"} /\ n = 0
    BY <1>2, <1>3, <1>4, <2>2 DEF FetchedTo, StorageOK
  <2> QED BY <2>1, <2>2 DEF LeavesScroll
<1>7. Len(st2.chunk_index_) \in Nat /\ Len(st2.chunk_index_) >= Len(st.chunk_index_)
  BY <1>2, StorageParts DEF StorageOK, IndexOK, Extends
<1> QED BY <1>2, <1>6, <1>7 DEF st2

(* The chunk counts the rows that were filled in; the storage does not.    *)
LEMMA ChunkCommitFetches ==
    ASSUME NEW st, StorageOK(st), RowsAreNumbers(st), NEW a, a.rows \in Nat, NEW c,
           IsFilled(st, a.rows), st.row_count_ + a.rows = c,
           NEW st2, st2 = SetLastChunk(st, CommitChunk(LastChunk(st), a.rows))
    PROVE  /\ FetchedTo(st2, c, "counted", a)
           /\ st2.row_count_ = st.row_count_ /\ st2.chunk_index_ = st.chunk_index_
<1> DEFINE n == a.rows
           rows == LastChunk(st).row_count
<1>1. /\ LastChunk(st) \in Chunks /\ rows \in Nat /\ st.row_count_ \in Nat
      /\ st.chunk_index_[Len(st.chunk_index_)].first_row \in Nat
  BY LastChunkParts, StorageParts, ChunkParts DEF StorageOK, IndexOK
<1>2. /\ rows + n <= LastChunk(st).size
      /\ \A i \in 1 .. n : LastChunk(st).data[rows + i] = st.row_count_ + i
  BY DEF IsFilled
<1>3. /\ IndexOK(st2) /\ RowsAreHeld(st2) /\ Extends(st, st2)
      /\ st2.row_count_ = st.row_count_ /\ st2.chunk_index_ = st.chunk_index_
      /\ LastChunk(st2) = CommitChunk(LastChunk(st), n)
  <2>1. n \in Nat
    OBVIOUS
  <2> HIDE DEF n
  <2>2. st2 = ChunkCommitted(st, n)
    BY DEF ChunkCommitted, n
  <2>3. LastChunk(st).row_count + n <= LastChunk(st).size
    BY <1>2
  <2> DEFINE committed == ChunkCommitted(st, n)
  <2>4. /\ IndexOK(committed) /\ RowsAreHeld(committed) /\ Extends(st, committed)
        /\ committed.row_count_ = st.row_count_ /\ committed.chunk_index_ = st.chunk_index_
        /\ LastChunk(committed) = CommitChunk(LastChunk(st), n)
    BY <2>1, <2>3, ChunkCommits
  <2> HIDE DEF committed
  <2>5. st2 = committed
    BY <2>2 DEF committed
  <2> QED BY <2>4, <2>5
<1>4. LastChunk(st2).row_count = rows + n /\ LastChunk(st2).data = LastChunk(st).data
  <2> DEFINE chunk == LastChunk(st)
  <2>1. n \in Nat /\ chunk \in Chunks /\ chunk.row_count + n <= chunk.size
    BY <1>1, <1>2
  <2> HIDE DEF chunk, n
  <2>2. /\ CommitChunk(chunk, n).row_count = chunk.row_count + n
        /\ CommitChunk(chunk, n).data = chunk.data
    BY <2>1, CommitChunkParts
  <2> QED BY <1>3, <2>2 DEF chunk
<1>5. RowsAreNumbers(st2)
  BY <1>3, KeptNumbers DEF StorageOK
<1>6. st.row_count_ + 1 = st.chunk_index_[Len(st.chunk_index_)].first_row + rows
  BY DEF StorageOK, CountsAgree
<1> HIDE DEF n, rows
<1>7. n \in Nat
  BY DEF n
<1>8. /\ n <= rows + n /\ (rows + n) - n = rows
      /\ (st.row_count_ + n) + 1
           = st.chunk_index_[Len(st.chunk_index_)].first_row + (rows + n)
  <2> DEFINE first == st.chunk_index_[Len(st.chunk_index_)].first_row
             count == st.row_count_
  <2>1. first \in Nat /\ count \in Nat /\ rows \in Nat /\ count + 1 = first + rows
    BY <1>1, <1>6 DEF rows
  <2> HIDE DEF first, count
  <2>2. n <= rows + n /\ (rows + n) - n = rows /\ (count + n) + 1 = first + (rows + n)
    BY <1>7, <2>1
  <2> QED BY <2>2 DEF first, count
<1>9. IsCounted(st2, n)
  BY <1>2, <1>3, <1>4, <1>8 DEF IsCounted
<1> QED BY <1>3, <1>5, <1>9 DEF FetchedTo, n

(* The storage counts the rows that its last chunk has counted.            *)
Recounted(st, n, st2) ==
    /\ StorageOK(st2) /\ Extends(st, st2) /\ st2.row_count_ = st.row_count_ + n
    /\ st2.chunk_store_ = st.chunk_store_ /\ st2.chunk_index_ = st.chunk_index_

LEMMA RecountedNumbers ==
    ASSUME NEW st, IndexOK(st), RowsAreHeld(st), RowsAreNumbers(st), NEW n \in Nat,
           IsCounted(st, n), NEW st2, Recounted(st, n, st2)
    PROVE  RowsAreNumbers(st2)
<1> DEFINE N == Len(st.chunk_index_)
           first == st.chunk_index_[N].first_row
           rows == LastChunk(st).row_count - n
           count == st.row_count_
           size == LastChunk(st).size
<1>1. /\ LastChunk(st) \in Chunks /\ LastChunk(st) = st.chunk_store_[N] /\ N \in Nat \ {0}
      /\ LastChunk(st).row_count \in Nat /\ LastChunk(st).row_count <= size /\ size \in Nat
      /\ count \in Nat /\ first \in Nat
  BY LastChunkParts, StorageParts, ChunkParts DEF IndexOK
<1>2. /\ n <= LastChunk(st).row_count
      /\ (count + n) + 1 = first + LastChunk(st).row_count
      /\ \A i \in 1 .. n : LastChunk(st).data[rows + i] = count + i
  BY DEF IsCounted
<1>3. /\ StorageOK(st2) /\ Extends(st, st2) /\ st2.row_count_ = count + n
      /\ st2.chunk_store_ = st.chunk_store_ /\ st2.chunk_index_ = st.chunk_index_
  BY DEF Recounted, count
<1>4. st.chunk_index_[N].length = size
  BY <1>1 DEF IndexOK, IndexDescribesChunks
<1> HIDE DEF N, first, rows, count, size
<1>5. rows \in Nat /\ rows + n = LastChunk(st).row_count
  BY <1>1, <1>2 DEF rows
<1>6. ASSUME NEW i \in 1 .. n PROVE GetValue(st2, count + i) = count + i
  <2>1. rows + n <= size /\ count + n + 1 = first + (rows + n)
    BY <1>1, <1>2, <1>5
  <2> DEFINE row == count + i
  <2>2. /\ row \in Nat /\ row >= first /\ row < first + size
        /\ (row - first) + 1 = rows + i /\ rows + i <= rows + n
    BY <1>1, <1>5, <2>1, NextRowIsInside
  <2>3. LastChunk(st).data[rows + i] = row
    BY <1>2
  <2> HIDE DEF row
  <2>4. N \in 1 .. Len(st2.chunk_index_)
    BY <1>1, <1>3 DEF N
  <2>5. Holds(st2, N, row)
    BY <1>1, <1>3, <1>4, <1>5, <2>2, <2>4 DEF Holds, Contains, first
  <2>6. first = st2.chunk_index_[N].first_row
    BY <1>3 DEF first
  <2>7. GetValue(st2, row) = st2.chunk_store_[N].data[(row - first) + 1]
    <3>1. IndexOK(st2) /\ row \in Nat
      BY <1>3, <2>2 DEF StorageOK
    <3> QED BY <2>5, <2>6, <3>1, HeldRowIsFound
  <2> QED BY <1>1, <1>3, <2>2, <2>3, <2>7 DEF row
<1>7. \A row \in 1 .. count : GetValue(st2, row) = row
  BY <1>3, CountedRowsAreKept DEF StorageOK, RowsAreNumbers, count
<1> SUFFICES ASSUME NEW row \in 1 .. count + n PROVE GetValue(st2, row) = row
  BY <1>3 DEF RowsAreNumbers
<1>8. CASE row \in 1 .. count
  BY <1>7, <1>8
<1>9. CASE row \notin 1 .. count
  <2>1. row - count \in 1 .. n /\ count + (row - count) = row
    BY <1>1, <1>9
  <2> QED BY <1>6, <2>1
<1> QED BY <1>8, <1>9

LEMMA StorageCommitFetches ==
    ASSUME NEW st, IndexOK(st), RowsAreHeld(st), RowsAreNumbers(st), NEW n \in Nat,
           IsCounted(st, n), NEW p \in {"looping", "resumable"}, NEW a,
           NEW st2, st2 = [st EXCEPT !.row_count_ = @ + n]
    PROVE  /\ FetchedTo(st2, st.row_count_ + n, p, a)
           /\ st2.row_count_ = st.row_count_ + n /\ st2.chunk_index_ = st.chunk_index_
<1>1. /\ n <= LastChunk(st).row_count
      /\ (st.row_count_ + n) + 1
            = st.chunk_index_[Len(st.chunk_index_)].first_row + LastChunk(st).row_count
  BY DEF IsCounted
<1>2. Recounted(st, n, st2)
  BY <1>1, StorageCounts DEF Recounted
<1>3. RowsAreNumbers(st2)
  BY <1>2, RecountedNumbers
<1> QED BY <1>2, <1>3 DEF Recounted, FetchedTo, StorageOK

-----------------------------------------------------------------------------
(* The strand.                                                             *)

Outside == {"idle", "awaiting", "resumable"}
Areas == [chunk : Nat, first : Nat, rows : Nat]

(* u's is the only task that runs; it goes on, or it is taken off the      *)
(* queue.                                                                  *)
TaskRuns(u) ==
    /\ \A v \in Users : v # u => ~InTask(v)
    /\ \/ InTask(u) /\ queue' = queue
       \/ StrandIsFree /\ queue # << >> /\ Head(queue) = u /\ queue' = Tail(queue)

LEMMA RunningTaskIsAlone ==
    ASSUME TasksInv, NEW u \in Users, InTask(u), queue' = queue
    PROVE  TaskRuns(u)
BY DEF TasksInv, TaskRuns

(* The call of the task that runs is known, and the rest of the queue goes *)
(* on waiting.                                                             *)
QueueMoved(u) ==
    /\ call[u] \in Calls
    /\ phase[u] \notin {"idle", "resumable"}
    /\ queue' \in Seq(Users)
    /\ \A i \in 1 .. Len(queue') :
        /\ queue'[i] \in Users /\ queue'[i] # u
        /\ phase[queue'[i]] = "awaiting" /\ call[queue'[i]] \in Calls
    /\ \A i, j \in 1 .. Len(queue') : i # j => queue'[i] # queue'[j]

LEMMA QueueMoves ==
    ASSUME TasksInv, NEW u \in Users, TaskRuns(u)
    PROVE  QueueMoved(u)
<1>1. CASE InTask(u) /\ queue' = queue
  <2>1. \A i \in 1 .. Len(queue) : queue[i] \in Users
    BY DEF TasksInv
  <2>2. phase[u] \notin {"awaiting", "idle", "resumable"} /\ call[u] \in Calls
    BY <1>1 DEF InTask, TasksInv
  <2> QED BY <1>1, <2>1, <2>2 DEF QueueMoved, TasksInv
<1>2. CASE StrandIsFree /\ queue # << >> /\ Head(queue) = u /\ queue' = Tail(queue)
  <2>1. queue \in Seq(Users) /\ Len(queue) \in Nat \ {0} /\ queue[1] = u
    BY <1>2 DEF TasksInv
  <2>2. /\ phase[u] = "awaiting" /\ call[u] \in Calls
    BY <2>1 DEF TasksInv
  <2>3. /\ queue' \in Seq(Users) /\ Len(queue') = Len(queue) - 1
        /\ \A i \in 1 .. Len(queue') : queue'[i] = queue[i + 1]
    BY <1>2, <2>1
  <2>4. ASSUME NEW i \in 1 .. Len(queue')
        PROVE  /\ queue'[i] \in Users /\ queue'[i] # u
               /\ phase[queue'[i]] = "awaiting" /\ call[queue'[i]] \in Calls
    <3>1. i + 1 \in 1 .. Len(queue) /\ i + 1 # 1 /\ 1 \in 1 .. Len(queue)
      BY <2>1, <2>3
    <3>2. queue'[i] = queue[i + 1]
      BY <2>3
    <3> QED BY <2>1, <3>1, <3>2 DEF TasksInv
  <2>5. ASSUME NEW i \in 1 .. Len(queue'), NEW j \in 1 .. Len(queue'), i # j
        PROVE  queue'[i] # queue'[j]
    <3>1. i + 1 \in 1 .. Len(queue) /\ j + 1 \in 1 .. Len(queue) /\ i + 1 # j + 1
      BY <2>1, <2>3, <2>5
    <3>2. queue'[i] = queue[i + 1] /\ queue'[j] = queue[j + 1]
      BY <2>3
    <3> QED BY <3>1, <3>2 DEF TasksInv
  <2> QED BY <2>2, <2>3, <2>4, <2>5 DEF QueueMoved
<1> QED BY <1>1, <1>2 DEF TaskRuns

(* The storage between two tasks, and in the one that runs.                *)
LEMMA StorageOfTask ==
    ASSUME SharedInv, NEW u \in Users, \A v \in Users : v # u => ~InTask(v)
    PROVE  FetchedTo(storage, cursor, phase[u], area[u])
<1>1. \A v \in Users : v # u => phase[v] \notin {"filled", "counted"}
  BY DEF InTask
<1>2. phase[u] # "counted" => \A v \in Users : phase[v] # "counted"
  BY <1>1
<1>3. phase[u] \notin {"filled", "counted"} =>
        \A v \in Users : phase[v] \notin {"filled", "counted"}
  BY <1>1
<1> QED BY <1>2, <1>3 DEF SharedInv, FetchInv, FetchedTo, RowsAreNumbers

(* The storage when u's task starts to prepare: nothing is half done.      *)
LEMMA StorageBetweenFetches ==
    ASSUME SharedInv, NEW u \in Users, TaskRuns(u), InTask(u) => phase[u] = "looping"
    PROVE  StorageOK(storage) /\ RowsAreNumbers(storage) /\ storage.row_count_ = cursor
<1>1. FetchedTo(storage, cursor, phase[u], area[u])
  BY StorageOfTask DEF TaskRuns
<1>2. phase[u] \notin {"filled", "counted"}
  BY DEF InTask
<1> QED BY <1>1, <1>2 DEF FetchedTo, StorageOK

-----------------------------------------------------------------------------
(* A step of a task.                                                       *)

(* What every step of a task does to the state, p and a being the phase    *)
(* and the area it leaves its coroutine with.                              *)
TaskMoves(u, p, a) ==
    /\ TaskRuns(u)
    /\ Phase(u, p) /\ area' = [area EXCEPT ![u] = a]
    /\ UsesThis
    /\ UNCHANGED <<world, usable, alive, call, viewVars>>

StorageMoves(p, a) ==
    /\ FetchedTo(storage', cursor', p, a)
    /\ storage.row_count_ \in Nat /\ storage'.row_count_ \in Nat
    /\ storage.row_count_ <= storage'.row_count_
    /\ cursor' \in 0 .. total
    /\ buffer' \in 0 .. Len(storage'.chunk_index_)

LEMMA TaskKeepsTypes ==
    ASSUME SharedInv, NEW u \in Users, NEW p \in Phases, NEW a \in Areas,
           TaskMoves(u, p, a), StorageMoves(p, a)
    PROVE  SharedTypes'
<1>1. phase' \in [Users -> Phases] /\ area' \in [Users -> Areas]
  BY DEF SharedInv, SharedTypes, TaskMoves, Phase, Areas
<1>2. dangling' \in BOOLEAN
  BY DEF SharedInv, SharedTypes, TaskMoves, UsesThis
<1> QED BY <1>1, <1>2 DEF SharedInv, SharedTypes, TaskMoves, StorageMoves, Areas, world, viewVars

LEMMA TaskKeepsTasks ==
    ASSUME SharedInv, NEW u \in Users, NEW p \in Phases, NEW a \in Areas,
           TaskMoves(u, p, a)
    PROVE  TasksInv'
<1>1. QueueMoved(u)
  BY QueueMoves DEF SharedInv, TaskMoves
<1>2. /\ phase' = [phase EXCEPT ![u] = p] /\ phase \in [Users -> Phases] /\ call' = call
      /\ \A v \in Users : v # u => ~InTask(v)
  BY DEF SharedInv, SharedTypes, TaskMoves, TaskRuns, Phase
<1>3. \A v \in Users : v # u => phase'[v] = phase[v]
  BY <1>2
<1>4. \A v \in Users : InTask(v)' => v = u
  BY <1>2, <1>3 DEF InTask
<1>5. \A v \in Users : InTask(v)' => call'[v] \in Calls
  BY <1>1, <1>2, <1>4 DEF QueueMoved
<1>6. \A i \in 1 .. Len(queue') : phase'[queue'[i]] = "awaiting" /\ call'[queue'[i]] \in Calls
  BY <1>1, <1>2, <1>3 DEF QueueMoved
<1>7. \A v, w \in Users : InTask(v)' /\ InTask(w)' => v = w
  BY <1>4
<1> QED BY <1>1, <1>5, <1>6, <1>7 DEF TasksInv, QueueMoved

LEMMA TaskKeepsFetch ==
    ASSUME SharedInv, NEW u \in Users, NEW p \in Phases, NEW a \in Areas,
           TaskMoves(u, p, a), StorageMoves(p, a)
    PROVE  FetchInv'
<1>1. /\ phase' = [phase EXCEPT ![u] = p] /\ phase \in [Users -> Phases]
      /\ area' = [area EXCEPT ![u] = a] /\ area \in [Users -> Areas]
      /\ \A v \in Users : v # u => ~InTask(v)
  BY DEF SharedInv, SharedTypes, TaskMoves, TaskRuns, Phase, Areas
<1>2. phase'[u] = p /\ area'[u] = a
  BY <1>1
<1>3. \A v \in Users : v # u => phase'[v] \notin {"prepared", "filled", "counted"}
  BY <1>1 DEF InTask
<1>4. FetchedTo(storage', cursor', p, a)
  BY DEF StorageMoves
<1>5. /\ IndexOK(storage') /\ RowsAreHeld(storage')
      /\ \A row \in 1 .. storage'.row_count_ : GetValue(storage', row) = row
  BY <1>4 DEF FetchedTo, RowsAreNumbers
<1>6. (\A v \in Users : phase'[v] # "counted") => CountsAgree(storage')
  BY <1>2, <1>4 DEF FetchedTo
<1>7. (\A v \in Users : phase'[v] \notin {"filled", "counted"}) => storage'.row_count_ = cursor'
  BY <1>2, <1>4 DEF FetchedTo
<1>8. ASSUME NEW v \in Users
      PROVE  /\ phase'[v] = "prepared" => IsPrepared(storage', area'[v])
             /\ phase'[v] \in {"filled", "counted"} => storage'.row_count_ + area'[v].rows = cursor'
             /\ phase'[v] = "filled" => IsFilled(storage', area'[v].rows)
             /\ phase'[v] = "counted" => IsCounted(storage', area'[v].rows)
  <2>1. CASE v = u
    BY <1>2, <1>4, <2>1 DEF FetchedTo
  <2>2. CASE v # u
    BY <1>3, <2>2
  <2> QED BY <2>1, <2>2
<1> QED BY <1>5, <1>6, <1>7, <1>8 DEF FetchInv

LEMMA TaskKeepsReaders ==
    ASSUME SharedInv, NEW u \in Users, NEW p, NEW a,
           TaskMoves(u, p, a), StorageMoves(p, a)
    PROVE  ReadersInv'
<1>1. /\ view' = view /\ reading' = reading /\ answer' = answer
      /\ storage.row_count_ \in Nat /\ storage'.row_count_ \in Nat
      /\ storage.row_count_ <= storage'.row_count_
  BY DEF TaskMoves, StorageMoves, viewVars
<1>2. 0 .. storage.row_count_ \subseteq 0 .. storage'.row_count_
      /\ 1 .. storage.row_count_ \subseteq 1 .. storage'.row_count_
  BY <1>1
<1> QED BY <1>1, <1>2 DEF SharedInv, ReadersInv

(* In a private program the task is Owner's, who awaits it: no read goes   *)
(* on, and the result set is there.                                        *)
LEMMA TaskKeepsPrivate ==
    ASSUME SharedInv, NEW u \in Users, NEW p, NEW a, TaskMoves(u, p, a)
    PROVE  PrivateInv'
<1>1. SUFFICES ASSUME discipline = "private" PROVE PrivateInv'
  BY DEF TaskMoves, world, PrivateInv
<1>2. phase[u] \notin {"idle", "resumable"}
  BY QueueMoves DEF SharedInv, TaskMoves, QueueMoved
<1>3. u = Owner /\ alive
  BY <1>1, <1>2 DEF SharedInv, PrivateInv
<1>4. reading[Owner] = NoRead /\ reading' = reading
  BY <1>1, <1>2, <1>3 DEF SharedInv, PrivateInv, TaskMoves, viewVars
<1>5. alive' = alive /\ dangling' = dangling /\ answer' = answer
  BY <1>3 DEF TaskMoves, UsesThis, SharedInv, SharedTypes, viewVars
<1>6. \A v \in Users \ {Owner} : phase'[v] = phase[v]
  BY <1>3 DEF TaskMoves, Phase, SharedInv, SharedTypes
<1> QED BY <1>1, <1>3, <1>4, <1>5, <1>6 DEF SharedInv, PrivateInv

LEMMA TaskKeeps ==
    ASSUME SharedInv, NEW u \in Users, NEW p \in Phases, NEW a \in Areas,
           TaskMoves(u, p, a), StorageMoves(p, a)
    PROVE  SharedInv'
BY TaskKeepsTypes, TaskKeepsTasks, TaskKeepsFetch, TaskKeepsReaders, TaskKeepsPrivate
   DEF SharedInv

-----------------------------------------------------------------------------
(* The steps of a task.                                                    *)

LEMMA SharedBounds ==
    SharedInv => /\ cursor \in Nat /\ total \in Nat /\ cursor <= total /\ total <= MaxTotal
                 /\ MaxTotal \in Nat
BY SharedCursorRows DEF SharedInv, SharedTypes

LEMMA PreparingKeeps ==
    ASSUME SharedInv, NEW u \in Users, TaskRuns(u), InTask(u) => phase[u] = "looping",
           FetchPrepares(u)
    PROVE  SharedInv'
<1> DEFINE n == call[u].quantity
           p == IF usable THEN "prepared" ELSE "resumable"
           a == IF usable THEN AreaOf(storage, n) ELSE NoArea
<1>1. StorageOK(storage) /\ RowsAreNumbers(storage) /\ storage.row_count_ = cursor
  BY StorageBetweenFetches
<1>2. n \in Nat \ {0}
  <2>1. call[u] \in Calls
    BY QueueMoves DEF SharedInv, QueueMoved
  <2> QED BY <2>1, SharedQuantities DEF Calls
<1>3. /\ storage' = Prepare(storage, n) /\ cursor' = cursor
      /\ Phase(u, p) /\ area' = [area EXCEPT ![u] = a]
      /\ buffer' = IF WithSpace(storage, n) # storage /\ Moves(storage) THEN buffer + 1 ELSE buffer
  BY DEF FetchPrepares
<1>4. IsPrepared(Prepare(storage, n), AreaOf(storage, n))
  <2> HIDE DEF n
  <2> QED BY <1>1, <1>2, PrepareKeeps
<1>5. a \in Areas /\ p \in Phases
  BY <1>4 DEF IsPrepared, Areas, NoArea, Phases
<1>6. (p = "prepared" /\ a = AreaOf(storage, n)) \/ p = "resumable"
  OBVIOUS
<1> HIDE DEF n, p, a
<1>7. /\ FetchedTo(storage', storage.row_count_, p, a)
      /\ storage'.row_count_ = storage.row_count_
      /\ Len(storage'.chunk_index_) \in Nat /\ Len(storage.chunk_index_) \in Nat
      /\ Len(storage'.chunk_index_) >= Len(storage.chunk_index_)
      /\ WithSpace(storage, n) # storage =>
            Len(storage'.chunk_index_) = Len(storage.chunk_index_) + 1
  BY <1>1, <1>2, <1>3, <1>6, PrepareFetches
<1>8. buffer \in 0 .. Len(storage.chunk_index_)
  BY DEF SharedInv, SharedTypes
<1>9. buffer' \in 0 .. Len(storage'.chunk_index_)
  BY <1>3, <1>7, <1>8
<1>10. StorageMoves(p, a)
  BY <1>1, <1>3, <1>7, <1>9, SharedBounds DEF StorageMoves
<1>11. TaskMoves(u, p, a)
  BY <1>3 DEF FetchPrepares, TaskMoves
<1> QED BY <1>5, <1>10, <1>11, TaskKeeps

LEMMA StartTaskKeeps == ASSUME SharedInv, NEW u \in Users, StartTask(u) PROVE SharedInv'
<1>1. StrandIsFree /\ TaskRuns(u) /\ ~InTask(u) /\ FetchPrepares(u)
  BY DEF StartTask, TaskMayStart, StrandIsFree, TaskRuns
<1> QED BY <1>1, PreparingKeeps

LEMMA LoopAgainKeeps == ASSUME SharedInv, NEW u \in Users, LoopAgain(u) PROVE SharedInv'
<1>1. InTask(u) /\ phase[u] = "looping" /\ queue' = queue /\ FetchPrepares(u)
  BY DEF LoopAgain, InTask
<1>2. TaskRuns(u)
  BY <1>1, RunningTaskIsAlone DEF SharedInv
<1> QED BY <1>1, <1>2, PreparingKeeps

(* The rows the driver has for an area: the next of the cursor.            *)
RowsetOf(n, rowset) ==
    /\ rowset \in Seq(Cells)
    /\ Len(rowset) \in Nat /\ Len(rowset) <= n /\ cursor + Len(rowset) <= total
    /\ \A i \in 1 .. Len(rowset) : rowset[i] = cursor + i
    /\ rowset = << >> <=> Len(rowset) = 0

LEMMA NextRows ==
    ASSUME SharedInv, NEW n \in Nat
    PROVE  RowsetOf(n, Rowset(n))
<1> DEFINE left == total - cursor
           r == IF left < n THEN left ELSE n
<1>1. left \in Nat /\ r \in Nat /\ r <= n /\ cursor + r <= total /\ cursor \in Nat
  BY SharedBounds
<1>2. Rowset(n) = [i \in 1 .. r |-> cursor + i]
  BY DEF Rowset
<1> HIDE DEF r, left
<1>3. ASSUME NEW i \in 1 .. r PROVE cursor + i \in Cells
  <2>1. cursor + i \in 1 .. MaxTotal
    BY <1>1, SharedBounds
  <2> QED BY <2>1, SharedCursorRows DEF Cells
<1>4. Rowset(n) \in Seq(Cells) /\ Len(Rowset(n)) = r
  BY <1>1, <1>2, <1>3
<1>5. \A i \in 1 .. r : Rowset(n)[i] = cursor + i
  BY <1>2
<1>6. Rowset(n) = << >> <=> r = 0
  BY <1>4, EmptySeq
<1> QED BY <1>1, <1>4, <1>5, <1>6 DEF RowsetOf

LEMMA ScrollingKeeps == ASSUME SharedInv, NEW u \in Users, FetchScrolls(u) PROVE SharedInv'
<1> DEFINE rowset == Rowset(area[u].rows)
           p == IF rowset = << >> THEN IF LoopGoesOn(u, 0) THEN "looping" ELSE "resumable"
                ELSE "filled"
           a == IF rowset = << >> THEN NoArea ELSE [area[u] EXCEPT !.rows = Len(rowset)]
<1>1. InTask(u) /\ phase[u] = "prepared" /\ TaskRuns(u)
  <2>1. InTask(u) /\ phase[u] = "prepared" /\ queue' = queue
    BY DEF FetchScrolls, InTask
  <2> QED BY <2>1, RunningTaskIsAlone DEF SharedInv
<1>2. /\ StorageOK(storage) /\ RowsAreNumbers(storage) /\ storage.row_count_ = cursor
      /\ IsPrepared(storage, area[u])
  <2>1. FetchedTo(storage, cursor, phase[u], area[u])
    BY <1>1, StorageOfTask DEF TaskRuns
  <2> QED BY <1>1, <2>1 DEF FetchedTo, StorageOK
<1>3. area[u] \in Areas /\ area[u].rows \in Nat
  BY DEF SharedInv, SharedTypes, Areas
<1>4. RowsetOf(area[u].rows, rowset)
  BY <1>3, NextRows
<1>5. /\ storage' = WriteArea(storage, area[u], rowset) /\ cursor' = cursor + Len(rowset)
      /\ Phase(u, p) /\ area' = [area EXCEPT ![u] = a] /\ buffer' = buffer
  <2>1. area' = [area EXCEPT ![u] = a]
    BY DEF FetchScrolls
  <2>2. Phase(u, p)
    BY DEF FetchScrolls, FetchReturns
  <2> QED BY <2>1, <2>2 DEF FetchScrolls
<1>6. a \in Areas /\ p \in Phases
  <2>1. Len(rowset) \in Nat
    BY <1>4 DEF RowsetOf
  <2> HIDE DEF rowset
  <2> QED BY <1>3, <2>1 DEF Areas, NoArea, Phases
<1>7. LeavesScroll(p, a, Len(rowset))
  <2>1. area[u] \in Areas /\ (rowset = << >> <=> Len(rowset) = 0)
    BY <1>3, <1>4 DEF RowsetOf
  <2> HIDE DEF rowset
  <2>2. [area[u] EXCEPT !.rows = Len(rowset)].rows = Len(rowset)
    BY <2>1 DEF Areas
  <2> QED BY <2>1, <2>2 DEF LeavesScroll
<1> HIDE DEF rowset, p, a
<1>8. /\ FetchedTo(storage', storage.row_count_ + Len(rowset), p, a)
      /\ storage'.row_count_ = storage.row_count_
      /\ Len(storage'.chunk_index_) \in Nat
      /\ Len(storage'.chunk_index_) >= Len(storage.chunk_index_)
  <2>1. /\ rowset \in Seq(Cells) /\ Len(rowset) <= area[u].rows
        /\ \A i \in 1 .. Len(rowset) : rowset[i] = storage.row_count_ + i
    BY <1>2, <1>4 DEF RowsetOf
  <2> QED BY <1>2, <1>5, <1>7, <2>1, ScrollFetches
<1>9. buffer' \in 0 .. Len(storage'.chunk_index_)
  <2>1. buffer \in 0 .. Len(storage.chunk_index_) /\ Len(storage.chunk_index_) \in Nat
    BY <1>2, StorageParts DEF SharedInv, SharedTypes, StorageOK, IndexOK
  <2> QED BY <1>5, <1>8, <2>1
<1>10. cursor' \in 0 .. total
  BY <1>4, <1>5, SharedBounds DEF RowsetOf
<1>11. StorageMoves(p, a)
  BY <1>2, <1>5, <1>8, <1>9, <1>10, SharedBounds DEF StorageMoves
<1>12. TaskMoves(u, p, a)
  BY <1>1, <1>5 DEF FetchScrolls, TaskMoves
<1> QED BY <1>6, <1>11, <1>12, TaskKeeps

LEMMA ChunkCommitKeeps == ASSUME SharedInv, NEW u \in Users, CommitsChunk(u) PROVE SharedInv'
<1>1. InTask(u) /\ phase[u] = "filled" /\ TaskRuns(u)
  <2>1. InTask(u) /\ phase[u] = "filled" /\ queue' = queue
    BY DEF CommitsChunk, InTask
  <2> QED BY <2>1, RunningTaskIsAlone DEF SharedInv
<1>2. /\ StorageOK(storage) /\ RowsAreNumbers(storage)
      /\ storage.row_count_ + area[u].rows = cursor /\ IsFilled(storage, area[u].rows)
  <2>1. FetchedTo(storage, cursor, phase[u], area[u])
    BY <1>1, StorageOfTask DEF TaskRuns
  <2> QED BY <1>1, <2>1 DEF FetchedTo, StorageOK
<1>3. area \in [Users -> Areas] /\ area[u] \in Areas /\ area[u].rows \in Nat
  BY DEF SharedInv, SharedTypes, Areas
<1>4. /\ storage' = SetLastChunk(storage, CommitChunk(LastChunk(storage), area[u].rows))
      /\ cursor' = cursor /\ buffer' = buffer
      /\ Phase(u, "counted") /\ area' = [area EXCEPT ![u] = area[u]]
  BY <1>3 DEF CommitsChunk
<1>5. /\ FetchedTo(storage', cursor, "counted", area[u])
      /\ storage'.row_count_ = storage.row_count_
      /\ storage'.chunk_index_ = storage.chunk_index_
  BY <1>2, <1>3, <1>4, ChunkCommitFetches
<1>6. storage.row_count_ \in Nat
  BY <1>2, StorageParts DEF StorageOK, IndexOK
<1>7. StorageMoves("counted", area[u])
  BY <1>4, <1>5, <1>6, SharedBounds DEF StorageMoves, SharedInv, SharedTypes
<1>8. TaskMoves(u, "counted", area[u])
  BY <1>1, <1>4 DEF CommitsChunk, TaskMoves
<1>9. "counted" \in Phases
  BY DEF Phases
<1> QED BY <1>3, <1>7, <1>8, <1>9, TaskKeeps

LEMMA StorageCommitKeeps == ASSUME SharedInv, NEW u \in Users, CommitsStorage(u) PROVE SharedInv'
<1> DEFINE n == area[u].rows
           p == IF LoopGoesOn(u, n) THEN "looping" ELSE "resumable"
<1>1. InTask(u) /\ phase[u] = "counted" /\ TaskRuns(u)
  <2>1. InTask(u) /\ phase[u] = "counted" /\ queue' = queue
    BY DEF CommitsStorage, InTask
  <2> QED BY <2>1, RunningTaskIsAlone DEF SharedInv
<1>2. /\ IndexOK(storage) /\ RowsAreHeld(storage) /\ RowsAreNumbers(storage)
      /\ storage.row_count_ + n = cursor /\ IsCounted(storage, n)
  <2>1. FetchedTo(storage, cursor, phase[u], area[u])
    BY <1>1, StorageOfTask DEF TaskRuns
  <2> QED BY <1>1, <2>1 DEF FetchedTo
<1>3. n \in Nat /\ NoArea \in Areas /\ p \in {"looping", "resumable"} /\ p \in Phases
  BY DEF SharedInv, SharedTypes, Areas, NoArea, Phases
<1>4. /\ storage' = [storage EXCEPT !.row_count_ = @ + n] /\ cursor' = cursor /\ buffer' = buffer
      /\ Phase(u, p) /\ area' = [area EXCEPT ![u] = NoArea]
  BY DEF CommitsStorage, FetchReturns
<1> HIDE DEF n, p
<1>5. /\ FetchedTo(storage', storage.row_count_ + n, p, NoArea)
      /\ storage'.row_count_ = storage.row_count_ + n
      /\ storage'.chunk_index_ = storage.chunk_index_
  BY <1>2, <1>3, <1>4, StorageCommitFetches
<1>6. storage.row_count_ \in Nat
  BY <1>2, StorageParts DEF IndexOK
<1>7. StorageMoves(p, NoArea)
  <2>1. buffer' \in 0 .. Len(storage'.chunk_index_) /\ cursor' \in 0 .. total
    BY <1>4, <1>5 DEF SharedInv, SharedTypes
  <2>2. storage'.row_count_ \in Nat /\ storage.row_count_ <= storage'.row_count_
    BY <1>3, <1>5, <1>6
  <2> QED BY <1>2, <1>4, <1>5, <1>6, <2>1, <2>2 DEF StorageMoves
<1>8. TaskMoves(u, p, NoArea)
  BY <1>1, <1>4 DEF CommitsStorage, TaskMoves
<1> QED BY <1>3, <1>7, <1>8, TaskKeeps

-----------------------------------------------------------------------------
(* The steps of the coroutines.                                            *)

(* A coroutine that starts or ends to wait for a fetch leaves the fetches  *)
(* as they are.                                                            *)
StaysOutside ==
    /\ UNCHANGED <<storage, cursor, area>>
    /\ \A v \in Users :
        \/ phase'[v] = phase[v]
        \/ phase[v] \in Outside /\ phase'[v] \in Outside

LEMMA FetchStays == ASSUME FetchInv, StaysOutside PROVE FetchInv'
<1>1. /\ storage' = storage /\ cursor' = cursor /\ area' = area
      /\ \A v \in Users : phase'[v] = "prepared" <=> phase[v] = "prepared"
      /\ \A v \in Users : phase'[v] = "filled" <=> phase[v] = "filled"
      /\ \A v \in Users : phase'[v] = "counted" <=> phase[v] = "counted"
  BY DEF StaysOutside, Outside
<1>2. IndexOK(storage)' /\ RowsAreHeld(storage)'
      /\ (\A row \in 1 .. storage.row_count_ : GetValue(storage, row) = row)'
  BY <1>1 DEF FetchInv
<1>3. ((\A u \in Users : phase[u] # "counted") => CountsAgree(storage))'
  BY <1>1 DEF FetchInv
<1>4. ((\A u \in Users : phase[u] \notin {"filled", "counted"}) => storage.row_count_ = cursor)'
  BY <1>1 DEF FetchInv
<1>5. ASSUME NEW u \in Users
      PROVE  /\ phase'[u] = "prepared" => IsPrepared(storage', area'[u])
             /\ phase'[u] \in {"filled", "counted"} => storage'.row_count_ + area'[u].rows = cursor'
             /\ phase'[u] = "filled" => IsFilled(storage', area'[u].rows)
             /\ phase'[u] = "counted" => IsCounted(storage', area'[u].rows)
  BY <1>1 DEF FetchInv
<1> QED BY <1>2, <1>3, <1>4, <1>5 DEF FetchInv

LEMMA CallKeeps ==
    ASSUME SharedInv, NEW u \in Users, NEW c \in Calls, Fetch(u, c)
    PROVE  SharedInv'
<1>1. /\ phase \in [Users -> Phases] /\ call \in [Users -> Calls \cup {NoCall}]
      /\ phase' = [phase EXCEPT ![u] = "awaiting"] /\ call' = [call EXCEPT ![u] = c]
      /\ queue' = Append(queue, u) /\ phase[u] = "idle" /\ alive
      /\ reading[u] = NoRead /\ (discipline = "shared" \/ u = Owner)
  BY DEF SharedInv, SharedTypes, Fetch, Awaits, Phase, Acts
<1>2. /\ phase' \in [Users -> Phases] /\ call' \in [Users -> Calls \cup {NoCall}]
      /\ phase'[u] = "awaiting" /\ call'[u] = c
      /\ \A v \in Users : v # u => phase'[v] = phase[v] /\ call'[v] = call[v]
  BY <1>1 DEF Phases
<1>3. SharedTypes'
  BY <1>2 DEF SharedInv, SharedTypes, Fetch, world, viewVars
<1>4. FetchInv'
  <2>1. StaysOutside
    BY <1>1, <1>2 DEF Fetch, StaysOutside, Outside
  <2> QED BY <2>1, FetchStays DEF SharedInv
<1>5. TasksInv'
  <2>1. /\ queue \in Seq(Users) /\ Len(queue) \in Nat
        /\ \A i \in 1 .. Len(queue) : queue[i] \in Users /\ queue[i] # u
    <3>1. queue \in Seq(Users)
      BY DEF SharedInv, TasksInv
    <3>2. \A i \in 1 .. Len(queue) : queue[i] # u
      BY <1>1 DEF SharedInv, TasksInv
    <3> QED BY <3>1, <3>2
  <2>2. /\ queue' \in Seq(Users) /\ Len(queue') = Len(queue) + 1
        /\ queue'[Len(queue) + 1] = u
        /\ \A i \in 1 .. Len(queue) : queue'[i] = queue[i]
    BY <1>1, <2>1
  <2>3. \A v \in Users : InTask(v)' <=> InTask(v) /\ v # u
    BY <1>1, <1>2 DEF InTask
  <2>4. \A v \in Users : InTask(v)' => call'[v] \in Calls
    BY <1>2, <2>3 DEF SharedInv, TasksInv
  <2>5. ASSUME NEW i \in 1 .. Len(queue')
        PROVE  phase'[queue'[i]] = "awaiting" /\ call'[queue'[i]] \in Calls
    <3>1. CASE i = Len(queue) + 1
      BY <1>2, <2>2, <3>1
    <3>2. CASE i # Len(queue) + 1
      <4>1. i \in 1 .. Len(queue) /\ queue'[i] = queue[i]
        BY <2>1, <2>2, <3>2
      <4>2. phase[queue[i]] = "awaiting" /\ call[queue[i]] \in Calls
        BY <4>1 DEF SharedInv, TasksInv
      <4> QED BY <1>2, <2>1, <4>1, <4>2
    <3> QED BY <3>1, <3>2
  <2>6. ASSUME NEW i \in 1 .. Len(queue'), NEW j \in 1 .. Len(queue'), i # j
        PROVE  queue'[i] # queue'[j]
    <3>1. CASE i \in 1 .. Len(queue) /\ j \in 1 .. Len(queue)
      BY <2>2, <2>6, <3>1 DEF SharedInv, TasksInv
    <3>2. CASE i = Len(queue) + 1
      <4>1. j \in 1 .. Len(queue)
        BY <2>1, <2>2, <2>6, <3>2
      <4> QED BY <2>1, <2>2, <3>2, <4>1
    <3>3. CASE j = Len(queue) + 1
      <4>1. i \in 1 .. Len(queue)
        BY <2>1, <2>2, <2>6, <3>3
      <4> QED BY <2>1, <2>2, <3>3, <4>1
    <3> QED BY <2>1, <2>2, <3>1, <3>2, <3>3
  <2>7. \A v, w \in Users : InTask(v)' /\ InTask(w)' => v = w
    BY <2>3 DEF SharedInv, TasksInv
  <2> QED BY <2>2, <2>4, <2>5, <2>6, <2>7 DEF TasksInv
<1>6. ReadersInv'
  BY DEF SharedInv, ReadersInv, Fetch, viewVars
<1>7. PrivateInv'
  <2>1. SUFFICES ASSUME discipline = "private" PROVE PrivateInv'
    BY DEF Fetch, world, PrivateInv
  <2>2. u = Owner /\ reading[Owner] = NoRead
    BY <1>1, <2>1
  <2> QED BY <1>1, <1>2, <2>1, <2>2 DEF SharedInv, PrivateInv, Fetch, viewVars, world
<1> QED BY <1>3, <1>4, <1>5, <1>6, <1>7 DEF SharedInv

LEMMA ResumeKeeps == ASSUME SharedInv, NEW u \in Users, Resume(u) PROVE SharedInv'
<1>1. /\ phase \in [Users -> Phases] /\ call \in [Users -> Calls \cup {NoCall}]
      /\ phase' = [phase EXCEPT ![u] = "idle"] /\ call' = [call EXCEPT ![u] = NoCall]
      /\ queue' = queue /\ phase[u] = "resumable"
  BY DEF SharedInv, SharedTypes, Resume, Phase, fetchVars
<1>2. /\ phase' \in [Users -> Phases] /\ call' \in [Users -> Calls \cup {NoCall}]
      /\ phase'[u] = "idle"
      /\ \A v \in Users : v # u => phase'[v] = phase[v] /\ call'[v] = call[v]
  BY <1>1 DEF Phases
<1>3. SharedTypes'
  BY <1>2 DEF SharedInv, SharedTypes, Resume, world, fetchVars, viewVars
<1>4. FetchInv'
  <2>1. StaysOutside
    BY <1>1, <1>2 DEF Resume, fetchVars, StaysOutside, Outside
  <2> QED BY <2>1, FetchStays DEF SharedInv
<1>5. TasksInv'
  <2>1. \A i \in 1 .. Len(queue) : queue[i] \in Users /\ queue[i] # u
    <3>1. queue \in Seq(Users)
      BY DEF SharedInv, TasksInv
    <3>2. \A i \in 1 .. Len(queue) : queue[i] # u
      BY <1>1 DEF SharedInv, TasksInv
    <3> QED BY <3>1, <3>2
  <2>2. \A v \in Users : InTask(v)' => InTask(v) /\ v # u
    BY <1>2 DEF InTask
  <2>3. \A v \in Users : InTask(v)' => call'[v] \in Calls
    BY <1>2, <2>2 DEF SharedInv, TasksInv
  <2>4. \A i \in 1 .. Len(queue') : phase'[queue'[i]] = "awaiting" /\ call'[queue'[i]] \in Calls
    BY <1>1, <1>2, <2>1 DEF SharedInv, TasksInv
  <2>5. \A v, w \in Users : InTask(v)' /\ InTask(w)' => v = w
    BY <2>2 DEF SharedInv, TasksInv
  <2> QED BY <1>1, <2>3, <2>4, <2>5 DEF SharedInv, TasksInv
<1>6. ReadersInv'
  BY DEF SharedInv, ReadersInv, Resume, fetchVars, viewVars
<1>7. PrivateInv'
  BY <1>1, <1>2 DEF SharedInv, PrivateInv, Resume, fetchVars, viewVars, world
<1> QED BY <1>3, <1>4, <1>5, <1>6, <1>7 DEF SharedInv

(* Views, reads and the end of the result set are no matter of the fetches. *)
LEMMA FetchesAreLeft ==
    ASSUME SharedInv, UNCHANGED <<call, phase, fetchVars>>
    PROVE  TasksInv' /\ FetchInv'
<1>1. TasksInv'
  BY DEF SharedInv, TasksInv, InTask, fetchVars
<1>2. StaysOutside
  BY DEF StaysOutside, fetchVars
<1> QED BY <1>1, <1>2, FetchStays DEF SharedInv

LEMMA StoredCount == SharedInv => storage.row_count_ \in Nat /\ Len(storage.chunk_index_) \in Nat
BY StorageParts DEF SharedInv, FetchInv, IndexOK

LEMMA ViewKeeps == ASSUME SharedInv, NEW u \in Users, get_result_view(u) PROVE SharedInv'
<1>1. TasksInv' /\ FetchInv'
  BY FetchesAreLeft DEF get_result_view
<1>2. storage.row_count_ \in Nat
  BY StoredCount
<1>3. /\ view \in [Users -> Int] /\ view' = [view EXCEPT ![u] = storage.row_count_]
      /\ storage' = storage
  BY DEF SharedInv, SharedTypes, get_result_view, fetchVars
<1>4. SharedTypes'
  BY <1>2, <1>3 DEF SharedInv, SharedTypes, get_result_view, world, fetchVars
<1>5. \A v \in Users : view'[v] \in {NoView} \cup (0 .. storage'.row_count_)
  BY <1>2, <1>3 DEF SharedInv, ReadersInv
<1>6. ReadersInv'
  BY <1>3, <1>5 DEF SharedInv, ReadersInv, get_result_view
<1>7. PrivateInv'
  BY DEF SharedInv, PrivateInv, get_result_view, fetchVars, world
<1> QED BY <1>1, <1>4, <1>6, <1>7 DEF SharedInv

LEMMA BeginReadKeeps ==
    ASSUME SharedInv, NEW u \in Users, NEW row \in 1 .. view[u], BeginRead(u, row)
    PROVE  SharedInv'
<1>1. TasksInv' /\ FetchInv'
  BY FetchesAreLeft DEF BeginRead
<1>2. storage.row_count_ \in Nat /\ buffer \in Nat /\ row \in 1 .. storage.row_count_
  <2>1. storage.row_count_ \in Nat /\ Len(storage.chunk_index_) \in Nat
    BY StoredCount
  <2>2. view[u] \in {NoView} \cup (0 .. storage.row_count_)
    BY DEF SharedInv, ReadersInv
  <2>3. buffer \in 0 .. Len(storage.chunk_index_)
    BY DEF SharedInv, SharedTypes
  <2> QED BY <2>1, <2>2, <2>3 DEF NoView
<1> DEFINE read == [row |-> row, buffer |-> buffer]
<1>3. /\ reading \in [Users -> [row : Nat, buffer : Nat]]
      /\ reading' = [reading EXCEPT ![u] = read]
      /\ storage' = storage /\ buffer' = buffer
      /\ phase[u] = "idle" /\ (discipline = "shared" \/ u = Owner)
  BY DEF SharedInv, SharedTypes, BeginRead, Acts, fetchVars
<1>4. read \in [row : Nat, buffer : Nat] /\ read.row = row /\ read.buffer = buffer
  BY <1>2
<1> HIDE DEF read
<1>5. /\ reading' \in [Users -> [row : Nat, buffer : Nat]] /\ reading'[u] = read
      /\ \A v \in Users : v # u => reading'[v] = reading[v]
  BY <1>3, <1>4
<1>6. SharedTypes'
  BY <1>5 DEF SharedInv, SharedTypes, BeginRead, world, fetchVars
<1>7. \A v \in Users : reading'[v] # NoRead => reading'[v].row \in 1 .. storage'.row_count_
  BY <1>2, <1>3, <1>4, <1>5 DEF SharedInv, ReadersInv
<1>8. ReadersInv'
  BY <1>3, <1>7 DEF SharedInv, ReadersInv, BeginRead
<1>9. PrivateInv'
  <2>1. SUFFICES ASSUME discipline = "private" PROVE PrivateInv'
    BY DEF BeginRead, world, PrivateInv
  <2>2. u = Owner /\ phase' = phase
    BY <1>3, <2>1 DEF BeginRead
  <2> QED BY <1>3, <1>4, <1>5, <2>1, <2>2 DEF SharedInv, PrivateInv, BeginRead, fetchVars
<1> QED BY <1>1, <1>6, <1>8, <1>9 DEF SharedInv

LEMMA EndReadKeeps == ASSUME SharedInv, NEW u \in Users, EndRead(u) PROVE SharedInv'
<1>1. TasksInv' /\ FetchInv'
  BY FetchesAreLeft DEF EndRead
<1>2. /\ reading \in [Users -> [row : Nat, buffer : Nat]] /\ reading[u] # NoRead
      /\ reading' = [reading EXCEPT ![u] = NoRead] /\ storage' = storage /\ buffer' = buffer
  BY DEF SharedInv, SharedTypes, EndRead, fetchVars
<1>3. NoRead \in [row : Nat, buffer : Nat]
  BY DEF NoRead
<1>4. /\ reading' \in [Users -> [row : Nat, buffer : Nat]] /\ reading'[u] = NoRead
      /\ \A v \in Users : v # u => reading'[v] = reading[v]
  BY <1>2, <1>3
<1>5. SharedTypes'
  BY <1>4 DEF SharedInv, SharedTypes, EndRead, world, fetchVars
<1>6. answer' = IF reading[u].buffer = buffer THEN "right" ELSE "raced"
  <2>1. GetValue(storage, reading[u].row) = reading[u].row
    BY <1>2 DEF SharedInv, ReadersInv, FetchInv
  <2>2. CASE reading[u].buffer = buffer
    BY <2>1, <2>2 DEF EndRead
  <2>3. CASE reading[u].buffer # buffer
    BY <2>3 DEF EndRead
  <2> QED BY <2>2, <2>3
<1>7. ReadersInv'
  BY <1>2, <1>4, <1>6 DEF SharedInv, ReadersInv, EndRead
<1>8. PrivateInv'
  <2>1. SUFFICES ASSUME discipline = "private" PROVE PrivateInv'
    BY DEF EndRead, world, PrivateInv
  <2>2. u = Owner /\ reading[u].buffer = buffer
    BY <1>2, <2>1 DEF SharedInv, PrivateInv
  <2> QED BY <1>2, <1>4, <1>6, <2>1, <2>2 DEF SharedInv, PrivateInv, EndRead, fetchVars
<1> QED BY <1>1, <1>5, <1>7, <1>8 DEF SharedInv

LEMMA DestroyKeeps == ASSUME SharedInv, NEW u \in Users, Destroy(u) PROVE SharedInv'
<1>1. TasksInv' /\ FetchInv'
  BY FetchesAreLeft DEF Destroy
<1>2. SharedTypes' /\ ReadersInv'
  BY DEF SharedInv, SharedTypes, ReadersInv, Destroy, world, fetchVars, viewVars
<1>3. PrivateInv'
  BY DEF SharedInv, PrivateInv, Destroy, Acts, fetchVars, viewVars, world
<1> QED BY <1>1, <1>2, <1>3 DEF SharedInv

LEMMA OthersKeep == ASSUME SharedInv, StrandDisconnects \/ UNCHANGED vars PROVE SharedInv'
<1>1. UNCHANGED <<call, phase, fetchVars, viewVars, world, alive>> /\ usable' \in BOOLEAN
  BY DEF StrandDisconnects, vars, SharedInv, SharedTypes
<1>2. TasksInv' /\ FetchInv'
  BY <1>1, FetchesAreLeft
<1>3. SharedTypes' /\ ReadersInv' /\ PrivateInv'
  BY <1>1 DEF SharedInv, SharedTypes, ReadersInv, PrivateInv, world, fetchVars, viewVars
<1> QED BY <1>2, <1>3 DEF SharedInv

-----------------------------------------------------------------------------
(* The theorems.                                                           *)

LEMMA InitShares == Init => SharedInv
<1> SUFFICES ASSUME Init PROVE SharedInv
  OBVIOUS
<1>1. storage = FreshStorage /\ StorageOK(storage) /\ storage.row_count_ = 0
  BY FreshStorageIsOK DEF Init, FreshStorage
<1>2. Len(storage.chunk_index_) \in Nat \ {0}
  BY <1>1, StorageParts DEF StorageOK, IndexOK
<1>3. \A u \in Users : phase[u] = "idle" /\ view[u] = NoView /\ reading[u] = NoRead
  BY DEF Init
<1>4. SharedTypes
  <2>1. total \in Nat /\ cursor = 0
    BY SharedCursorRows DEF Init
  <2>2. /\ call \in [Users -> Calls \cup {NoCall}] /\ phase \in [Users -> Phases]
        /\ area \in [Users -> Areas] /\ view \in [Users -> Int]
        /\ reading \in [Users -> [row : Nat, buffer : Nat]]
    BY DEF Init, Phases, Areas, NoArea, NoView, NoRead
  <2>3. buffer \in 0 .. Len(storage.chunk_index_)
    BY <1>2 DEF Init
  <2>4. cursor \in 0 .. total
    BY <2>1
  <2>5. discipline \in Disciplines /\ total \in 0 .. MaxTotal
        /\ usable \in BOOLEAN /\ alive \in BOOLEAN /\ dangling \in BOOLEAN
    BY DEF Init
  <2> QED BY <2>2, <2>3, <2>4, <2>5 DEF SharedTypes, Areas
<1>5. TasksInv
  <2>1. queue = << >> /\ queue \in Seq(Users) /\ Len(queue) = 0
    BY DEF Init
  <2>2. \A u \in Users : ~InTask(u)
    BY <1>3 DEF InTask
  <2> QED BY <2>1, <2>2 DEF TasksInv
<1>6. FetchInv
  BY <1>1, <1>3 DEF FetchInv, StorageOK, Init
<1>7. ReadersInv
  BY <1>3 DEF ReadersInv, Init
<1>8. PrivateInv
  BY <1>3, OwnerIsAUser DEF PrivateInv, Init
<1> QED BY <1>4, <1>5, <1>6, <1>7, <1>8 DEF SharedInv

LEMMA NextShares == SharedInv /\ [Next]_vars => SharedInv'
<1> SUFFICES ASSUME SharedInv, [Next]_vars PROVE SharedInv'
  OBVIOUS
<1>1. CASE TaskStep
  BY <1>1, StartTaskKeeps, LoopAgainKeeps, ScrollingKeeps, ChunkCommitKeeps, StorageCommitKeeps
     DEF TaskStep
<1>2. CASE StrandDisconnects \/ UNCHANGED vars
  BY <1>2, OthersKeep
<1>3. ASSUME NEW u \in Users, NEW c \in Calls, Fetch(u, c) PROVE SharedInv'
  BY <1>3, CallKeeps
<1>4. ASSUME NEW u \in Users, Resume(u) PROVE SharedInv'
  BY <1>4, ResumeKeeps
<1>5. ASSUME NEW u \in Users, get_result_view(u) PROVE SharedInv'
  BY <1>5, ViewKeeps
<1>6. ASSUME NEW u \in Users, NEW row \in 1 .. view[u], BeginRead(u, row) PROVE SharedInv'
  BY <1>6, BeginReadKeeps
<1>7. ASSUME NEW u \in Users, EndRead(u) PROVE SharedInv'
  BY <1>7, EndReadKeeps
<1>8. ASSUME NEW u \in Users, Destroy(u) PROVE SharedInv'
  BY <1>8, DestroyKeeps
<1> QED BY <1>1, <1>2, <1>3, <1>4, <1>5, <1>6, <1>7, <1>8 DEF Next

LEMMA AlwaysShared == Spec => []SharedInv
<1>1. Init => SharedInv
  BY InitShares
<1>2. SharedInv /\ [Next]_vars => SharedInv'
  BY NextShares
<1> QED BY <1>1, <1>2, PTL DEF Spec

LEMMA SharedIsTyped == SharedInv => TypeOK
<1> SUFFICES ASSUME SharedInv PROVE TypeOK
  OBVIOUS
<1>1. StorageType(storage) /\ storage.row_count_ \in Nat
  BY StorageParts DEF SharedInv, FetchInv, IndexOK
<1>2. storage.row_count_ <= cursor
  <2>1. ASSUME NEW u \in Users, phase[u] \in {"filled", "counted"}
        PROVE  storage.row_count_ <= cursor
    <3>1. storage.row_count_ + area[u].rows = cursor
      BY <2>1 DEF SharedInv, FetchInv
    <3>2. area[u].rows \in Nat
      BY DEF SharedInv, SharedTypes
    <3> QED BY <1>1, <3>1, <3>2
  <2>2. ASSUME \A u \in Users : phase[u] \notin {"filled", "counted"}
        PROVE  storage.row_count_ <= cursor
    BY <1>1, <2>2 DEF SharedInv, FetchInv
  <2> QED BY <2>1, <2>2
<1>3. storage.row_count_ \in 0 .. cursor
  BY <1>1, <1>2, SharedBounds
<1>4. \A k \in DOMAIN storage.chunk_store_ :
        storage.chunk_store_[k].row_count \in 0 .. storage.chunk_store_[k].size
  <2> SUFFICES ASSUME NEW k \in DOMAIN storage.chunk_store_
               PROVE  storage.chunk_store_[k].row_count \in 0 .. storage.chunk_store_[k].size
    OBVIOUS
  <2>1. storage.chunk_store_[k] \in Chunks
    BY <1>1 DEF StorageType
  <2> DEFINE chunk == storage.chunk_store_[k]
  <2> HIDE DEF chunk
  <2>2. chunk \in Chunks
    BY <2>1 DEF chunk
  <2>3. chunk.row_count \in 0 .. chunk.size
    BY <2>2, ChunkParts
  <2> QED BY <2>3 DEF chunk
<1> QED BY <1>3, <1>4 DEF TypeOK, SharedInv, SharedTypes, TasksInv, ReadersInv, Phases

LEMMA SharedRowsAreThere == SharedInv => CountedRowsAreThere
<1> SUFFICES ASSUME SharedInv, NEW row \in 1 .. storage.row_count_
             PROVE  \E k \in FindChunk(storage, row) :
                        LET r == storage.chunk_index_[k]
                        IN  /\ (row - r.first_row) + 1 <= storage.chunk_store_[r.chunk].row_count
                            /\ ValueAt(storage, k, row) = row
  BY DEF CountedRowsAreThere
<1>1. IndexOK(storage) /\ row \in Nat /\ GetValue(storage, row) = row
  BY StoredCount DEF SharedInv, FetchInv
<1>2. PICK k \in 1 .. Len(storage.chunk_index_) : Holds(storage, k, row)
  BY DEF SharedInv, FetchInv, RowsAreHeld
<1>3. /\ FindChunk(storage, row) = {k}
      /\ ValueAt(storage, k, row) = GetValue(storage, row)
  BY <1>1, <1>2, HeldRowIsFound
<1>4. storage.chunk_index_[k].chunk = k
  BY <1>1, <1>2 DEF IndexOK, IndexDescribesChunks
<1>5. (row - storage.chunk_index_[k].first_row) + 1 <= storage.chunk_store_[k].row_count
  BY <1>2 DEF Holds
<1> QED BY <1>1, <1>3, <1>4, <1>5

(* The state of the coroutines, the strand and the storage is what the     *)
(* variables are declared to be; the storage never counts more rows than   *)
(* the cursor has passed, and no chunk more than it has room for           *)
(* (compact_row_storage.hpp:141).                                          *)
THEOREM FetchesAreTyped == Spec => []TypeOK
BY AlwaysShared, SharedIsTyped, PTL

(* Fetches of any number of coroutines, taken off the strand in whatever   *)
(* order, cut into their steps, store every row of the cursor once and in  *)
(* order; a row that is counted is in its place and committed, in the      *)
(* middle of a commit too.                                                 *)
THEOREM CoroutinesShareTheCursor == Spec => []FetchersShareTheCursor
<1>1. SharedInv => FetchersShareTheCursor
  <2> SUFFICES ASSUME SharedInv PROVE FetchersShareTheCursor
    OBVIOUS
  <2>1. StrandIsFree => storage.row_count_ = cursor
    BY DEF StrandIsFree, InTask, SharedInv, FetchInv
  <2> QED BY <2>1, SharedRowsAreThere DEF FetchersShareTheCursor
<1> QED BY <1>1, AlwaysShared, PTL

(* A view reads its rows, on any thread, while any fetch grows the storage *)
(* and after the result set is gone, unless chunk_index_ moves to a new    *)
(* buffer under the read.                                                  *)
THEOREM ViewsReadTheirRows == Spec => []ReadsAreRight
<1>1. SharedInv => ReadsAreRight
  BY DEF SharedInv, ReadersInv, ReadsAreRight
<1> QED BY <1>1, AlwaysShared, PTL

(* A coroutine that keeps its result set and its views to itself has no    *)
(* read that races and no task that outlives the result set.               *)
THEOREM PrivateUseIsSafe == Spec => []PrivateProgramsAreSafe
<1>1. SharedInv => PrivateProgramsAreSafe
  BY DEF SharedInv, PrivateInv, PrivateProgramsAreSafe
<1> QED BY <1>1, AlwaysShared, PTL
=============================================================================
