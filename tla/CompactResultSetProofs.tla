------------------------- MODULE CompactResultSetProofs -------------------------
(***************************************************************************)
(* What CompactResultSet promises, proved for every size of chunk, every   *)
(* cursor, every mix of fetch sizes and every sequence of faults.          *)
(***************************************************************************)
EXTENDS CompactResultSet, CompactRowStorageProofs, FiniteSetTheorems

WorldInv ==
    /\ asserts \in BOOLEAN
    /\ sizes \in Programs /\ faults \in Faults
    /\ total \in 0 .. MaxTotal

ProgressInv ==
    /\ cursor \in 0 .. total
    /\ usable \in BOOLEAN
    /\ loop \in sizes \cup {0}
    /\ ret \in {"none", "true", "false", "throw"}
    /\ ending \in {"none", "prepare", "count", "commit"}

(* What a view showed is what is read now.                                 *)
ViewsInv ==
    \A v \in views :
        /\ v \in Seq(Cells)
        /\ Len(v) <= storage.row_count_
        /\ \A i \in 1 .. Len(v) : GetValue(storage, i) = v[i]

(* As long as SQLFetchScroll does not fail: what is stored was returned by *)
(* the cursor, in its order, and without faults all of it.                 *)
CursorRowsInv ==
    "fetch" \notin faults =>
        /\ \A i \in 1 .. storage.row_count_ : GetValue(storage, i) \in 1 .. cursor
        /\ \A i, j \in 1 .. storage.row_count_ :
            i < j => GetValue(storage, i) < GetValue(storage, j)
        /\ faults = {} => /\ storage.row_count_ = cursor
                          /\ \A i \in 1 .. storage.row_count_ : GetValue(storage, i) = i

(* What is left of the last chunk is a number of whole fetches until the   *)
(* cursor is at its end, and false is returned only there.                 *)
WholeFetches(space, q) == \E k \in Nat : space = k * q

AlignedInv ==
    Aligned /\ faults = {} =>
        /\ cursor = total \/ \A q \in sizes : WholeFetches(RemainingSpace(LastChunk(storage)), q)
        /\ ret = "false" => cursor = total

ResultInv ==
    /\ WorldInv /\ ProgressInv
    /\ StorageOK(storage)
    /\ ViewsInv /\ CursorRowsInv /\ AlignedInv
-----------------------------------------------------------------------------
(* What the driver may answer.                                             *)

LEMMA AvailableParts ==
    ASSUME WorldInv, ProgressInv, NEW n \in Nat \ {0}
    PROVE  /\ cursor \in Nat /\ total \in Nat /\ cursor <= total
           /\ Available(n) \in Nat /\ Available(n) <= n
           /\ cursor + Available(n) \in cursor .. total
           /\ Available(n) < n => cursor + Available(n) = total
BY CursorRowsAreRows DEF WorldInv, ProgressInv, Available

LEMMA RowsFetchedParts ==
    ASSUME WorldInv, ProgressInv, NEW n \in Nat \ {0}
    PROVE  /\ RowsFetched(n) \in Seq(Cells)
           /\ Len(RowsFetched(n)) = Available(n)
           /\ \A i \in 1 .. Available(n) : RowsFetched(n)[i] = cursor + i
<1>1. /\ cursor \in Nat /\ total \in Nat /\ total <= MaxTotal /\ MaxTotal \in Nat
      /\ Available(n) \in Nat /\ cursor + Available(n) <= total
  BY AvailableParts, CursorRowsAreRows DEF WorldInv
<1>2. ASSUME NEW i \in 1 .. Available(n) PROVE cursor + i \in Cells
  <2>1. cursor + i \in 1 .. MaxTotal
    BY <1>1
  <2> QED BY <2>1, CursorRowsAreRows DEF Cells
<1>3. RowsFetched(n) = [i \in 1 .. Available(n) |-> cursor + i]
  BY DEF RowsFetched
<1> QED BY <1>1, <1>2, <1>3, IsASeq

(* An answer to a fetch of n rows.                                         *)
IsAnswer(o, n) ==
    /\ o.rows \in Seq(Cells)
    /\ o.cursor \in cursor .. total
    /\ ~StatusThrows(o) => CountedRows(o) \in 0 .. n
    /\ "fetch" \notin faults =>
        /\ o.cursor = cursor + Available(n)
        /\ ~StatusThrows(o) =>
            /\ o.rows = RowsFetched(n)
            /\ CountedRows(o) = Available(n) /\ o.returned = Available(n)
    /\ faults = {} => ~StatusThrows(o)

LEMMA SuccessIsAnswer ==
    ASSUME WorldInv, ProgressInv, NEW n \in Nat \ {0}
    PROVE  IsAnswer(FetchSucceeds(n), n)
<1> DEFINE o == FetchSucceeds(n)
<1>1. /\ o.rows = RowsFetched(n) /\ o.returned = Available(n)
      /\ o.cursor = cursor + Available(n) /\ o.status = RowStatus(n)
  BY DEF FetchSucceeds
<1>2. DOMAIN o.status = 1 .. n
      /\ \A i \in 1 .. n : o.status[i] = IF i <= Available(n) THEN "success" ELSE "norow"
  BY <1>1 DEF RowStatus
<1> HIDE DEF o
<1>3. Available(n) \in Nat /\ Available(n) <= n /\ o.cursor \in cursor .. total
  BY <1>1, AvailableParts
<1>4. ~StatusThrows(o)
  BY <1>2, <1>3 DEF StatusThrows
<1>5. CountedRows(o) = Available(n)
  <2>1. {i \in DOMAIN o.status : o.status[i] # "norow"} = 1 .. Available(n)
    BY <1>2, <1>3
  <2>2. Cardinality(1 .. Available(n)) = Available(n)
    BY <1>3, FS_Interval
  <2> QED BY <2>1, <2>2 DEF CountedRows
<1> QED BY <1>1, <1>3, <1>4, <1>5, RowsFetchedParts DEF IsAnswer, o

(* A row in error makes the fetch throw.                                   *)
LEMMA RowErrorIsAnswer ==
    ASSUME WorldInv, ProgressInv, NEW n \in Nat \ {0}, NEW o \in FetchWithRowError(n),
           "row" \in faults
    PROVE  IsAnswer(o, n)
<1>1. PICK k \in 1 .. Available(n) :
        o = [FetchSucceeds(n) EXCEPT !.status[k] = "error", !.rows[k] = Blank]
  BY DEF FetchWithRowError
<1>2. /\ o.rows = [RowsFetched(n) EXCEPT ![k] = Blank]
      /\ o.status = [RowStatus(n) EXCEPT ![k] = "error"]
      /\ o.cursor = cursor + Available(n)
  BY <1>1 DEF FetchSucceeds
<1>3. Available(n) \in Nat /\ Available(n) <= n /\ cursor + Available(n) \in cursor .. total
  BY AvailableParts
<1>4. k \in DOMAIN o.status /\ o.status[k] = "error"
  BY <1>2, <1>3 DEF RowStatus
<1>5. StatusThrows(o)
  BY <1>4 DEF StatusThrows
<1>6. o.rows \in Seq(Cells)
  <2>1. Blank \in Cells
    BY DEF Cells
  <2> QED BY <1>2, <2>1, RowsFetchedParts, ExceptSeq
<1> QED BY <1>2, <1>3, <1>5, <1>6 DEF IsAnswer

(* A failed fetch leaves a status array that reads as success throughout.  *)
LEMMA FailureIsAnswer ==
    ASSUME WorldInv, ProgressInv, NEW n \in Nat \ {0}, NEW o \in FetchFails(n),
           "fetch" \in faults
    PROVE  IsAnswer(o, n)
<1>1. PICK g : o = [rows |-> << >>, returned |-> g,
                    status |-> [i \in 1 .. n |-> "success"], cursor |-> cursor]
  BY DEF FetchFails
<1>2. /\ o.rows = << >> /\ o.cursor = cursor /\ DOMAIN o.status = 1 .. n
      /\ \A i \in 1 .. n : o.status[i] = "success"
  BY <1>1
<1>3. CountedRows(o) = n
  <2>1. {i \in DOMAIN o.status : o.status[i] # "norow"} = 1 .. n
    BY <1>2
  <2>2. Cardinality(1 .. n) = n
    BY FS_Interval
  <2> QED BY <2>1, <2>2 DEF CountedRows
<1>4. o.rows \in Seq(Cells)
  BY <1>2, EmptySeq
<1>5. cursor \in cursor .. total
  BY AvailableParts
<1> QED BY <1>2, <1>3, <1>4, <1>5 DEF IsAnswer

LEMMA DriverAnswers ==
    ASSUME WorldInv, ProgressInv, NEW n \in Nat \ {0}, NEW o \in FetchScroll(n)
    PROVE  IsAnswer(o, n)
BY SuccessIsAnswer, RowErrorIsAnswer, FailureIsAnswer DEF FetchScroll

-----------------------------------------------------------------------------
(* What one fetch does: it stops at an assert, or it stores q rows.        *)

Fetches(quantity, q, rows) ==
    LET n == AreaOf(storage, quantity).rows
    IN  /\ q \in 0 .. n /\ rows \in Seq(Cells)
        /\ Stored(storage, quantity, rows, q, storage')
        /\ "fetch" \notin faults =>
            /\ cursor + q <= cursor'
            /\ q > 0 => rows = RowsFetched(n) /\ q = Available(n)
        /\ faults = {} =>
            \/ ret' = "throw" /\ q = 0 /\ cursor' = cursor
            \/ /\ q = Available(n) /\ cursor' = cursor + q
               /\ ret' = "false" => q < quantity

Fetched(quantity) ==
    /\ UNCHANGED <<world, usable, views>>
    /\ cursor' \in cursor .. total
    /\ ret' \in {"none", "true", "false", "throw"}
    /\ ending' \in {"none", "prepare", "count", "commit"}
    /\ \/ UNCHANGED <<cursor, storage, ret>>
       \/ \E q, rows : Fetches(quantity, q, rows)

LEMMA FetchingFetches ==
    ASSUME ResultInv, NEW quantity \in Nat \ {0}, fetch_many(quantity)
    PROVE  Fetched(quantity)
<1> DEFINE n == AreaOf(storage, quantity).rows
           pr == Prepare(storage, quantity)
<1>1. /\ StorageOK(storage) /\ WorldInv /\ ProgressInv
      /\ cursor \in cursor .. total /\ cursor \in Nat
      /\ n \in Nat \ {0} /\ n <= quantity
  <2>1. SpaceFor(storage, quantity) \in Nat \ {0}
        /\ n = IF SpaceFor(storage, quantity) < quantity THEN SpaceFor(storage, quantity)
               ELSE quantity
    BY PrepareSpace DEF ResultInv
  <2>2. n \in Nat \ {0} /\ n <= quantity
    BY <2>1
  <2> QED BY <2>2, AvailableParts DEF ResultInv
<1> HIDE DEF n
<1>2. UNCHANGED <<world, usable, views>>
  BY DEF fetch_many
<1>3. CASE UNCHANGED <<cursor, storage, ret>> /\ ending' \in {"prepare", "count", "commit"}
  <2>1. ret' \in {"none", "true", "false", "throw"}
    BY <1>1, <1>3 DEF ProgressInv
  <2> QED BY <1>1, <1>2, <1>3, <2>1 DEF Fetched
<1>4. CASE ~usable /\ EndsWith(pr, "throw") /\ UNCHANGED cursor
  <2>1. Fetches(quantity, 0, << >>)
    <3>1. Stored(storage, quantity, << >>, 0, storage') /\ ret' = "throw"
      BY <1>1, <1>4, PreparingStores DEF EndsWith
    <3>2. << >> \in Seq(Cells)
      BY EmptySeq
    <3> QED BY <1>1, <1>4, <3>1, <3>2 DEF Fetches, n
  <2>2. ending' \in {"none", "prepare", "count", "commit"} /\ ret' = "throw"
    BY <1>1, <1>4 DEF EndsWith, ProgressInv
  <2> QED BY <1>1, <1>2, <1>4, <2>1, <2>2 DEF Fetched
<1>5. ASSUME NEW o \in FetchScroll(n),
             AssertAfterFetch(quantity, o) # "none", Stops(AssertAfterFetch(quantity, o))
      PROVE  Fetched(quantity)
  BY <1>3, <1>5 DEF Stops, AssertAfterFetch
<1>6. ASSUME NEW o \in FetchScroll(n), cursor' = o.cursor,
             \/ NothingReturned(o) /\ EndsWith(Filled(quantity, o), "false")
             \/ /\ ~NothingReturned(o) /\ StatusThrows(o)
                /\ EndsWith(Filled(quantity, o), "throw")
             \/ /\ ~NothingReturned(o) /\ ~StatusThrows(o)
                /\ EndsWith(Commit(Filled(quantity, o), CountedRows(o)),
                            IF CountedRows(o) = quantity THEN "true" ELSE "false")
      PROVE  Fetched(quantity)
  <2> DEFINE full == Filled(quantity, o)
  <2>1. IsAnswer(o, n)
    BY <1>1, DriverAnswers
  <2>2. o.rows \in Seq(Cells) /\ cursor' \in cursor .. total
    BY <1>6, <2>1 DEF IsAnswer
  <2>3. /\ Stored(storage, quantity, o.rows, 0, full)
        /\ \A q \in 0 .. n : Stored(storage, quantity, o.rows, q, Commit(full, q))
    BY <1>1, <2>2, FillingStores DEF Filled, n
  <2> HIDE DEF full
  <2>4. /\ cursor \in Nat /\ Available(n) \in Nat /\ Available(n) <= n
        /\ total \in Nat /\ cursor' \in Nat /\ cursor <= cursor'
    <3>1. cursor \in Nat /\ total \in Nat /\ Available(n) \in Nat /\ Available(n) <= n
      BY <1>1, AvailableParts
    <3> QED BY <2>2, <3>1
  <2>5. ending' = ending /\ ret' \in {"true", "false", "throw"}
    BY <1>6 DEF EndsWith
  <2>6. CASE NothingReturned(o) /\ EndsWith(full, "false")
    <3>1. storage' = full /\ ret' = "false" /\ o.returned = 0
      BY <2>6 DEF EndsWith, NothingReturned
    <3>2. "fetch" \notin faults => cursor + 0 <= cursor'
      BY <1>6, <2>1, <2>4 DEF IsAnswer
    <3>3. faults = {} => Available(n) = 0 /\ cursor' = cursor + Available(n)
      BY <1>6, <2>1, <3>1 DEF IsAnswer
    <3>4. Fetches(quantity, 0, o.rows)
      BY <1>1, <2>2, <2>3, <3>1, <3>2, <3>3 DEF Fetches, n
    <3> QED BY <1>1, <1>2, <2>2, <2>5, <3>4 DEF Fetched, ProgressInv
  <2>7. CASE StatusThrows(o) /\ EndsWith(full, "throw")
    <3>1. storage' = full /\ ret' = "throw" /\ faults # {}
      BY <2>1, <2>7 DEF EndsWith, IsAnswer
    <3>2. "fetch" \notin faults => cursor + 0 <= cursor'
      BY <1>6, <2>1, <2>4 DEF IsAnswer
    <3>3. Fetches(quantity, 0, o.rows)
      BY <1>1, <2>2, <2>3, <3>1, <3>2 DEF Fetches, n
    <3> QED BY <1>1, <1>2, <2>2, <2>5, <3>3 DEF Fetched, ProgressInv
  <2>8. CASE /\ ~StatusThrows(o)
             /\ EndsWith(Commit(full, CountedRows(o)),
                         IF CountedRows(o) = quantity THEN "true" ELSE "false")
    <3> DEFINE q == CountedRows(o)
    <3>1. /\ storage' = Commit(full, q)
          /\ ret' = IF q = quantity THEN "true" ELSE "false"
      BY <2>8 DEF EndsWith
    <3>2. q \in 0 .. n
      BY <2>1, <2>8 DEF IsAnswer
    <3>3. "fetch" \notin faults =>
            /\ q = Available(n) /\ o.rows = RowsFetched(n) /\ cursor' = cursor + q
      BY <1>6, <2>1, <2>8 DEF IsAnswer
    <3> HIDE DEF q
    <3>4. Stored(storage, quantity, o.rows, q, storage')
      BY <2>3, <3>1, <3>2
    <3>5. ret' = "false" => q < quantity
      BY <1>1, <3>1, <3>2
    <3>6. "fetch" \notin faults => cursor + q <= cursor'
      BY <2>4, <3>2, <3>3
    <3>7. faults = {} => "fetch" \notin faults
      OBVIOUS
    <3>8. Fetches(quantity, q, o.rows)
      BY <2>2, <3>2, <3>3, <3>4, <3>5, <3>6, <3>7 DEF Fetches, n
    <3> QED BY <1>1, <1>2, <2>2, <2>5, <3>8 DEF Fetched, ProgressInv
  <2> QED BY <1>6, <2>6, <2>7, <2>8 DEF full
<1> QED BY <1>3, <1>4, <1>5, <1>6 DEF fetch_many, Stops, n

-----------------------------------------------------------------------------
(* The parts of the invariant after a fetch.                               *)

LEMMA ViewsAreKept ==
    ASSUME ViewsInv, StorageOK(storage), StorageOK(storage'), Extends(storage, storage'),
           views' = views
    PROVE  ViewsInv'
<1>1. /\ storage.row_count_ \in Nat /\ storage'.row_count_ \in Nat
      /\ storage.row_count_ <= storage'.row_count_
      /\ \A row \in 1 .. storage.row_count_ : GetValue(storage', row) = GetValue(storage, row)
  BY ReadsAreKept
<1>2. ASSUME NEW v \in views
      PROVE  /\ v \in Seq(Cells) /\ Len(v) <= storage'.row_count_
             /\ \A i \in 1 .. Len(v) : GetValue(storage', i) = v[i]
  <2>1. /\ v \in Seq(Cells) /\ Len(v) \in Nat /\ Len(v) <= storage.row_count_
        /\ \A i \in 1 .. Len(v) : GetValue(storage, i) = v[i]
    BY LenProperties DEF ViewsInv
  <2>2. \A i \in 1 .. Len(v) : i \in 1 .. storage.row_count_
    BY <1>1, <2>1
  <2> QED BY <1>1, <2>1, <2>2
<1> QED BY <1>2 DEF ViewsInv

LEMMA FetchKeepsRows ==
    ASSUME ResultInv, NEW quantity \in Nat \ {0}, Fetched(quantity),
           NEW q, NEW rows, Fetches(quantity, q, rows)
    PROVE  CursorRowsInv'
<1> DEFINE n == AreaOf(storage, quantity).rows
           count == storage.row_count_
           count2 == storage'.row_count_
           Old(i) == GetValue(storage, i)
           New(i) == GetValue(storage', i)
<1> SUFFICES ASSUME "fetch" \notin faults
             PROVE  /\ \A i \in 1 .. count2 : New(i) \in 1 .. cursor'
                    /\ \A i, j \in 1 .. count2 : i < j => New(i) < New(j)
                    /\ faults = {} => count2 = cursor' /\ \A i \in 1 .. count2 : New(i) = i
  BY DEF CursorRowsInv, Fetched, world
<1>1. /\ WorldInv /\ ProgressInv /\ StorageOK(storage) /\ n \in Nat \ {0}
      /\ \A i \in 1 .. count : Old(i) \in 1 .. cursor
      /\ \A i, j \in 1 .. count : i < j => Old(i) < Old(j)
      /\ faults = {} => count = cursor /\ \A i \in 1 .. count : Old(i) = i
  BY PrepareSpace DEF ResultInv, CursorRowsInv
<1>2. /\ q \in 0 .. n /\ rows \in Seq(Cells) /\ cursor + q <= cursor'
      /\ q > 0 => rows = RowsFetched(n) /\ q = Available(n)
      /\ faults = {} => cursor' = cursor + q
  BY <1>1, AvailableParts DEF Fetches
<1>3. /\ StorageOK(storage') /\ Extends(storage, storage') /\ count2 = count + q
      /\ \A i \in 1 .. q : i <= Len(rows) => New(count + i) = rows[i]
  BY DEF Fetches, Stored
<1>4. /\ count \in Nat /\ cursor \in Nat /\ cursor' \in Nat /\ q \in Nat
      /\ cursor <= cursor'
      /\ \A i \in 1 .. count : New(i) = Old(i)
  <2>1. cursor \in Nat /\ total \in Nat
    BY <1>1, AvailableParts
  <2>2. cursor' \in cursor .. total
    BY DEF Fetched
  <2>3. count \in Nat /\ \A i \in 1 .. count : New(i) = Old(i)
    BY <1>1, <1>3, ReadsAreKept
  <2> QED BY <1>1, <1>2, <2>1, <2>2, <2>3
<1>5. \A i \in 1 .. q : New(count + i) = cursor + i
  <2> SUFFICES ASSUME NEW i \in 1 .. q PROVE New(count + i) = cursor + i
    OBVIOUS
  <2>1. rows = RowsFetched(n) /\ q = Available(n)
    BY <1>2, <1>4
  <2>2. Len(rows) = q /\ rows[i] = cursor + i
    BY <1>1, <2>1, RowsFetchedParts
  <2> QED BY <1>3, <1>4, <2>2
<1> HIDE DEF n, count, count2, Old, New
<1>6. ASSUME NEW i \in 1 .. count2
      PROVE  \/ i \in 1 .. count
             \/ i - count \in 1 .. q /\ count + (i - count) = i
  BY <1>3, <1>4
<1>7. ASSUME NEW i \in 1 .. count2, i \notin 1 .. count
      PROVE  New(i) = cursor + (i - count) /\ i - count \in 1 .. q
  BY <1>5, <1>6, <1>7
<1>8. ASSUME NEW i \in 1 .. count2
      PROVE  New(i) \in 1 .. cursor'
  <2>1. CASE i \in 1 .. count
    <3>1. New(i) \in 1 .. cursor
      BY <1>1, <1>4, <2>1
    <3> QED BY <1>4, <3>1
  <2>2. CASE i \notin 1 .. count
    BY <1>2, <1>4, <1>7, <2>2
  <2> QED BY <2>1, <2>2
<1>9. ASSUME NEW i \in 1 .. count2, NEW j \in 1 .. count2, i < j
      PROVE  New(i) < New(j)
  <2>1. CASE i \in 1 .. count /\ j \in 1 .. count
    BY <1>1, <1>4, <1>9, <2>1
  <2>2. CASE i \in 1 .. count /\ j \notin 1 .. count
    <3>1. New(i) \in 1 .. cursor
      BY <1>1, <1>4, <2>2
    <3>2. New(j) = cursor + (j - count) /\ j - count \in 1 .. q
      BY <1>7, <2>2
    <3> QED BY <1>4, <3>1, <3>2
  <2>3. CASE i \notin 1 .. count
    <3>1. j \notin 1 .. count
      BY <1>3, <1>4, <1>9, <2>3
    <3>2. New(i) = cursor + (i - count) /\ i - count \in 1 .. q
      BY <1>7, <2>3
    <3>3. New(j) = cursor + (j - count) /\ j - count \in 1 .. q
      BY <1>7, <3>1
    <3> QED BY <1>3, <1>4, <1>9, <3>2, <3>3
  <2> QED BY <2>1, <2>2, <2>3
<1>10. ASSUME faults = {}
       PROVE  count2 = cursor' /\ \A i \in 1 .. count2 : New(i) = i
  <2>1. count = cursor /\ count2 = cursor'
    BY <1>1, <1>2, <1>3, <1>4, <1>10
  <2>2. ASSUME NEW i \in 1 .. count2 PROVE New(i) = i
    <3>1. CASE i \in 1 .. count
      BY <1>1, <1>4, <1>10, <3>1
    <3>2. CASE i \notin 1 .. count
      BY <1>4, <1>6, <1>7, <2>1, <3>2
    <3> QED BY <3>1, <3>2
  <2> QED BY <2>1, <2>2
<1> QED BY <1>8, <1>9, <1>10

(* Space for whole fetches has room for one, and for whole fetches after.  *)
LEMMA OneFetchLess ==
    ASSUME NEW space \in Nat \ {0}, NEW q \in Nat \ {0}, WholeFetches(space, q)
    PROVE  q <= space /\ WholeFetches(space - q, q)
<1>1. PICK k \in Nat : space = k * q
  BY DEF WholeFetches
<1>2. k # 0
  BY <1>1
<1> DEFINE j == k - 1
<1>3. j \in Nat /\ k = j + 1
  BY <1>2
<1> HIDE DEF j
<1>4. k * q = j * q + q /\ j * q \in Nat
  BY <1>3
<1>5. space - q = j * q /\ q <= space
  BY <1>1, <1>4
<1> QED BY <1>3, <1>5 DEF WholeFetches

LEMMA NewChunkIsWhole ==
    ASSUME NEW q \in Nat \ {0}, DefaultChunkSize % q = 0
    PROVE  /\ CalcChunkSize(q) = DefaultChunkSize
           /\ WholeFetches(DefaultChunkSize, q)
<1> DEFINE k == DefaultChunkSize \div q
<1>1. k \in Nat /\ DefaultChunkSize = k * q
  BY ChunkSizeIsPositive
<1>2. WholeFetches(DefaultChunkSize, q)
  BY <1>1 DEF WholeFetches
<1>3. q <= DefaultChunkSize
  BY <1>2, ChunkSizeIsPositive, OneFetchLess
<1> QED BY <1>2, <1>3, ChunkSizeIsPositive DEF CalcChunkSize

LEMMA FetchKeepsAligned ==
    ASSUME ResultInv, NEW quantity \in sizes, quantity \in Nat \ {0}, Fetched(quantity),
           NEW q, NEW rows, Fetches(quantity, q, rows)
    PROVE  AlignedInv'
<1> DEFINE n == AreaOf(storage, quantity).rows
           space == SpaceFor(storage, quantity)
<1>1. UNCHANGED <<sizes, faults, total>>
  BY DEF Fetched, world
<1> SUFFICES ASSUME Aligned, faults = {}
             PROVE  /\ \/ cursor' = total
                       \/ WholeFetches(RemainingSpace(LastChunk(storage')), quantity)
                    /\ ret' = "false" => cursor' = total
  BY <1>1 DEF AlignedInv, Aligned
<1>2. sizes = {quantity} /\ DefaultChunkSize % quantity = 0
  BY DEF Aligned
<1>3. /\ WorldInv /\ ProgressInv /\ StorageOK(storage)
      /\ cursor = total \/ WholeFetches(RemainingSpace(LastChunk(storage)), quantity)
  BY DEF ResultInv, AlignedInv
<1>4. /\ space \in Nat \ {0}
      /\ n = IF space < quantity THEN space ELSE quantity
      /\ n \in Nat \ {0}
      /\ cursor = total \/ WholeFetches(space, quantity)
  BY <1>2, <1>3, PrepareSpace, NewChunkIsWhole
<1>5. /\ RemainingSpace(LastChunk(storage')) = space - q
      /\ \/ ret' = "throw" /\ q = 0 /\ cursor' = cursor
         \/ /\ q = Available(n) /\ cursor' = cursor + q
            /\ ret' = "false" => q < quantity
  BY DEF Fetches, Stored
<1> HIDE DEF n, space
<1>6. /\ cursor \in Nat /\ total \in Nat /\ cursor <= total
      /\ Available(n) \in Nat /\ Available(n) <= n
      /\ cursor + Available(n) <= total
      /\ Available(n) < n => cursor + Available(n) = total
  BY <1>3, <1>4, AvailableParts
<1>7. CASE cursor = total
  BY <1>5, <1>6, <1>7
<1>8. CASE cursor # total /\ ret' = "throw" /\ q = 0
  BY <1>4, <1>5, <1>8
<1>9. CASE cursor # total /\ q = Available(n) /\ cursor' = cursor + q
           /\ (ret' = "false" => q < quantity)
  <2>1. n = quantity /\ WholeFetches(space - quantity, quantity)
    BY <1>4, <1>9, OneFetchLess
  <2> QED BY <1>5, <1>6, <1>9, <2>1
<1> QED BY <1>5, <1>7, <1>8, <1>9

-----------------------------------------------------------------------------
LEMMA InitEstablishes == Init => ResultInv
<1> SUFFICES ASSUME Init PROVE ResultInv
  OBVIOUS
<1>1. StorageOK(storage) /\ storage.row_count_ = 0
  BY FreshStorageIsOK DEF Init, FreshStorage
<1>2. WorldInv
  BY ResultBuildsAreBoolean DEF Init, WorldInv
<1>3. cursor = 0 /\ total \in Nat
  BY CursorRowsAreRows DEF Init
<1>4. ProgressInv
  BY <1>3 DEF Init, ProgressInv
<1>5. ViewsInv
  BY DEF Init, ViewsInv
<1>6. CursorRowsInv
  BY <1>1, <1>3 DEF CursorRowsInv
<1>7. AlignedInv
  <2> SUFFICES ASSUME Aligned, NEW q \in sizes
               PROVE  WholeFetches(RemainingSpace(LastChunk(storage)), q)
    BY DEF AlignedInv, Init
  <2>1. q \in Nat \ {0} /\ DefaultChunkSize % q = 0
    BY <1>2, FetchSizesArePositive DEF Aligned, WorldInv
  <2>2. WholeFetches(DefaultChunkSize, q)
    BY <2>1, NewChunkIsWhole
  <2>3. RemainingSpace(LastChunk(storage)) = DefaultChunkSize
    <3>1. LastChunk(storage) = NewChunk(DefaultChunkSize)
      BY DEF Init, FreshStorage, LastChunk, Last
    <3>2. /\ NewChunk(DefaultChunkSize).size = CalcChunkSize(DefaultChunkSize)
          /\ NewChunk(DefaultChunkSize).row_count = 0
      BY ChunkSizeIsPositive, NewChunkParts
    <3>3. CalcChunkSize(DefaultChunkSize) = DefaultChunkSize
      BY ChunkSizeIsPositive DEF CalcChunkSize
    <3> QED BY <3>1, <3>2, <3>3, ChunkSizeIsPositive DEF RemainingSpace
  <2> QED BY <2>2, <2>3
<1> QED BY <1>1, <1>2, <1>4, <1>5, <1>6, <1>7 DEF ResultInv

LEMMA FetchKeeps ==
    ASSUME ResultInv, NEW quantity \in sizes, fetch_many(quantity), loop' \in sizes \cup {0}
    PROVE  ResultInv' /\ Extends(storage, storage')
<1>1. quantity \in Nat \ {0}
  BY FetchSizesArePositive DEF ResultInv, WorldInv
<1>2. Fetched(quantity)
  BY <1>1, FetchingFetches
<1>3. /\ UNCHANGED <<world, asserts, sizes, faults, total, usable, views>>
      /\ cursor' \in cursor .. total
      /\ ret' \in {"none", "true", "false", "throw"}
      /\ ending' \in {"none", "prepare", "count", "commit"}
  BY <1>2 DEF Fetched, world
<1>4. WorldInv' /\ StorageOK(storage)
  BY <1>3 DEF ResultInv, WorldInv
<1>5. ProgressInv'
  <2>1. cursor' \in 0 .. total
    BY <1>3, CursorRowsAreRows DEF ResultInv, WorldInv, ProgressInv
  <2> QED BY <1>3, <2>1 DEF ResultInv, ProgressInv
<1>6. CASE UNCHANGED <<cursor, storage, ret>>
  <2>1. Extends(storage, storage')
    BY <1>4, <1>6, ExtendsIsReflexive DEF StorageOK, IndexOK
  <2>2. StorageOK(storage') /\ ViewsInv' /\ CursorRowsInv' /\ AlignedInv'
    BY <1>3, <1>4, <1>6 DEF ResultInv, ViewsInv, CursorRowsInv, AlignedInv, Aligned
  <2> QED BY <1>4, <1>5, <2>1, <2>2 DEF ResultInv
<1>7. ASSUME NEW q, NEW rows, Fetches(quantity, q, rows)
      PROVE  ResultInv' /\ Extends(storage, storage')
  <2>1. StorageOK(storage') /\ Extends(storage, storage')
    BY <1>7 DEF Fetches, Stored
  <2>2. ViewsInv'
    BY <1>3, <1>4, <2>1, ViewsAreKept DEF ResultInv
  <2>3. CursorRowsInv'
    BY <1>1, <1>2, <1>7, FetchKeepsRows
  <2>4. AlignedInv'
    BY <1>1, <1>2, <1>7, FetchKeepsAligned
  <2> QED BY <1>4, <1>5, <2>1, <2>2, <2>3, <2>4 DEF ResultInv
<1> QED BY <1>2, <1>6, <1>7 DEF Fetched

(* The steps that leave the cursor and the storage alone.                  *)
LEMMA OthersKeep ==
    ASSUME ResultInv, UNCHANGED <<world, cursor, storage, ending>>, ViewsInv',
           usable' \in BOOLEAN, loop' \in sizes \cup {0}, ret' \in {"none", ret}
    PROVE  ResultInv' /\ Extends(storage, storage')
<1>1. UNCHANGED <<asserts, sizes, faults, total>>
  BY DEF world
<1>2. Extends(storage, storage')
  BY ExtendsIsReflexive DEF ResultInv, StorageOK, IndexOK
<1>3. WorldInv' /\ ProgressInv' /\ StorageOK(storage')
  BY <1>1 DEF ResultInv, WorldInv, ProgressInv
<1>4. CursorRowsInv' /\ AlignedInv'
  BY <1>1 DEF ResultInv, CursorRowsInv, AlignedInv, Aligned
<1> QED BY <1>2, <1>3, <1>4 DEF ResultInv

LEMMA StoredRowsAreRead ==
    ASSUME NEW st, StorageOK(st)
    PROVE  /\ StoredRows(st) \in Seq(Cells) /\ Len(StoredRows(st)) = st.row_count_
           /\ \A i \in 1 .. st.row_count_ : StoredRows(st)[i] = GetValue(st, i)
           /\ StoredRows(st) = [i \in 1 .. st.row_count_ |-> GetValue(st, i)]
<1>1. Extends(st, st)
  BY ExtendsIsReflexive DEF StorageOK, IndexOK
<1>2. st.row_count_ \in Nat /\ \A i \in 1 .. st.row_count_ : GetValue(st, i) \in Cells
  BY <1>1, ReadsAreKept
<1>3. StoredRows(st) = [i \in 1 .. st.row_count_ |-> GetValue(st, i)]
  BY DEF StoredRows
<1> QED BY <1>2, <1>3, IsASeq

LEMMA StepKeeps == ResultInv /\ [Next]_vars => ResultInv' /\ Extends(storage, storage')
<1> SUFFICES ASSUME ResultInv, [Next]_vars PROVE ResultInv' /\ Extends(storage, storage')
  OBVIOUS
<1>1. /\ usable \in BOOLEAN /\ loop \in sizes \cup {0} /\ ViewsInv
      /\ StorageOK(storage) /\ 0 \in sizes \cup {0}
  BY DEF ResultInv, ProgressInv
<1>2. ASSUME NEW q \in sizes, FetchMany(q)
      PROVE  ResultInv' /\ Extends(storage, storage')
  BY <1>1, <1>2, FetchKeeps DEF FetchMany
<1>3. ASSUME NEW q \in sizes, FetchAll(q)
      PROVE  ResultInv' /\ Extends(storage, storage')
  <2>1. ViewsInv'
    BY <1>1, <1>3 DEF FetchAll, ViewsInv
  <2> QED BY <1>1, <1>3, <2>1, OthersKeep DEF FetchAll
<1>4. CASE FetchAllStep
  <2>1. loop \in sizes
    BY <1>1, <1>4 DEF FetchAllStep
  <2>2. fetch_many(loop) /\ loop' \in sizes \cup {0}
    BY <1>1, <1>4 DEF FetchAllStep
  <2> QED BY <2>1, <2>2, FetchKeeps
<1>5. CASE get_result_view
  <2>1. views' = views \cup {StoredRows(storage)} /\ storage' = storage
    BY <1>5 DEF get_result_view
  <2>2. ViewsInv'
    BY <1>1, <2>1, StoredRowsAreRead DEF ViewsInv
  <2> QED BY <1>1, <1>5, <2>2, OthersKeep DEF get_result_view
<1>6. CASE ConnectionDisconnects
  <2>1. ViewsInv'
    BY <1>1, <1>6 DEF ConnectionDisconnects, ViewsInv
  <2> QED BY <1>1, <1>6, <2>1, OthersKeep DEF ConnectionDisconnects
<1>7. CASE UNCHANGED vars
  <2>1. ViewsInv'
    BY <1>1, <1>7 DEF vars, ViewsInv
  <2> QED BY <1>1, <1>7, <2>1, OthersKeep DEF vars
<1> QED BY <1>2, <1>3, <1>4, <1>5, <1>6, <1>7 DEF Next

LEMMA ResultInvHolds == Spec => []ResultInv
<1>1. ResultInv /\ [Next]_vars => ResultInv'
  BY StepKeeps
<1> QED BY <1>1, InitEstablishes, PTL DEF Spec

-----------------------------------------------------------------------------
(* Every part keeps its type, and no chunk counts more rows than it has    *)
(* places, also when a failed fetch has rows counted that do not exist.    *)
THEOREM ResultSetIsTyped == Spec => []TypeOK
<1>1. ResultInv => TypeOK
  <2> SUFFICES ASSUME ResultInv PROVE TypeOK
    OBVIOUS
  <2>1. StorageType(storage)
    BY DEF ResultInv, StorageOK, IndexOK
  <2>2. storage.chunk_store_ \in Seq(Chunks) /\ storage.row_count_ \in Nat
    BY <2>1 DEF StorageType
  <2>3. ASSUME NEW k \in DOMAIN storage.chunk_store_
        PROVE  /\ storage.chunk_store_[k].row_count \in 0 .. storage.chunk_store_[k].size
               /\ storage.chunk_store_[k].data
                    \in [1 .. storage.chunk_store_[k].size -> Rows \cup {Blank}]
    <3>1. storage.chunk_store_[k] \in Chunks
      BY <2>2, ElementOfSeq, LenProperties
    <3> QED BY <3>1, ChunkParts DEF Cells
  <2>4. \A v \in views : v \in Seq(Rows \cup {Blank})
    BY DEF ResultInv, ViewsInv, Cells
  <2> QED BY <2>2, <2>3, <2>4 DEF ResultInv, WorldInv, ProgressInv, TypeOK
<1> QED BY <1>1, ResultInvHolds, PTL

(* Without faults the storage is what the cursor has moved past, each row  *)
(* once and in order, for any mix of fetches and however they fall on the  *)
(* chunks.                                                                 *)
THEOREM StorageFollowsTheCursor == Spec => []StorageIsCursorPrefix
<1>1. ResultInv => StorageIsCursorPrefix
  <2> SUFFICES ASSUME ResultInv, faults = {}
               PROVE  StoredRows(storage) = [i \in 1 .. cursor |-> i]
    BY DEF StorageIsCursorPrefix
  <2>1. storage.row_count_ = cursor /\ \A i \in 1 .. storage.row_count_ : GetValue(storage, i) = i
    BY DEF ResultInv, CursorRowsInv
  <2> QED BY <2>1 DEF StoredRows
<1> QED BY <1>1, ResultInvHolds, PTL

(* As long as SQLFetchScroll itself does not fail, what is stored lies in  *)
(* cursor order, with no row twice and none made up, through rows in error *)
(* and a disconnect.                                                       *)
THEOREM RowsStayInOrder == Spec => []RowsInCursorOrder
<1>1. ResultInv => RowsInCursorOrder
  <2> SUFFICES ASSUME ResultInv, "fetch" \notin faults
               PROVE  /\ \A i \in 1 .. Len(StoredRows(storage)) :
                            StoredRows(storage)[i] \in 1 .. cursor
                      /\ \A i \in 1 .. Len(StoredRows(storage)) - 1 :
                            StoredRows(storage)[i] < StoredRows(storage)[i + 1]
    BY DEF RowsInCursorOrder
  <2> DEFINE n == storage.row_count_
  <2>1. /\ Len(StoredRows(storage)) = n
        /\ \A i \in 1 .. n : StoredRows(storage)[i] = GetValue(storage, i)
    BY StoredRowsAreRead DEF ResultInv
  <2>2. n \in Nat
    BY StorageParts DEF ResultInv, StorageOK, IndexOK
  <2>3. /\ \A i \in 1 .. n : GetValue(storage, i) \in 1 .. cursor
        /\ \A i, j \in 1 .. n : i < j => GetValue(storage, i) < GetValue(storage, j)
    BY DEF ResultInv, CursorRowsInv
  <2> HIDE DEF n
  <2>4. ASSUME NEW i \in 1 .. n - 1
        PROVE  StoredRows(storage)[i] < StoredRows(storage)[i + 1]
    <3>1. i \in 1 .. n /\ i + 1 \in 1 .. n /\ i < i + 1
      BY <2>2
    <3> QED BY <2>1, <2>3, <3>1
  <2> QED BY <2>1, <2>3, <2>4
<1> QED BY <1>1, ResultInvHolds, PTL

(* A result_view shows what it showed when it was made, through later      *)
(* fetches, new chunks, failed fetches and a disconnect.                   *)
THEOREM ViewsStayTheSame == Spec => []ViewsAreStable
<1>1. ResultInv => ViewsAreStable
  BY DEF ResultInv, ViewsInv, ViewsAreStable
<1> QED BY <1>1, ResultInvHolds, PTL

(* The loops of the bulk tests are right without faults when the one fetch *)
(* size they use divides the chunk size.                                   *)
THEOREM AlignedLoopsSeeAllRows == Spec => []AlignedFalseMeansAllRows
<1>1. ResultInv => AlignedFalseMeansAllRows
  <2> SUFFICES ASSUME ResultInv, Aligned, faults = {}, ret = "false"
               PROVE  storage.row_count_ = total
    BY DEF AlignedFalseMeansAllRows, FalseMeansAllRows
  <2> QED BY DEF ResultInv, AlignedInv, CursorRowsInv
<1> QED BY <1>1, ResultInvHolds, PTL

=============================================================================
