------------------------ MODULE StandardResultSetProofs ------------------------
(***************************************************************************)
(* Theorems about StandardResultSet, for any table, any mix of columns,    *)
(* any buffer size and whatever SQLFetch and SQLGetData answer.            *)
(***************************************************************************)
EXTENDS StandardResultSet, SequenceTheorems, TLAPS

(* A row returned by the cursor is told apart from NoRow.                  *)
LEMMA RowsAreRows == NoRow \notin Rows
<1>1. SUFFICES ASSUME NEW r \in Rows, r = << >> PROVE FALSE
  BY DEF NoRow
<1>2. DOMAIN r = Columns
  BY CellsAreLengths
<1>3. DOMAIN << >> = {}
  OBVIOUS
<1> QED
  BY <1>1, <1>2, <1>3, CellsAreLengths

(* The program's own operations other than next() and disconnect().        *)
Getting ==
    \/ \E c \in FixedColumns : get_fixed(c)
    \/ \E c \in TextColumns : get_varchar(c) \/ get_nvarchar(c)
    \/ \E c \in BinaryColumns : get_binary(c)
    \/ NextPiece
    \/ ReadWhole

(* A getter leaves the cursor and the answer of next() alone.              *)
LEMMA GettersLeaveTheCursor ==
    ASSUME Getting
    PROVE  UNCHANGED <<world, cursor, answer>>
BY DEF Getting, get_fixed, get_varchar, get_sized_varchar, get_nvarchar, get_binary,
       Probe, NextPiece, ReadWhole, Getter

-----------------------------------------------------------------------------
(* next() follows the cursor, in every reachable state.                    *)
THEOREM NextIsRight == Spec => []NextFollowsTheCursor
<1>1. Init => NextFollowsTheCursor
  BY DEF Init, NextFollowsTheCursor
<1>2. NextFollowsTheCursor /\ [Next]_vars => NextFollowsTheCursor'
  <2> SUFFICES ASSUME NextFollowsTheCursor, [Next]_vars PROVE NextFollowsTheCursor'
    OBVIOUS
  <2>1. CASE next
    <3>1. PICK rc \in {"success", "info", "no_data", "error", "invalid_handle"} :
            /\ SQLFetch(rc)
            /\ answer' = IF NextAnswer(rc) THEN "true" ELSE "false"
      BY <2>1 DEF next
    <3>2. UNCHANGED <<total, faults, usable>>
      BY <2>1 DEF next, world
    <3>3. CASE rc = "no_data"
      BY <3>1, <3>2, <3>3 DEF SQLFetch, NextAnswer, NextFollowsTheCursor
    <3>4. CASE rc \in {"success", "info"}
      BY <3>1, <3>2, <3>4, RowsAreRows DEF SQLFetch, NextAnswer, NextFollowsTheCursor
    <3>5. CASE rc \in {"error", "invalid_handle"}
      BY <3>1, <3>2, <3>5 DEF SQLFetch, NextAnswer, NextFollowsTheCursor
    <3> QED
      BY <3>1, <3>3, <3>4, <3>5
  <2>2. CASE Getting
    BY <2>2, GettersLeaveTheCursor DEF world, cursor, NextFollowsTheCursor
  <2>3. CASE ConnectionDisconnects
    BY <2>3 DEF ConnectionDisconnects, NextFollowsTheCursor
  <2>4. CASE UNCHANGED vars
    BY <2>4 DEF vars, world, cursor, NextFollowsTheCursor
  <2> QED
    BY <2>1, <2>2, <2>3, <2>4 DEF Next, Getting
<1> QED
  BY <1>1, <1>2, PTL DEF Spec

-----------------------------------------------------------------------------
(* On a statement that is gone SQLGetData answers only one thing.          *)
LEMMA GoneAnswers ==
    ASSUME ~usable, NEW c, NEW room, NEW o \in SQLGetData(c, room)
    PROVE  Throws(o.rc)
BY DEF SQLGetData, Nothing, Answer, Throws

(* A disconnect finds no getter half-way, and none gets half-way after it: *)
(* the probe throws.                                                       *)
Gone == ~usable => ~InCall /\ (~Sized => ret \in {"none", "throw"})

(* No getter but get_varchar of a sized column returns anything once the   *)
(* statement handle is gone.                                               *)
THEOREM GoneStatementsThrow == Spec => []DisconnectedGettersThrow
<1>1. Init => Gone
  BY DEF Init, Gone, InCall, NoCall
<1>2. Gone /\ [Next]_vars => Gone'
  <2> SUFFICES ASSUME Gone, [Next]_vars, ~usable' PROVE (~InCall)' /\ (~Sized => ret \in {"none", "throw"})'
    BY DEF Gone
  <2> USE DEF InCall
  <2>1. CASE next
    BY <2>1 DEF next, NoCall
  <2>2. CASE ConnectionDisconnects
    BY <2>2 DEF ConnectionDisconnects, NoCall
  <2>3. CASE UNCHANGED vars
    BY <2>3 DEF vars, world, cursor, Gone, Sized
  <2>4. CASE Getting
    <3>1. ~usable
      BY <2>4, GettersLeaveTheCursor DEF cursor
    <3>2. ASSUME NEW c \in FixedColumns, get_fixed(c) PROVE call'.step = "done" /\ ret' = "throw"
      BY <3>1, <3>2, GoneAnswers DEF get_fixed, Starts, ThrowsOut, Throws, SQLGetData, Nothing, Answer
    <3>3. ASSUME NEW c, get_sized_varchar(c) PROVE call'.step = "done" /\ Sized'
      BY <3>3 DEF get_sized_varchar, Starts, Sized
    <3>4. ASSUME NEW op, NEW c, Probe(op, c) PROVE call'.step = "done" /\ ret' = "throw"
      <4>1. PICK o \in SQLGetData(c, 0) : ~Throws(o.rc) \/ (ThrowsOut /\ call' = Starts(op, c))
        BY <3>4, Zenon DEF Probe
      <4>2. Throws(o.rc)
        BY <3>1, GoneAnswers
      <4> QED
        BY <4>1, <4>2 DEF Starts, ThrowsOut
    <3>5. ASSUME NEW c, get_nvarchar(c) PROVE call'.step = "done" /\ ret' = "throw"
      BY <3>5 DEF get_nvarchar, Starts, ThrowsOut
    <3>6. ~NextPiece /\ ~ReadWhole
      BY <3>1 DEF Gone, NextPiece, ReadWhole
    <3> QED
      BY <2>4, <3>2, <3>3, <3>4, <3>5, <3>6 DEF Getting, get_varchar, get_binary
  <2> QED
    BY <2>1, <2>2, <2>3, <2>4 DEF Next, Getting
<1>3. Gone => DisconnectedGettersThrow
  BY DEF Gone, DisconnectedGettersThrow
<1> QED
  BY <1>1, <1>2, <1>3, PTL DEF Spec
-----------------------------------------------------------------------------
(* The strings and vectors.                                                *)

Values == Seq(0 .. MaxValue)

LEMMA UnitsParts ==
    ASSUME NEW from \in Nat \ {0}, NEW to \in Nat, from <= to + 1, to <= MaxValue
    PROVE  /\ Units(from, to) \in Values
           /\ Len(Units(from, to)) = to - from + 1
           /\ \A i \in 1 .. to - from + 1 : Units(from, to)[i] = from + i - 1
<1> DEFINE n == to - from + 1
<1>1. n \in Nat /\ \A i \in 1 .. n : from + i - 1 \in 0 .. MaxValue
  BY BufferHoldsAUnit
<1>2. Units(from, to) = [i \in 1 .. n |-> from + i - 1]
  BY DEF Units
<1> HIDE DEF n
<1>3. Units(from, to) \in Values /\ Len(Units(from, to)) = n
  BY <1>1, <1>2, IsASeq DEF Values
<1> QED BY <1>2, <1>3 DEF n

LEMMA ResizeParts ==
    ASSUME NEW s \in Values, NEW n \in Nat
    PROVE  /\ Resize(s, n) \in Values /\ Len(Resize(s, n)) = n
           /\ \A i \in 1 .. n : Resize(s, n)[i] = IF i <= Len(s) THEN s[i] ELSE Pad
<1>1. Len(s) \in Nat /\ \A i \in 1 .. Len(s) : s[i] \in 0 .. MaxValue
  BY ElementOfSeq, LenProperties DEF Values
<1>2. Pad \in 0 .. MaxValue
  BY BufferHoldsAUnit DEF Pad
<1>3. Resize(s, n) = [i \in 1 .. n |-> IF i <= Len(s) THEN s[i] ELSE Pad]
  BY DEF Resize
<1>4. \A i \in 1 .. n : (IF i <= Len(s) THEN s[i] ELSE Pad) \in 0 .. MaxValue
  BY <1>1, <1>2
<1>5. Resize(s, n) \in Values /\ Len(Resize(s, n)) = n
  BY <1>3, <1>4, IsASeq DEF Values
<1> QED BY <1>3, <1>5

LEMMA WrittenParts ==
    ASSUME NEW units \in Values, NEW s \in Values
    PROVE  /\ Written(units, s) \in Values
           /\ Len(Written(units, s)) = IF Len(units) > Len(s) THEN Len(units) ELSE Len(s)
           /\ \A i \in 1 .. Len(Written(units, s)) :
                Written(units, s)[i] = IF i <= Len(units) THEN units[i] ELSE s[i]
<1> DEFINE n == IF Len(units) > Len(s) THEN Len(units) ELSE Len(s)
<1>1. /\ Len(units) \in Nat /\ \A i \in 1 .. Len(units) : units[i] \in 0 .. MaxValue
      /\ Len(s) \in Nat /\ \A i \in 1 .. Len(s) : s[i] \in 0 .. MaxValue
  BY ElementOfSeq, LenProperties DEF Values
<1>2. n \in Nat /\ \A i \in 1 .. n : (IF i <= Len(units) THEN units[i] ELSE s[i]) \in 0 .. MaxValue
  BY <1>1
<1>3. Written(units, s) = [i \in 1 .. n |-> IF i <= Len(units) THEN units[i] ELSE s[i]]
  BY DEF Written
<1> HIDE DEF n
<1>4. Written(units, s) \in Values /\ Len(Written(units, s)) = n
  BY <1>2, <1>3, IsASeq DEF Values
<1> QED BY <1>3, <1>4 DEF n

(* Two values with the same units.                                         *)
LEMMA SameUnits ==
    ASSUME NEW s \in Values, NEW n \in 0 .. MaxValue, Len(s) = n,
           \A i \in 1 .. n : s[i] = i
    PROVE  s = Units(1, n)
<1>1. s = [i \in 1 .. n |-> s[i]]
  BY LenProperties, BufferHoldsAUnit DEF Values
<1>2. Units(1, n) = [i \in 1 .. n |-> i]
  BY BufferHoldsAUnit DEF Units
<1> QED BY <1>1, <1>2

LEMMA NothingIsAValue == << >> \in Values /\ Len(<< >>) = 0 /\ << >> = Units(1, 0)
<1>1. << >> \in Values /\ Len(<< >>) = 0 /\ 0 \in 0 .. MaxValue
  BY EmptySeq, BufferHoldsAUnit DEF Values
<1> QED BY <1>1, SameUnits

-----------------------------------------------------------------------------
(* What SQLGetData answers.                                                *)

DataOK(d) ==
    /\ d.column \in Columns \cup {NoColumn} /\ d.drained \in BOOLEAN
    /\ d.given \in IF row = NoRow \/ d.column = NoColumn THEN {0}
                   ELSE 0 .. IF row[d.column] < 0 THEN 0 ELSE row[d.column]

IsTypedAnswer(o) ==
    /\ o.rc \in {"success", "info", "no_data", "error", "invalid_handle"}
    /\ o.unset \in BOOLEAN /\ o.ind \in Garbage
    /\ o.units \in Values
    /\ DataOK(o.data)

(* The answer to a first or later call on a live statement, for a column   *)
(* of which g units were handed out.                                       *)
IsCellAnswer(o, c, g, room) ==
    /\ row[c] = SQL_NULL_DATA =>
        o.rc = "success" /\ ~o.unset /\ o.ind = SQL_NULL_DATA /\ o.units = << >>
    /\ row[c] # SQL_NULL_DATA /\ row[c] - g <= room =>
        o.rc = "success" /\ ~o.unset /\ o.ind = row[c] - g /\ o.units = Units(g + 1, row[c])
    /\ row[c] # SQL_NULL_DATA /\ ~(row[c] - g <= room) =>
        /\ o.rc = "info" /\ ~o.unset /\ o.ind = IF totals THEN row[c] - g ELSE SQL_NO_TOTAL
        /\ o.units = Units(g + 1, g + room)
        /\ o.data.column = c /\ o.data.given = g + room /\ ~o.data.drained

LEMMA CellsAreCells ==
    ASSUME NEW r \in Rows, NEW c \in Columns
    PROVE  r[c] = SQL_NULL_DATA \/ r[c] \in 0 .. MaxValue
BY CellsAreLengths

LEMMA GivenParts ==
    ASSUME DataOK(data), row \in Rows, NEW c \in Columns
    PROVE  /\ Given(c) \in Nat
           /\ row[c] # SQL_NULL_DATA => Given(c) <= row[c]
           /\ row[c] = SQL_NULL_DATA => Given(c) = 0
<1>1. row[c] = SQL_NULL_DATA \/ row[c] \in 0 .. MaxValue
  BY CellsAreCells
<1>2. row # NoRow /\ c # NoColumn
  BY RowsAreRows, CellsAreLengths
<1> QED BY <1>1, <1>2, BufferHoldsAUnit DEF DataOK, Given, SQL_NULL_DATA

LEMMA CellAnswerParts ==
    ASSUME DataOK(data), row \in Rows, NEW c \in Columns, NEW room \in Nat
    PROVE  /\ IsTypedAnswer(CellAnswer(c, room))
           /\ IsCellAnswer(CellAnswer(c, room), c, Given(c), room)
<1> DEFINE g == Given(c)
           left == row[c] - g
           after(n, drained) == [column |-> c, given |-> g + n, drained |-> drained]
           o == CellAnswer(c, room)
<1>1. /\ row[c] = SQL_NULL_DATA \/ row[c] \in 0 .. MaxValue
      /\ row # NoRow /\ c # NoColumn /\ MaxValue \in Nat
      /\ g \in Nat /\ (row[c] # SQL_NULL_DATA => g <= row[c]) /\ (row[c] = SQL_NULL_DATA => g = 0)
  BY CellsAreCells, RowsAreRows, GivenParts, CellsAreLengths, BufferHoldsAUnit
<1> HIDE DEF g
<1>2. CASE row[c] = SQL_NULL_DATA
  <2>1. o = [rc |-> "success", unset |-> FALSE, ind |-> SQL_NULL_DATA, units |-> << >>,
             data |-> after(0, TRUE)]
    BY <1>2 DEF CellAnswer, Answer, g
  <2>2. DataOK(after(0, TRUE))
    BY <1>1, <1>2 DEF DataOK, SQL_NULL_DATA
  <2> HIDE DEF o
  <2>3. IsTypedAnswer(o)
    BY <2>1, <2>2, NothingIsAValue DEF IsTypedAnswer, Garbage
  <2>4. IsCellAnswer(o, c, g, room)
    BY <1>2, <2>1 DEF IsCellAnswer
  <2> QED BY <2>3, <2>4 DEF o, g
<1>3. CASE row[c] # SQL_NULL_DATA /\ left <= room
  <2>1. o = [rc |-> "success", unset |-> FALSE, ind |-> left, units |-> Units(g + 1, row[c]),
             data |-> after(left, TRUE)]
    BY <1>3 DEF CellAnswer, Answer, g
  <2>2. DataOK(after(left, TRUE))
    BY <1>1, <1>3 DEF DataOK
  <2>3. Units(g + 1, row[c]) \in Values
    BY <1>1, <1>3, UnitsParts
  <2>4. left \in Garbage
    BY <1>1, <1>3 DEF Garbage
  <2> HIDE DEF o
  <2>5. IsTypedAnswer(o)
    BY <2>1, <2>2, <2>3, <2>4 DEF IsTypedAnswer
  <2>6. IsCellAnswer(o, c, g, room)
    BY <1>3, <2>1 DEF IsCellAnswer
  <2> QED BY <2>5, <2>6 DEF o, g
<1>4. CASE row[c] # SQL_NULL_DATA /\ ~(left <= room)
  <2>1. o = [rc |-> "info", unset |-> FALSE, ind |-> IF totals THEN left ELSE SQL_NO_TOTAL,
             units |-> Units(g + 1, g + room), data |-> after(room, FALSE)]
    BY <1>4 DEF CellAnswer, Answer, g
  <2>2. DataOK(after(room, FALSE))
    BY <1>1, <1>4 DEF DataOK
  <2>3. Units(g + 1, g + room) \in Values
    <3>1. /\ g + 1 \in Nat \ {0} /\ g + room \in Nat
          /\ g + 1 <= g + room + 1 /\ g + room <= MaxValue
      BY <1>1, <1>4
    <3> QED BY <3>1, UnitsParts
  <2>4. left \in Garbage /\ SQL_NO_TOTAL \in Garbage
    BY <1>1, <1>4 DEF Garbage
  <2> HIDE DEF o
  <2>5. IsTypedAnswer(o)
    BY <2>1, <2>2, <2>3, <2>4 DEF IsTypedAnswer
  <2>6. IsCellAnswer(o, c, g, room)
    BY <1>4, <2>1 DEF IsCellAnswer
  <2> QED BY <2>5, <2>6 DEF o, g
<1> QED BY <1>2, <1>3, <1>4 DEF g

LEMMA DriverAnswers ==
    ASSUME DataOK(data), row \in Rows \cup {NoRow}, NEW c \in Columns, NEW room \in Nat,
           NEW o \in SQLGetData(c, room)
    PROVE  /\ IsTypedAnswer(o)
           /\ usable /\ row # NoRow /\ "getdata" \notin faults /\ ~Drained(c) =>
                IsCellAnswer(o, c, Given(c), room)
<1>1. \A rc \in {"no_data", "error", "invalid_handle"} : IsTypedAnswer(Nothing(rc))
  <2>1. 0 \in Garbage
    BY BufferHoldsAUnit DEF Garbage
  <2> QED BY <2>1, NothingIsAValue DEF Nothing, Answer, IsTypedAnswer
<1>2. row # NoRow => /\ IsTypedAnswer(CellAnswer(c, room))
                     /\ IsCellAnswer(CellAnswer(c, room), c, Given(c), room)
  BY CellAnswerParts
<1> QED BY <1>1, <1>2 DEF SQLGetData

-----------------------------------------------------------------------------
(* Type correctness, with what a getter's steps need: a column while it is *)
(* on its way, the size the probe found, and nothing returned yet.         *)

WorldOK ==
    /\ asserts \in BOOLEAN /\ totals \in BOOLEAN /\ faults \in Faults
    /\ total \in 0 .. MaxTotal /\ fetched \in 0 .. total /\ usable \in BOOLEAN
    /\ row \in Rows \cup {NoRow}
    /\ answer \in {"none", "true", "false"}

CallOK ==
    /\ call.op \in {"none", "fixed", "varchar", "nvarchar", "binary"}
    /\ call.step \in {"done", "pieces", "whole"} /\ call.again \in BOOLEAN
    /\ call.ind \in Garbage
    /\ InCall => call.column \in Columns
    /\ call.step = "whole" => call.ind \in 1 .. MaxValue

ResultOK ==
    /\ ret \in {"none", "value", "null", "throw"}
    /\ value \in Values
    /\ InCall => ret = "none"
    /\ ret = "value" /\ call.op = "varchar" => Len(value) <= MaxValue

TypeInv == WorldOK /\ DataOK(data) /\ CallOK /\ ResultOK /\ ending \in {"none", "retcode"}

LEMMA TypeInvGivesTypeOK == TypeInv => TypeOK
BY DEF TypeInv, TypeOK, WorldOK, DataOK, CallOK, ResultOK, Values

LEMMA StartsParts ==
    ASSUME NEW op \in {"fixed", "varchar", "nvarchar", "binary"}, NEW c \in Columns,
           DataOK(data), row \in Rows \cup {NoRow}
    PROVE  /\ Starts(op, c).op = op /\ Starts(op, c).column = c
           /\ Starts(op, c).step = "done" /\ Starts(op, c).ind = 0
           /\ Starts(op, c).again \in BOOLEAN /\ 0 \in Garbage
BY BufferHoldsAUnit DEF Starts, ReadBefore, Garbage

(* A getter that answers at once, and a probe that leaves more to do.      *)
LEMMA AnsweringIsTyped ==
    ASSUME WorldOK, DataOK(data), NEW op \in {"fixed", "varchar", "nvarchar", "binary"},
           NEW c \in Columns, call' = Starts(op, c)
    PROVE  CallOK' /\ ~InCall' /\ call'.op = op
<1>1. row \in Rows \cup {NoRow}
  BY DEF WorldOK
<1> QED BY <1>1, StartsParts DEF CallOK, InCall

LEMMA ResizedIsTyped ==
    ASSUME NEW s \in Values, NEW n \in Int, ReturnsResized(s, n)
    PROVE  ret' \in {"value", "throw"} /\ value' \in Values /\ Len(value') <= MaxValue
<1>1. CASE TooLong(n)
  BY <1>1, NothingIsAValue, BufferHoldsAUnit DEF ReturnsResized, ThrowsOut
<1>2. CASE ~TooLong(n)
  <2>1. n \in 0 .. MaxValue
    BY <1>2, BufferHoldsAUnit DEF TooLong
  <2>2. Resize(s, n) \in Values /\ Len(Resize(s, n)) = n
    BY <2>1, ResizeParts
  <2> QED BY <1>2, <2>1, <2>2 DEF ReturnsResized, ReturnsValue
<1> QED BY <1>1, <1>2

LEMMA GarbageIsInt == \A n \in Garbage : n \in Int /\ (n \in Nat \/ n \in {SQL_NULL_DATA, SQL_NO_TOTAL})
BY BufferHoldsAUnit DEF Garbage, SQL_NULL_DATA, SQL_NO_TOTAL

LEMMA FirstIndIsTyped ==
    ASSUME NEW o, IsTypedAnswer(o), NEW ind \in FirstInd(o)
    PROVE  ind \in Garbage /\ ind \in Int
BY GarbageIsInt DEF IsTypedAnswer, FirstInd

LEMMA LaterIndIsTyped ==
    ASSUME NEW o, IsTypedAnswer(o), CallOK
    PROVE  LaterInd(o) \in Garbage /\ LaterInd(o) \in Int
BY GarbageIsInt DEF IsTypedAnswer, LaterInd, CallOK

(* What a getter may do to the state, seen by its types.                   *)
TypedStep == DataOK(data') /\ CallOK' /\ ResultOK' /\ ending' \in {"none", "retcode"}

LEMMA TypedStepSuffices ==
    ASSUME TypeInv, UNCHANGED <<world, cursor, answer>>, TypedStep
    PROVE  TypeInv'
BY DEF TypeInv, WorldOK, world, cursor, DataOK, TypedStep

LEMMA FixedIsTyped ==
    ASSUME TypeInv, NEW c \in FixedColumns, get_fixed(c)
    PROVE  TypedStep
<1>1. c \in Columns /\ WorldOK /\ DataOK(data) /\ row \in Rows \cup {NoRow} /\ ending' \in {"none", "retcode"}
  BY DEF Columns, TypeInv, WorldOK, get_fixed
<1>2. PICK o \in SQLGetData(c, 1) :
        /\ data' = o.data
        /\ \/ Throws(o.rc) /\ ThrowsOut
           \/ /\ ~Throws(o.rc)
              /\ \E ind \in FirstInd(o) :
                  IF ind = SQL_NULL_DATA THEN ReturnsNull
                  ELSE ReturnsValue(Written(o.units, <<Pad>>))
  BY DEF get_fixed
<1>3. IsTypedAnswer(o)
  BY <1>1, DriverAnswers
<1>4. CallOK' /\ ~InCall' /\ call'.op = "fixed"
  BY <1>1, AnsweringIsTyped DEF get_fixed
<1>5. <<Pad>> \in Values
  BY BufferHoldsAUnit DEF Pad, Values
<1>6. Written(o.units, <<Pad>>) \in Values
  BY <1>3, <1>5, WrittenParts DEF IsTypedAnswer
<1>7. ret' \in {"value", "null", "throw"} /\ value' \in Values
  BY <1>2, <1>6, NothingIsAValue DEF ThrowsOut, ReturnsNull, ReturnsValue
<1> QED BY <1>1, <1>2, <1>3, <1>4, <1>7 DEF TypedStep, ResultOK, InCall, IsTypedAnswer

LEMMA SizedIsTyped ==
    ASSUME TypeInv, NEW c \in TextColumns, get_sized_varchar(c)
    PROVE  TypedStep
<1>1. /\ c \in Columns /\ WorldOK /\ DataOK(data) /\ row \in Rows \cup {NoRow}
      /\ ending = "none" /\ ColumnSize[c] \in Nat
  BY CellsAreLengths DEF Columns, TypeInv, WorldOK, get_sized_varchar, Idle
<1>2. PICK o \in SQLGetData(c, ColumnSize[c]) :
        /\ data' = o.data
        /\ \/ /\ asserts /\ o.rc # "success"
              /\ ending' = "retcode" /\ ret' = "none" /\ value' = << >>
           \/ /\ ~asserts \/ o.rc = "success"
              /\ \E ind \in FirstInd(o) :
                  ReturnsResized(Resize(o.units, ColumnSize[c] + 1), ind)
              /\ UNCHANGED ending
  BY DEF get_sized_varchar
<1>3. IsTypedAnswer(o)
  BY <1>1, DriverAnswers
<1>4. CallOK' /\ ~InCall' /\ call'.op = "varchar"
  BY <1>1, AnsweringIsTyped DEF get_sized_varchar
<1>5. Resize(o.units, ColumnSize[c] + 1) \in Values
  BY <1>1, <1>3, ResizeParts DEF IsTypedAnswer
<1>6. CASE asserts /\ o.rc # "success" /\ ending' = "retcode" /\ ret' = "none" /\ value' = << >>
  BY <1>2, <1>3, <1>4, <1>6, NothingIsAValue DEF TypedStep, ResultOK, InCall, IsTypedAnswer
<1>7. ASSUME NEW ind \in FirstInd(o), ReturnsResized(Resize(o.units, ColumnSize[c] + 1), ind),
             UNCHANGED ending
      PROVE  TypedStep
  <2>1. ret' \in {"value", "throw"} /\ value' \in Values /\ Len(value') <= MaxValue
    BY <1>3, <1>5, <1>7, FirstIndIsTyped, ResizedIsTyped
  <2> QED BY <1>1, <1>2, <1>3, <1>4, <1>7, <2>1 DEF TypedStep, ResultOK, InCall, IsTypedAnswer
<1> QED BY <1>2, <1>6, <1>7

LEMMA ProbeIsTyped ==
    ASSUME TypeInv, NEW op \in {"varchar", "binary"}, NEW c \in Columns, Probe(op, c)
    PROVE  TypedStep
<1>1. WorldOK /\ DataOK(data) /\ row \in Rows \cup {NoRow} /\ ending' \in {"none", "retcode"}
  BY DEF TypeInv, WorldOK, Probe
<1>2. PICK o \in SQLGetData(c, 0) :
        /\ data' = o.data
        /\ \/ Throws(o.rc) /\ ThrowsOut /\ call' = Starts(op, c)
           \/ /\ ~Throws(o.rc)
              /\ \E ind \in FirstInd(o) :
                  \/ ind = SQL_NULL_DATA /\ ReturnsNull /\ call' = Starts(op, c)
                  \/ ind = 0 /\ ReturnsValue(<< >>) /\ call' = Starts(op, c)
                  \/ /\ ind \in {SQL_NO_TOTAL} \cup 1 .. MaxValue
                     /\ ret' = "none"
                     /\ value' = << >>
                     /\ call' = [Starts(op, c) EXCEPT
                            !.step = IF ind = SQL_NO_TOTAL THEN "pieces" ELSE "whole",
                            !.ind = ind]
                  \/ ind > MaxValue /\ ThrowsOut /\ call' = Starts(op, c)
  BY DEF Probe
<1>3. IsTypedAnswer(o)
  BY <1>1, DriverAnswers
<1>4. CASE call' = Starts(op, c)
  <2>1. CallOK' /\ ~InCall'
    BY <1>1, <1>4, AnsweringIsTyped
  <2>2. ret' \in {"none", "value", "null", "throw"} /\ value' = << >>
    BY <1>2 DEF ThrowsOut, ReturnsNull, ReturnsValue
  <2>3. value' \in Values /\ Len(value') <= MaxValue
    BY <2>2, NothingIsAValue, BufferHoldsAUnit
  <2>4. ResultOK'
    BY <2>1, <2>2, <2>3 DEF ResultOK
  <2>5. DataOK(data')
    BY <1>2, <1>3 DEF IsTypedAnswer
  <2> QED BY <1>1, <2>1, <2>4, <2>5 DEF TypedStep
<1>5. ASSUME NEW ind \in {SQL_NO_TOTAL} \cup 1 .. MaxValue, ret' = "none", value' = << >>,
             call' = [Starts(op, c) EXCEPT
                        !.step = IF ind = SQL_NO_TOTAL THEN "pieces" ELSE "whole", !.ind = ind]
      PROVE  TypedStep
  <2>1. Starts(op, c).again \in BOOLEAN
    BY <1>1, StartsParts
  <2>2. call' = [op |-> op, column |-> c, again |-> Starts(op, c).again, ind |-> ind,
                 step |-> IF ind = SQL_NO_TOTAL THEN "pieces" ELSE "whole"]
    BY <1>5 DEF Starts
  <2>3. ind \in Garbage /\ (ind # SQL_NO_TOTAL => ind \in 1 .. MaxValue)
    BY <1>5, BufferHoldsAUnit DEF Garbage
  <2>4. CallOK'
    BY <2>1, <2>2, <2>3 DEF CallOK, InCall
  <2> QED BY <1>1, <1>2, <1>3, <1>5, <2>4, NothingIsAValue
          DEF TypedStep, ResultOK, IsTypedAnswer
<1> QED BY <1>2, <1>4, <1>5

LEMMA TextPieceParts ==
    ASSUME NEW units \in Values, NEW n \in Int, value \in Values
    PROVE  LET s == Resize(Written(units, Resize(value, Buffer)),
                           IF n < 0 THEN Buffer - 1 ELSE Smaller(Buffer - 1, n))
           IN  s \in Values /\ Len(s) <= MaxValue
<1> DEFINE size == IF n < 0 THEN Buffer - 1 ELSE Smaller(Buffer - 1, n)
           w == Written(units, Resize(value, Buffer))
<1>1. size \in Nat /\ size <= MaxValue /\ Buffer \in Nat
  BY BufferHoldsAUnit DEF Smaller
<1>2. w \in Values
  BY <1>1, ResizeParts, WrittenParts
<1> HIDE DEF size, w
<1>3. Resize(w, size) \in Values /\ Len(Resize(w, size)) <= MaxValue
  BY <1>1, <1>2, ResizeParts
<1> QED BY <1>3 DEF size, w

LEMMA PieceIsTyped ==
    ASSUME TypeInv, NextPiece
    PROVE  TypedStep
<1>1. /\ WorldOK /\ DataOK(data) /\ CallOK /\ ResultOK /\ row \in Rows \cup {NoRow}
      /\ ending = "none" /\ UNCHANGED ending /\ call.step = "pieces"
      /\ call.column \in Columns /\ ret = "none" /\ value \in Values
      /\ Buffer \in Nat /\ Buffer - 1 \in Nat
  BY BufferHoldsAUnit DEF TypeInv, WorldOK, NextPiece, InCall, CallOK, ResultOK
<1> DEFINE text == call.op = "varchar"
           piece(o, ind) == IF text THEN TextPiece(o, ind) ELSE BinaryPiece(o, ind)
           room == IF text THEN Buffer - 1 ELSE Buffer
           throws(o) == Throws(o.rc) \/ (~text /\ LaterInd(o) = SQL_NULL_DATA)
<1>2. PICK o \in SQLGetData(call.column, room) :
        /\ data' = o.data
        /\ \/ throws(o) /\ Ends(ThrowsOut)
           \/ ~throws(o) /\ IsLastPiece(o.rc) /\ Ends(ReturnsValue(piece(o, LaterInd(o))))
           \/ /\ ~throws(o) /\ ~IsLastPiece(o.rc)
              /\ value' = piece(o, LaterInd(o)) /\ UNCHANGED ret
              /\ call' = [call EXCEPT !.ind = LaterInd(o)]
  BY DEF NextPiece
<1>3. IsTypedAnswer(o)
  <2>1. room \in Nat
    BY <1>1
  <2> HIDE DEF room
  <2> QED BY <1>1, <1>2, <2>1, DriverAnswers
<1> DEFINE ind == LaterInd(o)
<1>4. ind \in Garbage /\ ind \in Int /\ (ind \in Nat \/ ind \in {SQL_NULL_DATA, SQL_NO_TOTAL})
  BY <1>1, <1>3, LaterIndIsTyped, GarbageIsInt
<1>5. ~throws(o) => piece(o, ind) \in Values /\ (text => Len(piece(o, ind)) <= MaxValue)
  <2> SUFFICES ASSUME ~throws(o) PROVE piece(o, ind) \in Values /\ (text => Len(piece(o, ind)) <= MaxValue)
    OBVIOUS
  <2>1. o.units \in Values
    BY <1>3 DEF IsTypedAnswer
  <2>2. CASE text
    BY <1>1, <1>4, <2>1, <2>2, TextPieceParts DEF TextPiece
  <2>3. CASE ~text
    <3>1. PieceSize(ind) \in Nat
      BY <1>1, <1>4, <2>3 DEF PieceSize
    <3>2. Resize(o.units, PieceSize(ind)) \in Values
      BY <2>1, <3>1, ResizeParts
    <3>3. value \o Resize(o.units, PieceSize(ind)) \in Values
      BY <1>1, <3>2, ConcatProperties DEF Values
    <3> QED BY <2>3, <3>3 DEF BinaryPiece
  <2> QED BY <2>2, <2>3
<1>6. /\ call'.op = call.op /\ call'.column = call.column /\ call'.again = call.again
      /\ \/ call'.step = "done" /\ call'.ind = call.ind /\ ret' \in {"value", "throw"}
         \/ call'.step = call.step /\ call'.ind = ind /\ ret' = "none"
      /\ value' \in Values /\ (text /\ ret' = "value" => Len(value') <= MaxValue)
  <2> HIDE DEF text, piece, ind, throws
  <2>1. CASE throws(o) /\ Ends(ThrowsOut)
    BY <1>1, <2>1, NothingIsAValue DEF Ends, ThrowsOut, CallOK
  <2>2. CASE ~throws(o) /\ Ends(ReturnsValue(piece(o, ind)))
    BY <1>1, <1>5, <2>2 DEF Ends, ReturnsValue, CallOK
  <2>3. CASE /\ ~throws(o) /\ value' = piece(o, ind) /\ UNCHANGED ret
             /\ call' = [call EXCEPT !.ind = ind]
    BY <1>1, <1>5, <2>3 DEF CallOK
  <2> QED BY <1>2, <2>1, <2>2, <2>3 DEF ind
<1> HIDE DEF text, piece, ind, throws
<1>7. CallOK'
  BY <1>1, <1>4, <1>6 DEF CallOK, InCall
<1>8. ResultOK'
  BY <1>1, <1>6 DEF ResultOK, InCall, text
<1>9. DataOK(data')
  BY <1>2, <1>3 DEF IsTypedAnswer
<1> QED BY <1>1, <1>7, <1>8, <1>9 DEF TypedStep

LEMMA WholeIsTyped ==
    ASSUME TypeInv, ReadWhole
    PROVE  TypedStep
<1>1. /\ WorldOK /\ DataOK(data) /\ CallOK /\ ResultOK /\ row \in Rows \cup {NoRow}
      /\ ending = "none" /\ UNCHANGED ending /\ call.step = "whole"
      /\ call.column \in Columns /\ call.ind \in 1 .. MaxValue /\ call.ind \in Nat
  BY BufferHoldsAUnit DEF TypeInv, WorldOK, ReadWhole, InCall, CallOK
<1> DEFINE filled(o) == Written(o.units, Resize(<< >>, call.ind))
<1>2. PICK o \in SQLGetData(call.column, call.ind) :
        /\ data' = o.data
        /\ \/ Throws(o.rc) /\ Ends(ThrowsOut)
           \/ /\ ~Throws(o.rc) /\ call.op = "varchar"
              /\ Ends(ReturnsResized(filled(o), LaterInd(o)))
           \/ /\ ~Throws(o.rc) /\ call.op = "binary"
              /\ Ends(ReturnsValue(filled(o)))
  BY DEF ReadWhole
<1>3. IsTypedAnswer(o)
  BY <1>1, DriverAnswers
<1>4. filled(o) \in Values
  BY <1>1, <1>3, NothingIsAValue, ResizeParts, WrittenParts DEF IsTypedAnswer
<1> HIDE DEF filled
<1>5. LaterInd(o) \in Int
  BY <1>1, <1>3, LaterIndIsTyped
<1>6. /\ call' = [call EXCEPT !.step = "done"] /\ ret' \in {"value", "throw"} /\ value' \in Values
      /\ call.op = "varchar" /\ ret' = "value" => Len(value') <= MaxValue
  <2>1. CASE Ends(ThrowsOut)
    BY <2>1, NothingIsAValue DEF Ends, ThrowsOut
  <2>2. CASE Ends(ReturnsResized(filled(o), LaterInd(o)))
    BY <1>4, <1>5, <2>2, ResizedIsTyped DEF Ends
  <2>3. CASE call.op = "binary" /\ Ends(ReturnsValue(filled(o)))
    BY <1>4, <2>3 DEF Ends, ReturnsValue
  <2> QED BY <1>2, <2>1, <2>2, <2>3
<1>7. CallOK'
  BY <1>1, <1>6 DEF CallOK, InCall
<1>8. ResultOK'
  BY <1>1, <1>6 DEF ResultOK, InCall, CallOK
<1>9. DataOK(data')
  BY <1>2, <1>3 DEF IsTypedAnswer
<1> QED BY <1>1, <1>7, <1>8, <1>9 DEF TypedStep

LEMMA GettingIsTyped ==
    ASSUME TypeInv, Getting
    PROVE  TypeInv'
<1>1. ASSUME NEW c \in TextColumns, get_nvarchar(c) PROVE TypedStep
  <2>1. c \in Columns /\ WorldOK /\ DataOK(data) /\ UNCHANGED <<data, ending>>
    BY <1>1 DEF Columns, TypeInv, WorldOK, get_nvarchar
  <2>2. CallOK' /\ ~InCall' /\ call'.op = "nvarchar"
    BY <1>1, <2>1, AnsweringIsTyped DEF get_nvarchar
  <2>3. ResultOK'
    BY <1>1, <2>2, NothingIsAValue DEF get_nvarchar, ThrowsOut, ResultOK
  <2> QED BY <2>1, <2>2, <2>3 DEF TypedStep, TypeInv
<1>2. ASSUME NEW c \in TextColumns, get_varchar(c) PROVE TypedStep
  BY <1>2, SizedIsTyped, ProbeIsTyped DEF get_varchar, Columns
<1>3. ASSUME NEW c \in BinaryColumns, get_binary(c) PROVE TypedStep
  BY <1>3, ProbeIsTyped DEF get_binary, Columns
<1>4. TypedStep
  BY <1>1, <1>2, <1>3, FixedIsTyped, PieceIsTyped, WholeIsTyped DEF Getting
<1> QED BY <1>4, GettersLeaveTheCursor, TypedStepSuffices

LEMMA InitIsTyped == Init => TypeInv
<1> SUFFICES ASSUME Init PROVE TypeInv
  OBVIOUS
<1>1. WorldOK /\ ending \in {"none", "retcode"}
  BY StandardBuildsAreBoolean DEF Init, WorldOK
<1>2. DataOK(data)
  BY DEF Init, DataOK, Untouched
<1>3. CallOK
  BY BufferHoldsAUnit DEF Init, CallOK, NoCall, InCall, Garbage
<1>4. ResultOK
  BY NothingIsAValue DEF Init, ResultOK
<1> QED BY <1>1, <1>2, <1>3, <1>4 DEF TypeInv

LEMMA NextIsTyped == TypeInv /\ [Next]_vars => TypeInv'
<1> SUFFICES ASSUME TypeInv, [Next]_vars PROVE TypeInv'
  OBVIOUS
<1>1. ASSUME call' = NoCall, ret' = "none", value' = << >> PROVE CallOK' /\ ResultOK'
  BY <1>1, NothingIsAValue, BufferHoldsAUnit DEF CallOK, NoCall, InCall, Garbage, ResultOK
<1>2. CASE next
  <2>1. PICK rc \in {"success", "info", "no_data", "error", "invalid_handle"} :
          /\ SQLFetch(rc)
          /\ answer' = IF NextAnswer(rc) THEN "true" ELSE "false"
    BY <1>2 DEF next
  <2>2. fetched' \in 0 .. total /\ row' \in Rows \cup {NoRow}
    BY <2>1 DEF SQLFetch, TypeInv, WorldOK
  <2>3. WorldOK'
    BY <1>2, <2>1, <2>2 DEF next, world, TypeInv, WorldOK
  <2>4. DataOK(data)'
    BY <1>2 DEF next, Untouched, DataOK
  <2> QED BY <1>1, <1>2, <2>3, <2>4 DEF next, TypeInv
<1>3. CASE ConnectionDisconnects
  <2>1. WorldOK' /\ DataOK(data)'
    BY <1>3 DEF ConnectionDisconnects, world, TypeInv, WorldOK, DataOK
  <2> QED BY <1>1, <1>3, <2>1 DEF ConnectionDisconnects, TypeInv
<1>4. CASE UNCHANGED vars
  BY <1>4 DEF vars, world, cursor, TypeInv, WorldOK, DataOK, CallOK, ResultOK, InCall
<1> QED BY <1>2, <1>3, <1>4, GettingIsTyped DEF Next, Getting

(* Every variable keeps its type, in every reachable state: no more than a *)
(* cell is ever handed out of it, no text outgrows a string, and a getter  *)
(* that is on its way has returned nothing.                                *)
THEOREM GettersAreTyped == Spec => []TypeOK
BY InitIsTyped, NextIsTyped, TypeInvGivesTypeOK, PTL DEF Spec

-----------------------------------------------------------------------------
(* What a getter returns. A call found by its probe, or by its first       *)
(* piece, to be longer keeps how far it has come.                          *)

ReadResult == IsTheCell \/ NullOfSizedColumn \/ WiderThanItsColumn \/ LongText

(* A cell read in one call after the probe: nothing of it was handed out.  *)
WholeInv ==
    /\ call.op \in {"varchar", "binary"} /\ Cell \in 1 .. MaxValue /\ call.ind = Cell
    /\ data.column = call.column /\ data.given = 0 /\ ~data.drained

(* A cell read in pieces: a binary holds what was handed out, a text that  *)
(* fits in the buffer has had no piece yet.                                *)
PiecesInv ==
    /\ call.op \in {"varchar", "binary"} /\ ~totals /\ ~Sized /\ Cell \in 1 .. MaxValue
    /\ call.op = "binary" \/ Cell <= Buffer - 1 =>
        data.column = call.column /\ ~data.drained
    /\ call.op = "binary" =>
        data.given \in 0 .. Cell - 1 /\ value = Units(1, data.given)
    /\ call.op = "varchar" /\ Cell <= Buffer - 1 => data.given = 0 /\ value = << >>

ReadInv ==
    FirstRead =>
        /\ ret # "none" => ReadResult
        /\ call.step = "whole" => WholeInv
        /\ call.step = "pieces" => PiecesInv

(* The units of a cell in the strings and vectors of the getters.          *)
LEMMA CutCell ==
    ASSUME NEW s \in Values, NEW n \in 0 .. MaxValue, n <= Len(s), \A i \in 1 .. n : s[i] = i
    PROVE  Resize(s, n) = Units(1, n)
<1>1. n \in Nat
  BY BufferHoldsAUnit
<1>2. /\ Resize(s, n) \in Values /\ Len(Resize(s, n)) = n
      /\ \A i \in 1 .. n : Resize(s, n)[i] = IF i <= Len(s) THEN s[i] ELSE Pad
  BY <1>1, ResizeParts
<1>3. Len(s) \in Nat
  BY LenProperties DEF Values
<1>4. \A i \in 1 .. n : Resize(s, n)[i] = i
  BY <1>1, <1>2, <1>3
<1> QED BY <1>2, <1>4, SameUnits

LEMMA CellUnits ==
    ASSUME NEW n \in 0 .. MaxValue
    PROVE  /\ n \in Nat /\ Units(1, n) \in Values /\ Len(Units(1, n)) = n
           /\ \A i \in 1 .. n : Units(1, n)[i] = i
<1>1. n \in Nat /\ 1 <= n + 1 /\ n <= MaxValue /\ n - 1 + 1 = n
  BY BufferHoldsAUnit
<1>2. /\ Units(1, n) \in Values /\ Len(Units(1, n)) = n - 1 + 1
      /\ \A i \in 1 .. n - 1 + 1 : Units(1, n)[i] = 1 + i - 1
  BY <1>1, UnitsParts
<1> QED BY <1>1, <1>2

LEMMA WrittenCell ==
    ASSUME NEW n \in 0 .. MaxValue, NEW s \in Values, Len(s) <= n
    PROVE  Written(Units(1, n), s) = Units(1, n)
<1>1. /\ n \in Nat /\ Units(1, n) \in Values /\ Len(Units(1, n)) = n
      /\ \A i \in 1 .. n : Units(1, n)[i] = i
  BY CellUnits
<1> DEFINE w == Written(Units(1, n), s)
<1>2. /\ w \in Values /\ Len(w) = IF Len(Units(1, n)) > Len(s) THEN Len(Units(1, n)) ELSE Len(s)
      /\ \A i \in 1 .. Len(w) : w[i] = IF i <= Len(Units(1, n)) THEN Units(1, n)[i] ELSE s[i]
  BY <1>1, WrittenParts
<1> HIDE DEF w
<1>3. Len(s) \in Nat
  BY LenProperties DEF Values
<1>4. Len(w) = n /\ \A i \in 1 .. n : w[i] = i
  BY <1>1, <1>2, <1>3
<1>5. w = Units(1, n)
  BY <1>2, <1>4, SameUnits
<1> QED BY <1>5 DEF w

(* A longer buffer, cut to the cell afterwards.                            *)
LEMMA CutWrittenCell ==
    ASSUME NEW n \in 0 .. MaxValue, NEW s \in Values
    PROVE  Resize(Written(Units(1, n), s), n) = Units(1, n)
<1>1. /\ n \in Nat /\ Units(1, n) \in Values /\ Len(Units(1, n)) = n
      /\ \A i \in 1 .. n : Units(1, n)[i] = i
  BY CellUnits
<1> DEFINE w == Written(Units(1, n), s)
<1>2. /\ w \in Values /\ Len(w) = IF Len(Units(1, n)) > Len(s) THEN Len(Units(1, n)) ELSE Len(s)
      /\ \A i \in 1 .. Len(w) : w[i] = IF i <= Len(Units(1, n)) THEN Units(1, n)[i] ELSE s[i]
  BY <1>1, WrittenParts
<1> HIDE DEF w
<1>3. Len(s) \in Nat
  BY LenProperties DEF Values
<1>4. n <= Len(w) /\ \A i \in 1 .. n : w[i] = i
  BY <1>1, <1>2, <1>3
<1>5. Resize(w, n) = Units(1, n)
  BY <1>2, <1>4, CutCell
<1> QED BY <1>5 DEF w

LEMMA CutResizedCell ==
    ASSUME NEW n \in 0 .. MaxValue, NEW m \in Nat, n <= m
    PROVE  Resize(Resize(Units(1, n), m), n) = Units(1, n)
<1>1. /\ n \in Nat /\ Units(1, n) \in Values /\ Len(Units(1, n)) = n
      /\ \A i \in 1 .. n : Units(1, n)[i] = i
  BY CellUnits
<1> DEFINE w == Resize(Units(1, n), m)
<1>2. /\ w \in Values /\ Len(w) = m
      /\ \A i \in 1 .. m : w[i] = IF i <= Len(Units(1, n)) THEN Units(1, n)[i] ELSE Pad
  BY <1>1, ResizeParts
<1> HIDE DEF w
<1>3. n <= Len(w) /\ \A i \in 1 .. n : w[i] = i
  BY <1>1, <1>2
<1>4. Resize(w, n) = Units(1, n)
  BY <1>2, <1>3, CutCell
<1> QED BY <1>4 DEF w

(* The next piece goes behind the ones before it.                          *)
LEMMA PieceFollows ==
    ASSUME NEW g \in Nat, NEW k \in Nat, g + k <= MaxValue
    PROVE  Units(1, g) \o Resize(Units(g + 1, g + k), k) = Units(1, g + k)
<1>1. g \in 0 .. MaxValue /\ g + k \in 0 .. MaxValue /\ MaxValue \in Nat
  BY BufferHoldsAUnit
<1>2. /\ Units(1, g) \in Values /\ Len(Units(1, g)) = g
      /\ \A i \in 1 .. g : Units(1, g)[i] = i
  BY <1>1, CellUnits
<1> DEFINE u == Units(g + 1, g + k)
<1>3. u \in Values /\ Len(u) = k /\ \A i \in 1 .. k : u[i] = g + i
  <2>1. g + 1 \in Nat \ {0} /\ g + k \in Nat /\ g + 1 <= g + k + 1 /\ g + k - (g + 1) + 1 = k
    OBVIOUS
  <2>2. /\ u \in Values /\ Len(u) = g + k - (g + 1) + 1
        /\ \A i \in 1 .. g + k - (g + 1) + 1 : u[i] = g + 1 + i - 1
    BY <2>1, UnitsParts
  <2> HIDE DEF u
  <2> QED BY <2>1, <2>2
<1> HIDE DEF u
<1> DEFINE p == Resize(u, k)
<1>4. p \in Values /\ Len(p) = k /\ \A i \in 1 .. k : p[i] = g + i
  <2>1. /\ p \in Values /\ Len(p) = k
        /\ \A i \in 1 .. k : p[i] = IF i <= Len(u) THEN u[i] ELSE Pad
    BY <1>3, ResizeParts
  <2> HIDE DEF p
  <2> QED BY <1>3, <2>1
<1> HIDE DEF p
<1> DEFINE w == Units(1, g) \o p
<1>5. /\ w \in Values /\ Len(w) = g + k
      /\ \A i \in 1 .. g + k : w[i] = IF i <= g THEN Units(1, g)[i] ELSE p[i - g]
  <2>1. /\ w \in Values /\ Len(w) = Len(Units(1, g)) + Len(p)
        /\ \A i \in 1 .. Len(Units(1, g)) + Len(p) :
             w[i] = IF i <= Len(Units(1, g)) THEN Units(1, g)[i] ELSE p[i - Len(Units(1, g))]
    BY <1>2, <1>4, ConcatProperties, Zenon DEF Values
  <2> HIDE DEF w
  <2> QED BY <1>2, <1>4, <2>1
<1> HIDE DEF w
<1>6. \A i \in 1 .. g + k : w[i] = i
  <2> SUFFICES ASSUME NEW i \in 1 .. g + k PROVE w[i] = i
    OBVIOUS
  <2>1. CASE i <= g
    BY <1>2, <1>5, <2>1
  <2>2. CASE ~(i <= g)
    <3>1. i - g \in 1 .. k /\ g + (i - g) = i
      BY <2>2
    <3> QED BY <1>4, <1>5, <2>2, <3>1
  <2> QED BY <2>1, <2>2
<1>7. w = Units(1, g + k)
  BY <1>1, <1>5, <1>6, SameUnits
<1> QED BY <1>7 DEF w, p, u

(* The first call for a column of the row, when no SQLGetData fails.       *)
FirstCall(c) == usable /\ row # NoRow /\ "getdata" \notin faults /\ ~ReadBefore(c)

LEMMA FirstAnswer ==
    ASSUME TypeInv, NEW c \in Columns, FirstCall(c), NEW room \in Nat,
           NEW o \in SQLGetData(c, room)
    PROVE  /\ row \in Rows /\ (row[c] = SQL_NULL_DATA \/ row[c] \in 0 .. MaxValue)
           /\ IsCellAnswer(o, c, 0, room) /\ ~Throws(o.rc)
<1>1. row \in Rows /\ DataOK(data)
  BY DEF TypeInv, WorldOK, FirstCall
<1>2. row[c] = SQL_NULL_DATA \/ row[c] \in 0 .. MaxValue
  BY <1>1, CellsAreCells
<1>3. Given(c) = 0 /\ ~Drained(c)
  BY <1>1, GivenParts DEF FirstCall, ReadBefore
<1>4. IsCellAnswer(o, c, 0, room)
  BY <1>1, <1>3, DriverAnswers DEF FirstCall
<1> QED BY <1>1, <1>2, <1>4 DEF IsCellAnswer, Throws

(* A getter that starts leads to a first read by a first call.             *)
LEMMA FirstReadStarts ==
    ASSUME NEW op, NEW c, UNCHANGED <<world, cursor>>, FirstRead',
           call'.again = Starts(op, c).again
    PROVE  FirstCall(c)
BY DEF FirstRead, FirstCall, world, cursor, Starts

LEMMA FixedReads ==
    ASSUME TypeInv, NEW c \in FixedColumns, get_fixed(c)
    PROVE  ReadInv'
<1> SUFFICES ASSUME FirstRead' PROVE ReadInv'
  BY DEF ReadInv
<1>1. c \in Columns /\ UNCHANGED row /\ call' = Starts("fixed", c) /\ FirstCall(c)
  BY FirstReadStarts DEF Columns, get_fixed, Getter, cursor
<1>2. PICK o \in SQLGetData(c, 1) :
        \/ Throws(o.rc) /\ ThrowsOut
        \/ /\ ~Throws(o.rc)
           /\ \E ind \in FirstInd(o) :
               IF ind = SQL_NULL_DATA THEN ReturnsNull
               ELSE ReturnsValue(Written(o.units, <<Pad>>))
  BY DEF get_fixed
<1>3. row \in Rows /\ IsCellAnswer(o, c, 0, 1) /\ ~Throws(o.rc)
  BY <1>1, FirstAnswer
<1>4. row[c] \in {SQL_NULL_DATA, 1} /\ (row[c] # SQL_NULL_DATA => 1 \in 0 .. MaxValue)
  BY <1>1, <1>3, CellsAreLengths, CellsAreCells
<1>5. Cell' = row[c] /\ call'.step = "done"
  BY <1>1 DEF Cell, Starts
<1>6. CASE row[c] = SQL_NULL_DATA
  <2>1. ~o.unset /\ o.ind = SQL_NULL_DATA
    BY <1>3, <1>6 DEF IsCellAnswer
  <2>2. ReturnsNull
    BY <1>2, <1>3, <2>1 DEF FirstInd
  <2> QED BY <1>5, <1>6, <2>2 DEF ReadInv, ReadResult, IsTheCell, ReturnsNull
<1>7. CASE row[c] = 1 /\ row[c] # SQL_NULL_DATA
  <2>1. ~o.unset /\ o.ind = 1 /\ o.units = Units(1, 1) /\ 1 # SQL_NULL_DATA
    BY <1>3, <1>7 DEF IsCellAnswer
  <2>2. ReturnsValue(Written(Units(1, 1), <<Pad>>))
    BY <1>2, <1>3, <2>1 DEF FirstInd
  <2>3. <<Pad>> \in Values /\ Len(<<Pad>>) <= 1
    BY BufferHoldsAUnit DEF Pad, Values
  <2>4. Written(Units(1, 1), <<Pad>>) = Units(1, 1)
    BY <1>4, <1>7, <2>3, WrittenCell
  <2> QED BY <1>5, <1>7, <2>2, <2>4 DEF ReadInv, ReadResult, IsTheCell, ReturnsValue
<1> QED BY <1>4, <1>6, <1>7 DEF SQL_NULL_DATA

LEMMA SizedReads ==
    ASSUME TypeInv, NEW c \in TextColumns, get_sized_varchar(c)
    PROVE  ReadInv'
<1> SUFFICES ASSUME FirstRead' PROVE ReadInv'
  BY DEF ReadInv
<1> DEFINE size == ColumnSize[c]
<1>1. /\ c \in Columns /\ UNCHANGED row /\ call' = Starts("varchar", c) /\ FirstCall(c)
      /\ size \in Nat /\ size # 0
  BY FirstReadStarts, CellsAreLengths DEF Columns, get_sized_varchar, Getter, cursor
<1>2. PICK o \in SQLGetData(c, size) :
        \/ /\ asserts /\ o.rc # "success"
           /\ ending' = "retcode" /\ ret' = "none" /\ value' = << >>
        \/ \E ind \in FirstInd(o) : ReturnsResized(Resize(o.units, size + 1), ind)
  BY DEF get_sized_varchar
<1>3. /\ row[c] = SQL_NULL_DATA \/ row[c] \in 0 .. MaxValue
      /\ IsCellAnswer(o, c, 0, size)
  <2> HIDE DEF size
  <2> QED BY <1>1, <1>2, FirstAnswer
<1>4. Cell' = row[c] /\ call'.step = "done" /\ Sized' /\ ColumnSize[call'.column] = size
  BY <1>1 DEF Cell, Starts, Sized
<1> HIDE DEF size
<1>5. CASE row[c] = SQL_NULL_DATA
  BY <1>4, <1>5 DEF ReadInv, ReadResult, NullOfSizedColumn
<1>6. CASE row[c] > size
  BY <1>4, <1>6 DEF ReadInv, ReadResult, WiderThanItsColumn, size
<1>7. CASE row[c] \in 0 .. MaxValue /\ row[c] <= size
  <2>1. row[c] # SQL_NULL_DATA /\ row[c] - 0 <= size /\ row[c] - 0 = row[c] /\ row[c] \in Nat
    BY <1>1, <1>7, BufferHoldsAUnit DEF SQL_NULL_DATA
  <2>2. o.rc = "success" /\ ~o.unset /\ o.ind = row[c] /\ o.units = Units(1, row[c])
    BY <1>3, <2>1 DEF IsCellAnswer
  <2>3. CASE ret' = "none"
    BY <1>4, <2>3 DEF ReadInv
  <2>4. CASE ReturnsResized(Resize(Units(1, row[c]), size + 1), row[c])
    <3>1. size + 1 \in Nat /\ row[c] <= size + 1 /\ ~TooLong(row[c])
      BY <1>1, <1>7, <2>1, BufferHoldsAUnit DEF TooLong
    <3>2. Resize(Resize(Units(1, row[c]), size + 1), row[c]) = Units(1, row[c])
      BY <1>7, <3>1, CutResizedCell
    <3> QED BY <1>4, <2>1, <2>4, <3>1, <3>2
            DEF ReadInv, ReadResult, IsTheCell, ReturnsResized, ReturnsValue
  <2> QED BY <1>2, <2>2, <2>3, <2>4 DEF FirstInd
<1>8. row[c] \in 0 .. MaxValue => row[c] > size \/ row[c] <= size
  BY <1>1, BufferHoldsAUnit
<1> QED BY <1>3, <1>5, <1>6, <1>7, <1>8

(* What a probe leaves to be done.                                         *)
LEMMA StartsMore ==
    ASSUME NEW op, NEW c, NEW ind,
           call' = [Starts(op, c) EXCEPT
                        !.step = IF ind = SQL_NO_TOTAL THEN "pieces" ELSE "whole", !.ind = ind]
    PROVE  call' = [op |-> op, column |-> c, again |-> Starts(op, c).again, ind |-> ind,
                    step |-> IF ind = SQL_NO_TOTAL THEN "pieces" ELSE "whole"]
BY DEF Starts

LEMMA ProbeReads ==
    ASSUME TypeInv, NEW op \in {"varchar", "binary"}, NEW c \in Columns, Probe(op, c),
           op = "varchar" => ColumnSize[c] = 0
    PROVE  ReadInv'
<1> SUFFICES ASSUME FirstRead' PROVE ReadInv'
  BY DEF ReadInv
<1> DEFINE more(ind) == [Starts(op, c) EXCEPT
                            !.step = IF ind = SQL_NO_TOTAL THEN "pieces" ELSE "whole",
                            !.ind = ind]
<1>1. PICK o \in SQLGetData(c, 0) :
        /\ data' = o.data
        /\ \/ Throws(o.rc) /\ ThrowsOut /\ call' = Starts(op, c)
           \/ /\ ~Throws(o.rc)
              /\ \E ind \in FirstInd(o) :
                  \/ ind = SQL_NULL_DATA /\ ReturnsNull /\ call' = Starts(op, c)
                  \/ ind = 0 /\ ReturnsValue(<< >>) /\ call' = Starts(op, c)
                  \/ /\ ind \in {SQL_NO_TOTAL} \cup 1 .. MaxValue
                     /\ ret' = "none"
                     /\ value' = << >>
                     /\ call' = more(ind)
                  \/ ind > MaxValue /\ ThrowsOut /\ call' = Starts(op, c)
  BY DEF Probe
<1>2. \A ind : call' = more(ind) =>
        call' = [op |-> op, column |-> c, again |-> Starts(op, c).again, ind |-> ind,
                 step |-> IF ind = SQL_NO_TOTAL THEN "pieces" ELSE "whole"]
  BY StartsMore
<1> HIDE DEF more
<1>3. call'.again = Starts(op, c).again /\ call'.column = c /\ call'.op = op
  BY <1>1, <1>2 DEF Starts
<1>4. UNCHANGED <<row, totals>> /\ FirstCall(c)
  BY <1>3, FirstReadStarts DEF Probe, Getter, world, cursor
<1>5. /\ row[c] = SQL_NULL_DATA \/ row[c] \in 0 .. MaxValue
      /\ IsCellAnswer(o, c, 0, 0) /\ ~Throws(o.rc)
  BY <1>1, <1>4, FirstAnswer
<1>6. Cell' = row[c] /\ ~Sized' /\ MaxValue \in Nat
  BY <1>3, <1>4, BufferHoldsAUnit DEF Cell, Sized
<1>7. CASE row[c] = SQL_NULL_DATA
  <2>1. ~o.unset /\ o.ind = SQL_NULL_DATA
    BY <1>5, <1>7 DEF IsCellAnswer
  <2>2. ReturnsNull /\ call' = Starts(op, c)
    BY <1>1, <1>5, <1>6, <2>1 DEF FirstInd, SQL_NULL_DATA, SQL_NO_TOTAL
  <2> QED BY <1>6, <1>7, <2>2 DEF ReadInv, ReadResult, IsTheCell, ReturnsNull, Starts
<1>8. CASE row[c] = 0
  <2>1. ~o.unset /\ o.ind = 0
    BY <1>5, <1>8 DEF IsCellAnswer, SQL_NULL_DATA
  <2>2. ReturnsValue(<< >>) /\ call' = Starts(op, c)
    BY <1>1, <1>5, <1>6, <2>1 DEF FirstInd, SQL_NULL_DATA, SQL_NO_TOTAL
  <2>3. ret' = "value" /\ value' = Units(1, 0) /\ call'.step = "done" /\ 0 # SQL_NULL_DATA
    BY <2>2, NothingIsAValue DEF ReturnsValue, Starts, SQL_NULL_DATA
  <2> QED BY <1>6, <1>8, <2>3 DEF ReadInv, ReadResult, IsTheCell
<1>9. CASE row[c] \in 1 .. MaxValue
  <2>1. row[c] # SQL_NULL_DATA /\ ~(row[c] - 0 <= 0) /\ row[c] - 0 = row[c] /\ 0 + 0 = 0
    BY <1>6, <1>9 DEF SQL_NULL_DATA
  <2>2. /\ ~o.unset /\ o.ind = IF totals THEN row[c] ELSE SQL_NO_TOTAL
        /\ o.data.column = c /\ o.data.given = 0 /\ ~o.data.drained
    BY <1>5, <2>1 DEF IsCellAnswer
  <2>3. o.ind \in {SQL_NO_TOTAL} \cup 1 .. MaxValue /\ o.ind # SQL_NULL_DATA /\ o.ind # 0 /\ ~(o.ind > MaxValue)
    BY <1>6, <1>9, <2>2 DEF SQL_NULL_DATA, SQL_NO_TOTAL
  <2>4. ret' = "none" /\ value' = << >> /\ call' = more(o.ind)
    BY <1>1, <1>5, <2>2, <2>3 DEF FirstInd
  <2>5. CASE totals
    <3>1. call'.step = "whole" /\ call'.ind = row[c]
      <4>1. o.ind = row[c] /\ o.ind # SQL_NO_TOTAL
        BY <1>6, <1>9, <2>2, <2>5 DEF SQL_NO_TOTAL
      <4>2. call' = [op |-> op, column |-> c, again |-> Starts(op, c).again, ind |-> o.ind,
                     step |-> IF o.ind = SQL_NO_TOTAL THEN "pieces" ELSE "whole"]
        BY <1>2, <2>4, Zenon
      <4> QED BY <4>1, <4>2
    <3>2. WholeInv'
      BY <1>1, <1>3, <1>6, <1>9, <2>2, <3>1 DEF WholeInv
    <3> QED BY <2>4, <3>1, <3>2 DEF ReadInv
  <2>6. CASE ~totals
    <3>1. call'.step = "pieces"
      BY <1>2, <2>2, <2>4, <2>6
    <3>2. data'.column = call'.column /\ data'.given = 0 /\ ~data'.drained /\ ~totals'
      BY <1>1, <1>3, <1>4, <2>2, <2>6
    <3>3. 0 \in 0 .. Cell' - 1 /\ Cell' \in 1 .. MaxValue /\ value' = << >> /\ << >> = Units(1, 0)
      BY <1>6, <1>9, <2>4, NothingIsAValue
    <3>4. PiecesInv'
      BY <1>3, <1>6, <3>2, <3>3 DEF PiecesInv
    <3> QED BY <2>4, <3>1, <3>4 DEF ReadInv
  <2> QED BY <2>5, <2>6
<1>10. row[c] \in 0 .. MaxValue => row[c] = 0 \/ row[c] \in 1 .. MaxValue
  BY <1>6
<1> QED BY <1>5, <1>7, <1>8, <1>9, <1>10

LEMMA WholeReads ==
    ASSUME TypeInv, ReadInv, ReadWhole
    PROVE  ReadInv'
<1> SUFFICES ASSUME FirstRead' PROVE ReadInv'
  BY DEF ReadInv
<1> DEFINE filled(o) == Written(o.units, Resize(<< >>, call.ind))
           n == Cell
<1>1. PICK o \in SQLGetData(call.column, call.ind) :
        /\ data' = o.data
        /\ \/ Throws(o.rc) /\ Ends(ThrowsOut)
           \/ /\ ~Throws(o.rc) /\ call.op = "varchar"
              /\ Ends(ReturnsResized(filled(o), LaterInd(o)))
           \/ /\ ~Throws(o.rc) /\ call.op = "binary"
              /\ Ends(ReturnsValue(filled(o)))
  BY DEF ReadWhole
<1>2. call' = [call EXCEPT !.step = "done"] /\ call.step = "whole" /\ call.column \in Columns
  BY <1>1 DEF ReadWhole, Ends, TypeInv, CallOK, InCall
<1>3. /\ call'.op = call.op /\ call'.column = call.column /\ call'.again = call.again
      /\ call'.step = "done" /\ UNCHANGED <<row, totals, usable, faults>>
  BY <1>2 DEF ReadWhole, Getter, cursor, world
<1>4. FirstRead /\ WholeInv
  BY <1>2, <1>3 DEF FirstRead, ReadInv
<1>5. /\ Cell' = n /\ n = row[call.column] /\ n \in 1 .. MaxValue /\ n \in 0 .. MaxValue
      /\ n \in Nat /\ call.ind = n /\ call.op \in {"varchar", "binary"}
  BY <1>3, <1>4, BufferHoldsAUnit DEF Cell, WholeInv
<1>6. FirstCall(call.column)
  BY <1>4 DEF FirstRead, WholeInv, FirstCall, ReadBefore, Drained, Given
<1> HIDE DEF n
<1>7. IsCellAnswer(o, call.column, 0, n) /\ ~Throws(o.rc)
  BY <1>1, <1>2, <1>5, <1>6, FirstAnswer
<1>8. n # SQL_NULL_DATA /\ n - 0 <= n /\ n - 0 = n /\ ~TooLong(n)
  BY <1>5, BufferHoldsAUnit DEF SQL_NULL_DATA, TooLong
<1>9. ~o.unset /\ o.ind = n /\ o.units = Units(1, n)
  BY <1>5, <1>7, <1>8 DEF IsCellAnswer
<1>10. filled(o) = Units(1, n)
  <2>1. Resize(<< >>, n) \in Values /\ Len(Resize(<< >>, n)) <= n
    BY <1>5, NothingIsAValue, ResizeParts
  <2> QED BY <1>5, <1>9, <2>1, WrittenCell
<1> HIDE DEF filled
<1>11. Resize(Units(1, n), n) = Units(1, n)
  BY <1>5, CellUnits, CutCell
<1>12. ret' = "value" /\ value' = Units(1, n)
  BY <1>1, <1>5, <1>7, <1>8, <1>9, <1>10, <1>11
     DEF Ends, ReturnsResized, ReturnsValue, LaterInd
<1> QED BY <1>3, <1>5, <1>8, <1>12 DEF ReadInv, ReadResult, IsTheCell

LEMMA PieceReads ==
    ASSUME TypeInv, ReadInv, NextPiece
    PROVE  ReadInv'
<1> SUFFICES ASSUME FirstRead' PROVE ReadInv'
  BY DEF ReadInv
<1> DEFINE text == call.op = "varchar"
           piece(o, ind) == IF text THEN TextPiece(o, ind) ELSE BinaryPiece(o, ind)
           room == IF text THEN Buffer - 1 ELSE Buffer
           throws(o) == Throws(o.rc) \/ (~text /\ LaterInd(o) = SQL_NULL_DATA)
           n == Cell
           g == data.given
<1>1. PICK o \in SQLGetData(call.column, room) :
        /\ data' = o.data
        /\ \/ throws(o) /\ Ends(ThrowsOut)
           \/ ~throws(o) /\ IsLastPiece(o.rc) /\ Ends(ReturnsValue(piece(o, LaterInd(o))))
           \/ /\ ~throws(o) /\ ~IsLastPiece(o.rc)
              /\ value' = piece(o, LaterInd(o)) /\ UNCHANGED ret
              /\ call' = [call EXCEPT !.ind = LaterInd(o)]
  BY DEF NextPiece
<1>2. /\ call.step = "pieces" /\ call.column \in Columns /\ ret = "none" /\ value \in Values
      /\ DataOK(data) /\ Buffer \in Nat /\ Buffer - 1 \in Nat /\ Buffer # 0 /\ MaxValue \in Nat
      /\ UNCHANGED <<row, totals, usable, faults>>
  BY BufferHoldsAUnit
     DEF NextPiece, TypeInv, CallOK, ResultOK, InCall, Getter, cursor, world
<1>3. /\ call'.op = call.op /\ call'.column = call.column /\ call'.again = call.again
      /\ call'.step \in {"done", "pieces"}
  <2> HIDE DEF text, piece, room, throws
  <2>1. CASE Ends(ThrowsOut)
    BY <1>2, <2>1 DEF Ends
  <2>2. CASE Ends(ReturnsValue(piece(o, LaterInd(o))))
    BY <1>2, <2>2 DEF Ends
  <2>3. CASE call' = [call EXCEPT !.ind = LaterInd(o)]
    BY <1>2, <2>3
  <2> QED BY <1>1, <2>1, <2>2, <2>3
<1>4. FirstRead /\ PiecesInv
  BY <1>2, <1>3 DEF FirstRead, ReadInv
<1>5. /\ Cell' = n /\ n = row[call.column] /\ n \in 1 .. MaxValue /\ n \in Nat
      /\ n # SQL_NULL_DATA /\ n - 0 = n
      /\ call.op \in {"varchar", "binary"} /\ ~totals /\ ~Sized /\ Sized' = Sized
  BY <1>2, <1>3, <1>4, BufferHoldsAUnit DEF Cell, PiecesInv, Sized, SQL_NULL_DATA
<1>6. CASE text /\ n > Buffer - 1
  <2>1. LongText'
    BY <1>2, <1>3, <1>5, <1>6 DEF LongText
  <2>2. PiecesInv'
    BY <1>2, <1>3, <1>5, <1>6 DEF PiecesInv
  <2> QED BY <1>3, <2>1, <2>2 DEF ReadInv, ReadResult
<1>7. CASE text /\ n <= Buffer - 1
  <2>1. g = 0 /\ value = << >> /\ data.column = call.column /\ ~data.drained
    BY <1>4, <1>7 DEF PiecesInv
  <2>2. FirstCall(call.column)
    BY <1>4, <2>1 DEF FirstRead, FirstCall, ReadBefore, Drained, Given
  <2>3. IsCellAnswer(o, call.column, 0, Buffer - 1) /\ ~Throws(o.rc)
    BY <1>1, <1>2, <1>7, <2>2, FirstAnswer
  <2>4. o.rc = "success" /\ ~o.unset /\ o.ind = n /\ o.units = Units(1, n)
    <3> HIDE DEF n
    <3> QED BY <1>5, <1>7, <2>3 DEF IsCellAnswer
  <2>5. Resize(<< >>, Buffer) \in Values
    BY <1>2, NothingIsAValue, ResizeParts
  <2>6. ~(n < 0) /\ Smaller(Buffer - 1, n) = n /\ n \in 0 .. MaxValue
    <3> HIDE DEF n
    <3> QED BY <1>2, <1>5, <1>7 DEF Smaller
  <2>7. TextPiece(o, n) = Units(1, n)
    <3> HIDE DEF n
    <3> QED BY <2>1, <2>4, <2>5, <2>6, CutWrittenCell DEF TextPiece
  <2>8. ret' = "value" /\ value' = Units(1, n) /\ call'.step = "done"
    <3>1. LaterInd(o) = n /\ IsLastPiece(o.rc) /\ ~throws(o)
      BY <1>7, <2>3, <2>4 DEF LaterInd, IsLastPiece
    <3>2. piece(o, n) = Units(1, n)
      BY <1>7, <2>7
    <3> HIDE DEF piece, throws, text, n
    <3>3. Ends(ReturnsValue(piece(o, n)))
      BY <1>1, <3>1
    <3> QED BY <1>2, <3>2, <3>3 DEF Ends, ReturnsValue
  <2> QED BY <1>5, <2>8 DEF ReadInv, ReadResult, IsTheCell
<1>8. CASE ~text
  <2>1. /\ g \in 0 .. n - 1 /\ value = Units(1, g) /\ data.column = call.column /\ ~data.drained
        /\ call.op = "binary"
    BY <1>4, <1>5, <1>8 DEF PiecesInv
  <2>2. g \in Nat /\ g < n /\ n <= MaxValue
    <3> HIDE DEF n, g
    <3> QED BY <1>5, <2>1
  <2>3. usable /\ row # NoRow /\ "getdata" \notin faults /\ ~Drained(call.column)
        /\ Given(call.column) = g
    BY <1>4, <2>1 DEF FirstRead, Drained, Given
  <2>4. IsCellAnswer(o, call.column, g, Buffer)
    <3>1. row \in Rows \cup {NoRow} /\ o \in SQLGetData(call.column, Buffer)
      BY <1>1, <1>8 DEF TypeInv, WorldOK
    <3> QED BY <1>2, <2>3, <3>1, DriverAnswers
  <2>5. CASE n - g <= Buffer
    <3>1. o.rc = "success" /\ ~o.unset /\ o.ind = n - g /\ o.units = Units(g + 1, n)
      <4> HIDE DEF n, g
      <4> QED BY <1>5, <2>4, <2>5 DEF IsCellAnswer
    <3> DEFINE k == n - g
    <3>2. k \in Nat /\ g + k = n /\ k # SQL_NO_TOTAL /\ k # SQL_NULL_DATA
      <4> HIDE DEF n, g
      <4> QED BY <1>5, <2>2 DEF SQL_NO_TOTAL, SQL_NULL_DATA
    <3>3. Units(1, g) \o Resize(Units(g + 1, n), k) = Units(1, n)
      <4> HIDE DEF n, g, k
      <4>1. g + k <= MaxValue
        BY <2>2, <3>2
      <4> QED BY <2>2, <3>2, <4>1, PieceFollows
    <3>4. BinaryPiece(o, k) = Units(1, n)
      <4> HIDE DEF n, g
      <4> QED BY <2>1, <3>1, <3>2, <3>3 DEF BinaryPiece, PieceSize
    <3>5. ret' = "value" /\ value' = Units(1, n) /\ call'.step = "done"
      <4>1. LaterInd(o) = k /\ IsLastPiece(o.rc) /\ ~throws(o)
        BY <3>1, <3>2 DEF LaterInd, IsLastPiece, Throws
      <4>2. piece(o, k) = Units(1, n)
        BY <1>8, <3>4
      <4> HIDE DEF piece, throws, text, n, k
      <4>3. Ends(ReturnsValue(piece(o, k)))
        BY <1>1, <4>1
      <4> QED BY <1>2, <4>2, <4>3 DEF Ends, ReturnsValue
    <3> QED BY <1>5, <3>5 DEF ReadInv, ReadResult, IsTheCell
  <2>6. CASE ~(n - g <= Buffer)
    <3>1. /\ o.rc = "info" /\ ~o.unset /\ o.ind = SQL_NO_TOTAL
          /\ o.units = Units(g + 1, g + Buffer) /\ o.data.column = call.column
          /\ o.data.given = g + Buffer /\ ~o.data.drained
      <4> HIDE DEF n, g
      <4> QED BY <1>5, <2>4, <2>6 DEF IsCellAnswer
    <3>2. g + Buffer \in 0 .. n - 1 /\ g + Buffer <= MaxValue
      <4> HIDE DEF n, g
      <4> QED BY <1>2, <1>5, <2>2, <2>6
    <3>3. Units(1, g) \o Resize(Units(g + 1, g + Buffer), Buffer) = Units(1, g + Buffer)
      <4> HIDE DEF n, g
      <4> QED BY <1>2, <2>2, <3>2, PieceFollows
    <3>4. BinaryPiece(o, SQL_NO_TOTAL) = Units(1, g + Buffer)
      <4> HIDE DEF n, g
      <4> QED BY <2>1, <3>1, <3>3 DEF BinaryPiece, PieceSize
    <3>5. LaterInd(o) = SQL_NO_TOTAL /\ ~IsLastPiece(o.rc) /\ ~throws(o)
      BY <3>1 DEF LaterInd, IsLastPiece, Throws, SQL_NO_TOTAL, SQL_NULL_DATA
    <3>6. piece(o, SQL_NO_TOTAL) = Units(1, g + Buffer)
      BY <1>8, <3>4
    <3>7. ret' = "none" /\ value' = Units(1, g + Buffer) /\ call'.step = "pieces"
      <4> HIDE DEF piece, throws, text, n, g
      <4>1. /\ value' = piece(o, SQL_NO_TOTAL) /\ UNCHANGED ret
            /\ call' = [call EXCEPT !.ind = SQL_NO_TOTAL]
        BY <1>1, <3>5
      <4> QED BY <1>2, <3>6, <4>1
    <3>8. data'.given = g + Buffer /\ data'.column = call'.column /\ ~data'.drained
      BY <1>1, <1>3, <3>1
    <3>9. PiecesInv'
      <4> HIDE DEF n, g
      <4> QED BY <1>2, <1>3, <1>5, <2>1, <3>2, <3>7, <3>8 DEF PiecesInv
    <3> QED BY <3>7, <3>9 DEF ReadInv
  <2> QED BY <2>5, <2>6
<1>9. n > Buffer - 1 \/ n <= Buffer - 1
  <2> HIDE DEF n
  <2> QED BY <1>2, <1>5
<1> QED BY <1>6, <1>7, <1>8, <1>9

LEMMA GettingReads ==
    ASSUME TypeInv, ReadInv, Getting
    PROVE  ReadInv'
<1>1. ASSUME NEW c, get_nvarchar(c) PROVE ReadInv'
  BY <1>1 DEF get_nvarchar, Starts, ReadInv, FirstRead
<1>2. ASSUME NEW c \in TextColumns, get_varchar(c) PROVE ReadInv'
  BY <1>2, SizedReads, ProbeReads DEF get_varchar, Columns
<1>3. ASSUME NEW c \in BinaryColumns, get_binary(c) PROVE ReadInv'
  BY <1>3, ProbeReads DEF get_binary, Columns
<1> QED BY <1>1, <1>2, <1>3, FixedReads, PieceReads, WholeReads DEF Getting

(* The first getter called for a column of the row returns the whole cell, *)
(* its units in order and nothing else, and null for NULL, however many    *)
(* pieces it takes; outside the three cases the invariant names.           *)
THEOREM CellsAreReadWhole == Spec => []GettersReturnTheCell
<1>1. Init => TypeInv /\ ReadInv
  BY InitIsTyped DEF Init, ReadInv, FirstRead, NoCall
<1>2. TypeInv /\ ReadInv /\ [Next]_vars => (TypeInv /\ ReadInv)'
  <2> SUFFICES ASSUME TypeInv, ReadInv, [Next]_vars PROVE ReadInv'
    BY NextIsTyped
  <2>1. CASE next
    BY <2>1 DEF next, NoCall, ReadInv, FirstRead
  <2>2. CASE ConnectionDisconnects
    BY <2>2 DEF ConnectionDisconnects, NoCall, ReadInv, FirstRead
  <2>3. CASE UNCHANGED vars
    BY <2>3 DEF vars, world, cursor, ReadInv, FirstRead, ReadResult, IsTheCell, Cell, Sized,
                NullOfSizedColumn, WiderThanItsColumn, LongText, WholeInv, PiecesInv
  <2> QED BY <2>1, <2>2, <2>3, GettingReads DEF Next, Getting
<1>3. ReadInv => GettersReturnTheCell
  BY DEF ReadInv, ReadResult, GettersReturnTheCell
<1> QED BY <1>1, <1>2, <1>3, PTL DEF Spec
=============================================================================
