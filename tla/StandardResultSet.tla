--------------------------- MODULE StandardResultSet ---------------------------
(***************************************************************************)
(* sync/result_set/standard_result_set.hpp and the getters of              *)
(* types/types.hpp: next() over an ODBC cursor, and SQLGetData on the      *)
(* current row, in one call, in a probe and a call, or in pieces.          *)
(* Nothing else uses the statement: the program is one thread.             *)
(*                                                                         *)
(* A cell is SQL_NULL_DATA or its length; its units (bytes) are numbered   *)
(* 1, 2, ... so that a value shows which units it was put together from.   *)
(***************************************************************************)
EXTENDS Integers, Sequences

CONSTANTS
    Builds,         \* the builds looked at: TRUE, without NDEBUG, and FALSE
    Drivers,        \* the drivers looked at: TRUE, one that reports how much
                    \*       of a cell is left, FALSE, one that does not
    Faults,         \* the environments looked at, each the set of calls that
                    \*       may answer SQL_ERROR in it: "fetch", "getdata"
    FixedColumns, TextColumns, BinaryColumns,   \* the columns, by type
    Rows,           \* the rows the cursor may return, a cell for each column
    ColumnSize,     \* byte_len() of each column, 0 when the driver knows none
    Buffer,         \* the 1024 of the retrieval loops
    MaxTotal,       \* bound on the rows of the cursor
    MaxValue        \* bound on the length of a value; a longer one throws

SQL_NULL_DATA == -1
SQL_NO_TOTAL == -4
Pad == 0                    \* a unit of a value that is not one of the cell
NoRow == << >>              \* before the first row, after the last
NoColumn == "none"

Columns == FixedColumns \cup TextColumns \cup BinaryColumns

ASSUME StandardBuildsAreBoolean == Builds \subseteq BOOLEAN /\ Drivers \subseteq BOOLEAN
ASSUME StandardFaults == \A f \in Faults : f \subseteq {"fetch", "getdata"}
ASSUME CellsAreLengths ==
    /\ \A r \in Rows : /\ r \in [Columns -> {SQL_NULL_DATA} \cup 0 .. MaxValue]
                       /\ \A c \in FixedColumns : r[c] \in {SQL_NULL_DATA, 1}
    /\ ColumnSize \in [Columns -> Nat]
    /\ NoColumn \notin Columns /\ Columns # {}
(* A piece fits in a buffer, and a buffer is not too long for a value.     *)
ASSUME BufferHoldsAUnit ==
    Buffer \in Nat \ {0, 1} /\ MaxValue \in Nat /\ Buffer - 1 <= MaxValue

VARIABLES
    asserts,        \* TRUE when the program was built without NDEBUG
    totals,         \* TRUE when the driver reports what is left of a cell
    faults,         \* the calls that may answer SQL_ERROR
    total,          \* rows of the driver's cursor
    usable,         \* FALSE once SQLDisconnect has freed the stmt handle
    fetched,        \* rows SQLFetch has returned
    row,            \* the current row, a cell for each column, or NoRow
    data,           \* what SQLGetData has handed out: of which column, how
                    \*       many units, and whether it has nothing left
    answer,         \* what the last next() returned
    call,           \* the getter called last and how far it has come
    ret,            \* what it returned or threw, or "none"
    value,          \* the units put together so far, or returned
    ending          \* the assert that stopped the process, or "none"

world == <<asserts, totals, faults, total>>
cursor == <<usable, fetched, row>>
vars == <<world, cursor, data, answer, call, ret, value, ending>>

Untouched == [column |-> NoColumn, given |-> 0, drained |-> FALSE]
NoCall == [op |-> "none", column |-> NoColumn, step |-> "done", ind |-> 0, again |-> FALSE]

Init ==
    /\ asserts \in Builds /\ totals \in Drivers /\ faults \in Faults
    /\ total \in 0 .. MaxTotal
    /\ usable = TRUE /\ fetched = 0 /\ row = NoRow
    /\ data = Untouched
    /\ answer = "none"
    /\ call = NoCall /\ ret = "none" /\ value = << >>
    /\ ending = "none"

InCall == call.step # "done"
Idle == ending = "none" /\ ~InCall

-----------------------------------------------------------------------------
(* next()                                                                  *)

StopsOnInfo(rc) == rc = "success"
NextAnswer(rc) == rc # "no_data"

(* SQLFetch: its return code, and the row and count it leaves behind.      *)
SQLFetch(rc) ==
    \/ /\ ~usable /\ rc = "invalid_handle"
       /\ UNCHANGED <<fetched, row>>
    \/ /\ usable /\ rc \in {"success", "info"} /\ fetched < total
       /\ fetched' = fetched + 1
       /\ row' \in Rows
    \/ /\ usable /\ rc = "no_data" /\ fetched = total
       /\ row' = NoRow /\ UNCHANGED fetched
    \/ /\ usable /\ rc = "error" /\ "fetch" \in faults
       /\ row' = NoRow /\ UNCHANGED fetched

next ==
    /\ Idle
    /\ \E rc \in {"success", "info", "no_data", "error", "invalid_handle"} :
        /\ SQLFetch(rc)
        /\ answer' = IF NextAnswer(rc) THEN "true" ELSE "false"
    /\ data' = Untouched
    /\ call' = NoCall /\ ret' = "none" /\ value' = << >>
    /\ UNCHANGED <<world, usable, ending>>

-----------------------------------------------------------------------------
(* SQLGetData                                                              *)

Smaller(a, b) == IF a < b THEN a ELSE b
Units(from, to) == [i \in 1 .. to - from + 1 |-> from + i - 1]

Given(c) == IF data.column = c THEN data.given ELSE 0
Drained(c) == data.column = c /\ data.drained
ReadBefore(c) == Drained(c) \/ Given(c) > 0

(* The answers of SQLGetData to a call for column c with room for so many  *)
(* units (the terminating null of a text not counted). Another column      *)
(* starts from its beginning; `unset` says the indicator was not written.  *)
Answer(rc, unset, ind, units, after) ==
    [rc |-> rc, unset |-> unset, ind |-> ind, units |-> units, data |-> after]
Nothing(rc) == Answer(rc, TRUE, 0, << >>, data)

CellAnswer(c, room) ==
    LET given == Given(c)
        left == row[c] - given
        after(n, drained) == [column |-> c, given |-> given + n, drained |-> drained]
    IN  IF row[c] = SQL_NULL_DATA
        THEN Answer("success", FALSE, SQL_NULL_DATA, << >>, after(0, TRUE))
        ELSE IF left <= room
        THEN Answer("success", FALSE, left, Units(given + 1, row[c]), after(left, TRUE))
        ELSE Answer("info", FALSE, IF totals THEN left ELSE SQL_NO_TOTAL,
                    Units(given + 1, given + room), after(room, FALSE))

SQLGetData(c, room) ==
    IF ~usable THEN {Nothing("invalid_handle")}
    ELSE IF row = NoRow THEN {Nothing("error")}
    ELSE {IF Drained(c) THEN Nothing("no_data") ELSE CellAnswer(c, room)}
            \cup (IF "getdata" \in faults THEN {Nothing("error")} ELSE {})

(* handle_odbc_call throws for an invalid handle and swallows SQL_ERROR.   *)
ThrowsNothing(rc) == FALSE
Throws(rc) == rc = "invalid_handle"

(* The local `ind` after a call: as the driver set it, or left as it was.  *)
Garbage == {SQL_NULL_DATA, SQL_NO_TOTAL, MaxValue + 1} \cup 0 .. MaxValue
FirstInd(o) == IF o.unset THEN Garbage ELSE {o.ind}
LaterInd(o) == IF o.unset THEN call.ind ELSE o.ind

-----------------------------------------------------------------------------
(* The strings and vectors the getters fill.                               *)

Resize(s, n) == [i \in 1 .. n |-> IF i <= Len(s) THEN s[i] ELSE Pad]

(* The driver writes units at the front of s.                              *)
Written(units, s) ==
    [i \in 1 .. (IF Len(units) > Len(s) THEN Len(units) ELSE Len(s)) |->
        IF i <= Len(units) THEN units[i] ELSE s[i]]

(* An indicator turned into a size: SQL_NULL_DATA and SQL_NO_TOTAL become  *)
(* lengths no string can have.                                             *)
NegativeOnly(n) == n < 0
TooLong(n) == n < 0 \/ n > MaxValue

Starts(op, c) == [op |-> op, column |-> c, step |-> "done", ind |-> 0, again |-> ReadBefore(c)]

ReturnsValue(s) == ret' = "value" /\ value' = s
ReturnsNull == ret' = "null" /\ value' = << >>
ThrowsOut == ret' = "throw" /\ value' = << >>
ReturnsResized(s, n) == IF TooLong(n) THEN ThrowsOut ELSE ReturnsValue(Resize(s, n))

Getter == UNCHANGED <<world, cursor, answer>>

(* get_bit, get_bigint, get_int, get_short, get_tinyint, get_float,        *)
(* get_double, get_date, get_time, get_timestamp and get_decimal.          *)
get_fixed(c) ==
    /\ Idle /\ Getter /\ UNCHANGED ending
    /\ call' = Starts("fixed", c)
    /\ \E o \in SQLGetData(c, 1) :
        /\ data' = o.data
        /\ \/ Throws(o.rc) /\ ThrowsOut
           \/ /\ ~Throws(o.rc)
              /\ \E ind \in FirstInd(o) :
                  IF ind = SQL_NULL_DATA THEN ReturnsNull
                  ELSE ReturnsValue(Written(o.units, <<Pad>>))

(* get_varchar(stmt, column_index, str_length)                             *)
get_sized_varchar(c) ==
    /\ Idle /\ ColumnSize[c] # 0 /\ Getter
    /\ call' = Starts("varchar", c)
    /\ \E o \in SQLGetData(c, ColumnSize[c]) :
        /\ data' = o.data
        /\ \/ /\ asserts /\ o.rc # "success"
              /\ ending' = "retcode" /\ ret' = "none" /\ value' = << >>
           \/ /\ ~asserts \/ o.rc = "success"
              /\ \E ind \in FirstInd(o) :
                  ReturnsResized(Resize(o.units, ColumnSize[c] + 1), ind)
              /\ UNCHANGED ending

(* get_varchar(stmt, column_index) and get_binary begin with a probe that  *)
(* has room for nothing.                                                   *)
Probe(op, c) ==
    /\ Idle /\ Getter /\ UNCHANGED ending
    /\ \E o \in SQLGetData(c, 0) :
        /\ data' = o.data
        /\ \/ Throws(o.rc) /\ ThrowsOut /\ call' = Starts(op, c)
           \/ /\ ~Throws(o.rc)
              /\ \E ind \in FirstInd(o) :
                  \/ ind = SQL_NULL_DATA /\ ReturnsNull /\ call' = Starts(op, c)
                  \/ ind = 0 /\ ReturnsValue(<< >>) /\ call' = Starts(op, c)
                  \/ /\ ind \in {SQL_NO_TOTAL} \cup 1 .. MaxValue
                     /\ ret' = "none"
                     /\ value' = << >>
                     /\ call' = [Starts(op, c) EXCEPT
                            !.step = IF ind = SQL_NO_TOTAL THEN "pieces" ELSE "whole",
                            !.ind = ind]
                  \/ ind > MaxValue /\ ThrowsOut /\ call' = Starts(op, c)

get_varchar(c) ==
    \/ get_sized_varchar(c)
    \/ ColumnSize[c] = 0 /\ Probe("varchar", c)

get_binary(c) == Probe("binary", c)

get_nvarchar(c) ==
    /\ Idle /\ Getter /\ UNCHANGED <<data, ending>>
    /\ call' = Starts("nvarchar", c) /\ ThrowsOut

-----------------------------------------------------------------------------
(* One turn of the loop for a cell of unknown length. The text loop writes *)
(* every piece at the same offset, 0.                                      *)
TextPiece(o, ind) ==
    Resize(Written(o.units, Resize(value, Buffer)),
           IF ind < 0 THEN Buffer - 1 ELSE Smaller(Buffer - 1, ind))

(* The binary loop appends; a buffer the driver left alone still holds     *)
(* what was in it, shown as padding.                                       *)
WholeBuffers(ind) == Buffer
PieceSize(ind) == IF ind = SQL_NO_TOTAL THEN Buffer ELSE ind
BinaryPiece(o, ind) == value \o Resize(o.units, PieceSize(ind))

NoAnswerIsLast(rc) == FALSE
IsLastPiece(rc) == rc = "success"

Ends(result) == result /\ call' = [call EXCEPT !.step = "done"]

NextPiece ==
    /\ ending = "none" /\ call.step = "pieces" /\ Len(value) <= MaxValue
    /\ Getter /\ UNCHANGED ending
    /\ LET text == call.op = "varchar"
           piece(o, ind) == IF text THEN TextPiece(o, ind) ELSE BinaryPiece(o, ind)
       IN  \E o \in SQLGetData(call.column, IF text THEN Buffer - 1 ELSE Buffer) :
            LET ind == LaterInd(o)
                throws == Throws(o.rc) \/ (~text /\ ind = SQL_NULL_DATA)
            IN  /\ data' = o.data
                /\ \/ throws /\ Ends(ThrowsOut)
                   \/ ~throws /\ IsLastPiece(o.rc) /\ Ends(ReturnsValue(piece(o, ind)))
                   \/ /\ ~throws /\ ~IsLastPiece(o.rc)
                      /\ value' = piece(o, ind) /\ UNCHANGED ret
                      /\ call' = [call EXCEPT !.ind = ind]

(* The one call for a cell whose length the probe found. A text is cut to  *)
(* the indicator afterwards, a binary keeps the size of the probe.         *)
ReadWhole ==
    /\ ending = "none" /\ call.step = "whole"
    /\ Getter /\ UNCHANGED ending
    /\ \E o \in SQLGetData(call.column, call.ind) :
        LET filled == Written(o.units, Resize(<< >>, call.ind))
        IN  /\ data' = o.data
            /\ \/ Throws(o.rc) /\ Ends(ThrowsOut)
               \/ /\ ~Throws(o.rc) /\ call.op = "varchar"
                  /\ Ends(ReturnsResized(filled, LaterInd(o)))
               \/ /\ ~Throws(o.rc) /\ call.op = "binary"
                  /\ Ends(ReturnsValue(filled))

(* The connection is disconnected under the result set.                    *)
ConnectionDisconnects ==
    /\ Idle /\ usable
    /\ usable' = FALSE
    /\ call' = NoCall /\ ret' = "none" /\ value' = << >> /\ answer' = "none"
    /\ UNCHANGED <<world, fetched, row, data, ending>>

Next ==
    \/ next
    \/ \E c \in FixedColumns : get_fixed(c)
    \/ \E c \in TextColumns : get_varchar(c) \/ get_nvarchar(c)
    \/ \E c \in BinaryColumns : get_binary(c)
    \/ NextPiece
    \/ ReadWhole
    \/ ConnectionDisconnects

Spec == Init /\ [][Next]_vars

(* A getter runs on its caller's thread to its end without yielding.       *)
FairSpec == Spec /\ WF_vars(NextPiece) /\ WF_vars(ReadWhole)

-----------------------------------------------------------------------------
TypeOK ==
    /\ asserts \in BOOLEAN /\ totals \in BOOLEAN /\ faults \in Faults
    /\ total \in 0 .. MaxTotal /\ fetched \in 0 .. total /\ usable \in BOOLEAN
    /\ row \in Rows \cup {NoRow}
    /\ data.column \in Columns \cup {NoColumn}
    /\ data.drained \in BOOLEAN
    /\ data.given \in IF row = NoRow \/ data.column = NoColumn THEN {0}
                      ELSE 0 .. IF row[data.column] < 0 THEN 0 ELSE row[data.column]
    /\ answer \in {"none", "true", "false"}
    /\ call.op \in {"none", "fixed", "varchar", "nvarchar", "binary"}
    /\ call.step \in {"done", "pieces", "whole"} /\ call.again \in BOOLEAN
    /\ call.ind \in Garbage
    /\ ret \in {"none", "value", "null", "throw"}
    /\ value \in Seq(0 .. MaxValue)
    /\ ret = "value" /\ call.op = "varchar" => Len(value) <= MaxValue
    /\ ending \in {"none", "retcode"}

(* The call was made of a row, on a live statement, and is the first to    *)
(* ask for its column; no SQLGetData failed.                               *)
FirstRead ==
    /\ call.op \in {"fixed", "varchar", "binary"} /\ ~call.again
    /\ usable /\ row # NoRow /\ "getdata" \notin faults

Cell == row[call.column]
Sized == call.op = "varchar" /\ ColumnSize[call.column] # 0
IsTheCell ==
    \/ ret = "null" /\ Cell = SQL_NULL_DATA
    \/ ret = "value" /\ Cell # SQL_NULL_DATA /\ value = Units(1, Cell)

(* What a text getter cannot do: a NULL in a column of known size, a text  *)
(* of more bytes than the column has characters, and a text that needs     *)
(* more than one turn of the loop.                                         *)
NullOfSizedColumn == Sized /\ Cell = SQL_NULL_DATA
WiderThanItsColumn == Sized /\ Cell > ColumnSize[call.column]
LongText == call.op = "varchar" /\ ~Sized /\ ~totals /\ Cell > Buffer - 1

(* A getter returns the whole cell, its units in order and nothing else,   *)
(* and null exactly for NULL, whether it takes one call, a probe and a     *)
(* call, or a loop, outside the three cases above.                         *)
GettersReturnTheCell ==
    FirstRead /\ ret # "none" =>
        IsTheCell \/ NullOfSizedColumn \/ WiderThanItsColumn \/ LongText

(* The varchar test (sync_simple_query.spec.cpp:49, :64) expects all of a  *)
(* larger text from get_varchar, and so does every caller: a text that is  *)
(* returned is the text in the cell.                                       *)
TextIsWhole ==
    FirstRead /\ call.op = "varchar" /\ ret = "value" => value = Units(1, Cell)

(* Once the statement handle is gone no getter makes up a value: all but   *)
(* get_varchar of a column of known size look at the return code.          *)
DisconnectedGettersThrow == ~usable /\ ~Sized => ret \in {"none", "throw"}

(* next() answers false only when every row has been returned, and true    *)
(* with a row to read, unless SQLFetch failed or the statement is gone.    *)
NextFollowsTheCursor ==
    /\ answer = "false" => fetched = total /\ row = NoRow
    /\ answer = "true" /\ usable /\ "fetch" \notin faults => row # NoRow

(* A getter comes to an end: its loop sees the last piece.                 *)
GettersReturn == InCall /\ FirstRead ~> ~InCall
=============================================================================
