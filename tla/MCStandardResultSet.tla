-------------------------- MODULE MCStandardResultSet --------------------------
(* StandardResultSet for TLC: one column of each kind, and rows that give  *)
(* each of them a NULL, an empty cell and every length up to three pieces. *)
(* The text column of known size also holds more bytes than characters.    *)
EXTENDS StandardResultSet

MCRow(num, name, text, blob) ==
    [c \in Columns |-> CASE c = "num" -> num [] c = "name" -> name
                         [] c = "text" -> text [] c = "blob" -> blob]

MCRows ==
    {MCRow(1, 0, 1, SQL_NULL_DATA), MCRow(SQL_NULL_DATA, SQL_NULL_DATA, 0, 1),
     MCRow(1, 1, 2, 2), MCRow(1, 2, 3, 0), MCRow(1, 3, SQL_NULL_DATA, 3),
     MCRow(1, 2, 4, 4), MCRow(1, 4, 1, 5)}

MCColumnSize == [c \in Columns |-> IF c = "name" THEN 2 ELSE 0]
=============================================================================
