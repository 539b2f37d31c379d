--------------------------- MODULE MCCompactResultSet ---------------------------
(* CompactResultSet for TLC: a row holds its number in the cursor, and the *)
(* bounds are constants of the specification.                              *)
EXTENDS CompactResultSet

CursorRows == 1 .. MaxTotal
=============================================================================
