------------------------ MODULE MCAsyncCompactResultSet ------------------------
(* AsyncCompactResultSet for TLC.                                          *)
EXTENDS AsyncCompactResultSet

CursorRows == 1 .. MaxTotal
=============================================================================
