--------------------------- MODULE MCStatementReuse ---------------------------
(* StatementReuse for TLC: programs that use one kind of result set, with  *)
(* and without the old ones, and one that mixes the kinds.                 *)
EXTENDS StatementReuse

MCPrograms ==
    {{"compact"}, {"compact", "old"}, {"standard"}, {"standard", "old"},
     {"compact", "standard"}}
=============================================================================
