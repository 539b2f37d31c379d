-------------------------------- MODULE RowLog --------------------------------
(***************************************************************************)
(* What a row storage promises its readers: a log of rows that grows only  *)
(* at its end, a batch at a time, until it is dropped.                     *)
(***************************************************************************)
EXTENDS Naturals, Sequences

CONSTANT Rows

VARIABLE log

Init == log = << >>

(* The rows so far stay, and what is added is made of rows.                *)
AppendBatch ==
    /\ log' \in Seq(Rows)
    /\ Len(log') >= Len(log)
    /\ \A i \in 1 .. Len(log) : log'[i] = log[i]

Drop == log' = << >>

Next == AppendBatch \/ Drop

Spec == Init /\ [][Next]_log
=============================================================================
