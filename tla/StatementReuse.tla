---------------------------- MODULE StatementReuse ----------------------------
(***************************************************************************)
(* One aodbc::statement that is executed again and again, and the result   *)
(* sets that its execute_query calls return.  All of them share one driver *)
(* handle: its cursor, its column bindings and its attributes.  SQL_CLOSE  *)
(* takes the cursor away and leaves the rest as the last fetch_many() left *)
(* it, pointing into a storage and into a stack frame that is gone.        *)
(*                                                                         *)
(* The rows of query q are <<q, 1>>, <<q, 2>>, ...; all queries have the   *)
(* same columns.  No driver call fails but for the state of its handle,    *)
(* and chunks have no end: the modules CompactResultSet and                *)
(* StandardResultSet look at the rest.                                     *)
(***************************************************************************)
EXTENDS Integers, Sequences, SequencesExt

CONSTANTS
    Programs,       \* the programs looked at, each the set of things it does:
                    \*   "compact", "standard": the result sets it asks for,
                    \*   "old": it goes on using them after the next query
    MaxQueries,     \* bound on the queries
    MaxTotal,       \* bound on the rows of a query
    Quantities      \* the quantities asked of fetch_many()

ASSUME ProgramsDoThings == \A p \in Programs : p \subseteq {"compact", "standard", "old"}
ASSUME ReuseBounds == MaxQueries \in Nat /\ MaxTotal \in Nat /\ Quantities \subseteq Nat \ {0}

VARIABLES
    program,        \* what this program does
    max_rows,       \* SQL_ATTR_MAX_ROWS, 0 for no limit
    cursor,         \* the query whose cursor is open, or 0
    at,             \* the rows that cursor has moved past
    bound,          \* the column bindings and SQL_ATTR_ROW_ARRAY_SIZE
    sets,           \* the result set of each query
    executed,       \* what the last execute() did: "ran", "refused" or "none"
    stray           \* the driver has written to memory that is gone

vars == <<program, max_rows, cursor, at, bound, sets, executed, stray>>

Kinds == {"compact", "standard"} \cap program
Newest == Len(sets)

(* No column is bound, and a rowset is one row.                            *)
Unbound == [set |-> 0, first |-> 0, rows |-> 1]

Init ==
    /\ program \in Programs
    /\ max_rows = 0
    /\ cursor = 0 /\ at = 0
    /\ bound = Unbound
    /\ sets = << >>
    /\ executed = "none"
    /\ stray = FALSE

-----------------------------------------------------------------------------
(* The driver.                                                             *)

Limited(rows) == IF max_rows = 0 \/ rows < max_rows THEN rows ELSE max_rows

(* The rowset a fetch of n rows returns.                                   *)
Rowset(n) ==
    LET left == sets[cursor].total - at
    IN  [i \in 1 .. (IF left < n THEN left ELSE n) |-> <<cursor, at + i>>]

(* A rowset goes to the storage the columns are bound to.                  *)
Filled(b, rowset) ==
    [s \in 1 .. Newest |->
        IF s # b.set THEN sets[s]
        ELSE [sets[s] EXCEPT !.cells =
                [p \in DOMAIN @ \cup (b.first .. b.first + Len(rowset) - 1) |->
                    IF p >= b.first /\ p < b.first + Len(rowset)
                    THEN rowset[p - b.first + 1] ELSE @[p]]]]

-----------------------------------------------------------------------------
(* statement                                                               *)

NeverCloses == cursor
free_stmt_close == 0

SetMaxRows(n) ==
    /\ max_rows' = n
    /\ UNCHANGED <<program, cursor, at, bound, sets, executed, stray>>

(* SQLExecDirect, for a statement that returns no rows.  It is refused     *)
(* while a cursor is open, the error is swallowed, and SQLRowCount then    *)
(* answers for the query.                                                  *)
execute ==
    /\ executed' = IF cursor = 0 THEN "ran" ELSE "refused"
    /\ UNCHANGED <<program, max_rows, cursor, at, bound, sets, stray>>

(* free_stmt_close(), SQLExecDirect, and a result set made and initialised *)
(* over whatever cursor there is then.                                     *)
execute_query(kind, rows) ==
    /\ Newest < MaxQueries
    /\ LET runs == free_stmt_close = 0
       IN  /\ cursor' = IF runs THEN Newest + 1 ELSE cursor
           /\ at' = IF runs THEN 0 ELSE at
    /\ sets' = Append(sets, [kind |-> kind, total |-> Limited(rows), live |-> TRUE,
                             cells |-> << >>, count |-> 0, ended |-> FALSE])
    /\ UNCHANGED <<program, max_rows, bound, executed, stray>>

-----------------------------------------------------------------------------
(* The result sets.                                                        *)

Usable(q) == sets[q].live /\ ("old" \in program \/ q = Newest)

(* fetch_many() prepares an area, sets the array size, binds every column, *)
(* fetches and commits.  (A row is committed where the area begins.)       *)
BindsOnce(q, n) ==
    IF bound.set # 0 THEN bound ELSE [set |-> q, first |-> sets[q].count + 1, rows |-> n]
Binding(q, n) == [set |-> q, first |-> sets[q].count + 1, rows |-> n]

fetch_many(q, n) ==
    /\ Usable(q) /\ sets[q].kind = "compact"
    /\ LET b == Binding(q, n)
           rowset == Rowset(b.rows)
       IN  /\ bound' = b
           /\ at' = at + Len(rowset)
           /\ sets' = [Filled(b, rowset) EXCEPT
                        ![q].count = @ + Len(rowset), ![q].ended = Len(rowset) < n]
           /\ stray' = (stray \/ ~sets[b.set].live)
    /\ UNCHANGED <<program, max_rows, cursor, executed>>

(* next(): SQLFetch with the bindings and the array size as they are; the  *)
(* getters read the first row of the rowset.  With an area still bound the *)
(* count of rows goes to a variable of a fetch_many() that has returned.   *)
next(q) ==
    /\ Usable(q) /\ sets[q].kind = "standard"
    /\ LET rowset == Rowset(bound.rows)
           filled == Filled(bound, rowset)
       IN  /\ at' = at + Len(rowset)
           /\ sets' = IF rowset = << >>
                      THEN [filled EXCEPT ![q].ended = TRUE]
                      ELSE [filled EXCEPT ![q].cells = Append(@, Head(rowset)),
                                          ![q].count = @ + 1]
           /\ stray' = (stray \/ bound.set # 0)
    /\ UNCHANGED <<program, max_rows, cursor, bound, executed>>

(* The statement keeps the handle: no cursor is closed, nothing unbound.   *)
DestroyResultSet(q) ==
    /\ sets[q].live
    /\ sets' = [sets EXCEPT ![q].live = FALSE]
    /\ UNCHANGED <<program, max_rows, cursor, at, bound, executed, stray>>

Next ==
    \/ \E n \in 0 .. MaxTotal : SetMaxRows(n)
    \/ execute
    \/ \E kind \in Kinds, rows \in 0 .. MaxTotal : execute_query(kind, rows)
    \/ \E q \in 1 .. Newest, n \in Quantities : fetch_many(q, n)
    \/ \E q \in 1 .. Newest : next(q) \/ DestroyResultSet(q)

Spec == Init /\ [][Next]_vars

-----------------------------------------------------------------------------
(* The rows of a result set, as a view or a loop over next() shows them.   *)
Blank == << >>
Shown(set) ==
    [p \in 1 .. set.count |-> IF p \in DOMAIN set.cells THEN set.cells[p] ELSE Blank]

TypeOK ==
    /\ program \in Programs
    /\ max_rows \in 0 .. MaxTotal
    /\ cursor = Newest              \* the newest query has the cursor
    /\ at \in 0 .. (IF cursor = 0 THEN 0 ELSE sets[cursor].total)
    /\ bound.set \in 0 .. Newest /\ bound.rows \in Quantities \cup {1}
    /\ \A q \in 1 .. Newest : sets[q].kind \in Kinds /\ sets[q].total \in 0 .. MaxTotal
    /\ executed \in {"none", "ran", "refused"}
    /\ stray \in BOOLEAN

OneKind == ~({"compact", "standard"} \subseteq program)

(* A program that uses the newest result set only, all of them of one kind *)
(* (statement.hpp:40), reads from each the rows of its own query, from the *)
(* first on, none twice and none left out, and all of them before it is    *)
(* told that there are no more, however far the query before was read.     *)
EachReadsItsOwnQuery ==
    OneKind /\ "old" \notin program =>
        \A q \in 1 .. Newest :
            /\ Shown(sets[q]) = [i \in 1 .. sets[q].count |-> <<q, i>>]
            /\ sets[q].ended => sets[q].count = sets[q].total

(* With one kind of result set, rows once read stay what they were: not    *)
(* even a fetch on an old result set, which takes rows from the cursor of  *)
(* the newest, writes to a storage other than its own.                     *)
ShownRowsStay ==
    [][OneKind => \A q \in 1 .. Newest : IsPrefix(Shown(sets[q]), Shown(sets'[q]))]_vars

(* With one kind of result set the driver never writes through a binding   *)
(* whose storage was destroyed, nor the count of rows into a dead frame.   *)
NoStrayWrites == OneKind => ~stray
=============================================================================
