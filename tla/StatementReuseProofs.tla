-------------------------- MODULE StatementReuseProofs --------------------------
(***************************************************************************)
(* What StatementReuse promises, proved for every number of queries, every *)
(* size of their results and of the fetches.                               *)
(***************************************************************************)
EXTENDS StatementReuse, SequenceTheorems, TLAPS

(* A row <<q, i>> of query q, and a result set.                            *)
Pairs == Nat \X Nat

ResultSets ==
    [kind : {"compact", "standard"}, total : 0 .. MaxTotal, live : BOOLEAN,
     cells : Seq(Pairs), count : Nat, ended : BOOLEAN]

Bindings == [set : Nat, first : Nat, rows : Quantities \cup {1}]

(* The newest query has the cursor, which is within its rows.              *)
CursorInv ==
    /\ cursor = Newest
    /\ at \in Nat
    /\ IF cursor = 0 THEN at = 0 ELSE at <= sets[cursor].total

(* The area that is bound begins behind rows of its storage.               *)
BindingInv ==
    /\ bound \in Bindings
    /\ bound.set <= Newest
    /\ bound.set # 0 => bound.first \in 1 .. sets[bound.set].count + 1

(* What is counted was written.                                            *)
SetsInv ==
    /\ sets \in Seq(ResultSets)
    /\ \A q \in 1 .. Newest : sets[q].kind \in Kinds /\ sets[q].count <= Len(sets[q].cells)

(* With one kind of result set: no more was written than what is counted,  *)
(* and a program of standard ones binds nothing.                           *)
OneKindInv ==
    OneKind =>
        /\ ~stray
        /\ \A q \in 1 .. Newest : Len(sets[q].cells) = sets[q].count
        /\ "standard" \in program => bound = Unbound

(* With the newest only: the cursor is behind the rows that it showed.     *)
NewestInv ==
    OneKind /\ "old" \notin program =>
        /\ cursor # 0 => sets[cursor].count = at
        /\ \A q \in 1 .. Newest :
            /\ \A i \in 1 .. sets[q].count : sets[q].cells[i] = <<q, i>>
            /\ sets[q].ended => sets[q].count = sets[q].total

ReuseInv ==
    /\ program \in Programs /\ max_rows \in 0 .. MaxTotal
    /\ executed \in {"none", "ran", "refused"} /\ stray \in BOOLEAN
    /\ SetsInv /\ CursorInv /\ BindingInv /\ OneKindInv /\ NewestInv
-----------------------------------------------------------------------------
(* What the driver writes.                                                 *)

LEMMA RowsetParts ==
    ASSUME NEW n \in Nat \ {0}, cursor \in Nat, at \in Nat, sets[cursor].total \in Nat,
           at <= sets[cursor].total
    PROVE  /\ Rowset(n) \in Seq(Pairs)
           /\ Len(Rowset(n)) \in Nat /\ Len(Rowset(n)) <= n
           /\ at + Len(Rowset(n)) <= sets[cursor].total
           /\ Len(Rowset(n)) < n => at + Len(Rowset(n)) = sets[cursor].total
           /\ \A i \in 1 .. Len(Rowset(n)) : Rowset(n)[i] = <<cursor, at + i>>
<1> DEFINE left == sets[cursor].total - at
           r == IF left < n THEN left ELSE n
<1>1. left \in Nat /\ r \in Nat /\ r <= n /\ at + r <= sets[cursor].total
      /\ (r < n => at + r = sets[cursor].total)
  OBVIOUS
<1>2. Rowset(n) = [i \in 1 .. r |-> <<cursor, at + i>>]
  BY DEF Rowset
<1> HIDE DEF r, left
<1>3. ASSUME NEW i \in 1 .. r
      PROVE  <<cursor, at + i>> \in Pairs
  <2>1. at + i \in Nat
    BY <1>1
  <2> QED BY <2>1 DEF Pairs
<1>4. Rowset(n) \in Seq(Pairs) /\ Len(Rowset(n)) = r
  BY <1>1, <1>2, <1>3, IsASeq
<1> QED BY <1>1, <1>2, <1>4

(* Rows written from a place on that lies behind other rows, or in them.   *)
WrittenCells(cells, first, rowset) ==
    [p \in DOMAIN cells \cup (first .. first + Len(rowset) - 1) |->
        IF p >= first /\ p < first + Len(rowset) THEN rowset[p - first + 1] ELSE cells[p]]

AreWritten(W, cells, first, rowset) ==
    /\ W \in Seq(Pairs)
    /\ Len(W) = IF first + Len(rowset) - 1 > Len(cells)
                THEN first + Len(rowset) - 1 ELSE Len(cells)
    /\ \A i \in 1 .. first - 1 : W[i] = cells[i]
    /\ \A i \in 1 .. Len(rowset) : W[first + i - 1] = rowset[i]

LEMMA WrittenParts ==
    ASSUME NEW cells \in Seq(Pairs), NEW rowset \in Seq(Pairs),
           NEW first \in Nat \ {0}, first <= Len(cells) + 1
    PROVE  AreWritten(WrittenCells(cells, first, rowset), cells, first, rowset)
<1> DEFINE n == Len(cells)
           r == Len(rowset)
           m == IF first + r - 1 > n THEN first + r - 1 ELSE n
           W == WrittenCells(cells, first, rowset)
<1>1. n \in Nat /\ r \in Nat /\ DOMAIN cells = 1 .. n
  BY LenProperties
<1>2. m \in Nat /\ (1 .. n) \cup (first .. first + r - 1) = 1 .. m
  BY <1>1
<1>3. W = [p \in 1 .. m |-> IF p >= first /\ p < first + r THEN rowset[p - first + 1] ELSE cells[p]]
  BY <1>1, <1>2 DEF WrittenCells
<1>4. ASSUME NEW p \in 1 .. m
      PROVE  (IF p >= first /\ p < first + r THEN rowset[p - first + 1] ELSE cells[p]) \in Pairs
  <2>1. CASE p >= first /\ p < first + r
    <3>1. p - first + 1 \in 1 .. r
      BY <1>1, <1>2, <2>1
    <3> QED BY <2>1, <3>1, ElementOfSeq
  <2>2. CASE ~(p >= first /\ p < first + r)
    <3>1. p \in 1 .. n
      BY <1>1, <1>2, <2>2
    <3> QED BY <2>2, <3>1, ElementOfSeq
  <2> QED BY <2>1, <2>2
<1>5. W \in Seq(Pairs) /\ Len(W) = m
  BY <1>2, <1>3, <1>4, IsASeq
<1>6. \A i \in 1 .. first - 1 : i \in 1 .. m /\ ~(i >= first)
  BY <1>1, <1>2
<1>7. \A i \in 1 .. r : /\ first + i - 1 \in 1 .. m
                        /\ first + i - 1 >= first /\ first + i - 1 < first + r
                        /\ (first + i - 1) - first + 1 = i
  BY <1>1, <1>2
<1> HIDE DEF m, n, r
<1>8. \A i \in 1 .. first - 1 : W[i] = cells[i]
  BY <1>3, <1>6
<1>9. \A i \in 1 .. r : W[first + i - 1] = rowset[i]
  BY <1>3, <1>7
<1> QED BY <1>5, <1>8, <1>9 DEF m, n, r, AreWritten

(* What a result set is after its next rows were stored and counted.       *)
Grown(set, cells, count, ended) ==
    [kind |-> set.kind, total |-> set.total, live |-> set.live,
     cells |-> cells, count |-> count, ended |-> ended]

LEMMA ResultSetParts ==
    ASSUME NEW set \in ResultSets
    PROVE  /\ set.kind \in {"compact", "standard"} /\ set.total \in 0 .. MaxTotal
           /\ set.live \in BOOLEAN /\ set.cells \in Seq(Pairs)
           /\ set.count \in Nat /\ set.ended \in BOOLEAN
           /\ set = Grown(set, set.cells, set.count, set.ended)
BY DEF ResultSets, Grown

LEMMA GrownIsResultSet ==
    ASSUME NEW set \in ResultSets, NEW cells \in Seq(Pairs), NEW count \in Nat, NEW ended \in BOOLEAN
    PROVE  Grown(set, cells, count, ended) \in ResultSets
BY DEF ResultSets, Grown

(* A rowset goes to the cells of the set the columns are bound to.         *)
LEMMA FilledParts ==
    ASSUME NEW b, NEW rowset, NEW s \in 1 .. Newest, sets[s] \in ResultSets
    PROVE  Filled(b, rowset)[s] =
                IF s # b.set THEN sets[s]
                ELSE Grown(sets[s], WrittenCells(sets[s].cells, b.first, rowset),
                           sets[s].count, sets[s].ended)
<1> DEFINE cells == [p \in DOMAIN sets[s].cells \cup (b.first .. b.first + Len(rowset) - 1) |->
                        IF p >= b.first /\ p < b.first + Len(rowset)
                        THEN rowset[p - b.first + 1] ELSE sets[s].cells[p]]
<1>1. Filled(b, rowset)[s] = IF s # b.set THEN sets[s] ELSE [sets[s] EXCEPT !.cells = cells]
  BY DEF Filled
<1>2. cells = WrittenCells(sets[s].cells, b.first, rowset)
  BY DEF WrittenCells
<1> HIDE DEF cells
<1>3. [sets[s] EXCEPT !.cells = cells] = Grown(sets[s], cells, sets[s].count, sets[s].ended)
  BY ResultSetParts DEF Grown, ResultSets
<1> QED BY <1>1, <1>2, <1>3
(* The result sets after the driver has written a rowset, before anything  *)
(* is counted.                                                             *)
IsFilled(f, b, rowset) ==
    /\ f \in Seq(ResultSets) /\ Len(f) = Newest
    /\ \A s \in 1 .. Newest :
        /\ f[s].kind = sets[s].kind /\ f[s].total = sets[s].total /\ f[s].live = sets[s].live
        /\ f[s].count = sets[s].count /\ f[s].ended = sets[s].ended
        /\ f[s].cells = IF s = b.set THEN WrittenCells(sets[s].cells, b.first, rowset)
                        ELSE sets[s].cells

LEMMA SetsParts ==
    ASSUME SetsInv
    PROVE  /\ Newest \in Nat /\ Newest = Len(sets) /\ DOMAIN sets = 1 .. Newest
           /\ \A s \in 1 .. Newest :
                /\ sets[s] \in ResultSets
                /\ sets[s].cells \in Seq(Pairs) /\ Len(sets[s].cells) \in Nat
                /\ sets[s].count \in Nat /\ sets[s].count <= Len(sets[s].cells)
                /\ sets[s].total \in Nat
<1>1. /\ Newest \in Nat /\ Newest = Len(sets) /\ DOMAIN sets = 1 .. Newest
      /\ \A s \in 1 .. Newest : sets[s] \in ResultSets
  BY LenProperties, ElementOfSeq DEF SetsInv, Newest
<1>2. ASSUME NEW s \in 1 .. Newest
      PROVE  /\ sets[s].cells \in Seq(Pairs) /\ Len(sets[s].cells) \in Nat
             /\ sets[s].count \in Nat /\ sets[s].total \in Nat
  BY <1>1, ResultSetParts, ReuseBounds, LenProperties
<1> QED BY <1>1, <1>2 DEF SetsInv

LEMMA FillingFills ==
    ASSUME SetsInv, NEW b, NEW rowset \in Seq(Pairs),
           b.set # 0 => b.first \in 1 .. sets[b.set].count + 1,
           b.set \in 0 .. Newest
    PROVE  IsFilled(Filled(b, rowset), b, rowset)
<1> DEFINE f == Filled(b, rowset)
<1>1. ASSUME NEW s \in 1 .. Newest
      PROVE  /\ f[s] \in ResultSets
             /\ f[s].kind = sets[s].kind /\ f[s].total = sets[s].total /\ f[s].live = sets[s].live
             /\ f[s].count = sets[s].count /\ f[s].ended = sets[s].ended
             /\ f[s].cells = IF s = b.set THEN WrittenCells(sets[s].cells, b.first, rowset)
                             ELSE sets[s].cells
  <2>1. sets[s] \in ResultSets /\ sets[s].cells \in Seq(Pairs) /\ Newest \in Nat
        /\ Len(sets[s].cells) \in Nat /\ sets[s].count \in Nat
        /\ sets[s].count <= Len(sets[s].cells)
    BY SetsParts
  <2>2. f[s] = IF s # b.set THEN sets[s]
               ELSE Grown(sets[s], WrittenCells(sets[s].cells, b.first, rowset),
                          sets[s].count, sets[s].ended)
    BY <2>1, FilledParts
  <2>3. CASE s # b.set
    BY <2>1, <2>2, <2>3
  <2>4. CASE s = b.set
    <3>1. b.first \in Nat \ {0} /\ b.first <= Len(sets[s].cells) + 1
      BY <2>1, <2>4
    <3>2. WrittenCells(sets[s].cells, b.first, rowset) \in Seq(Pairs)
      BY <2>1, <3>1, WrittenParts DEF AreWritten
    <3>3. f[s] \in ResultSets
      <4>1. sets[s].count \in Nat /\ sets[s].ended \in BOOLEAN
        BY <2>1, ResultSetParts
      <4>2. Grown(sets[s], WrittenCells(sets[s].cells, b.first, rowset),
                  sets[s].count, sets[s].ended) \in ResultSets
        BY <2>1, <3>2, <4>1, GrownIsResultSet
      <4> QED BY <2>2, <2>4, <4>2
    <3> QED BY <2>2, <2>4, <3>3 DEF Grown
  <2> QED BY <2>3, <2>4
<1>2. f \in Seq(ResultSets) /\ Len(f) = Newest
  <2>1. Newest \in Nat
    BY SetsParts
  <2>2. f = [s \in 1 .. Newest |-> f[s]]
    BY DEF Filled
  <2> HIDE DEF f
  <2> QED BY <1>1, <2>1, <2>2, IsASeq
<1> HIDE DEF f
<1> QED BY <1>1, <1>2 DEF IsFilled, f

CountThenEnd(g) ==
    \A k, e : [[g EXCEPT !.count = k] EXCEPT !.ended = e] = Grown(g, g.cells, k, e)

WriteThenCount(g) ==
    \A c, k : [[g EXCEPT !.cells = c] EXCEPT !.count = k] = Grown(g, c, k, g.ended)

(* What counting, ending and appending do to one of them.                  *)
LEMMA ExceptsGrow ==
    ASSUME NEW g \in ResultSets
    PROVE  CountThenEnd(g) /\ WriteThenCount(g)
<1>1. \A h, x : h = Grown(h, h.cells, h.count, h.ended) =>
            /\ [h EXCEPT !.cells = x] = Grown(h, x, h.count, h.ended)
            /\ [h EXCEPT !.count = x] = Grown(h, h.cells, x, h.ended)
            /\ [h EXCEPT !.ended = x] = Grown(h, h.cells, h.count, x)
  BY DEF Grown
<1>2. g = Grown(g, g.cells, g.count, g.ended)
  BY ResultSetParts
<1>3. \A x, y, z : Grown(g, x, y, z) =
            Grown(Grown(g, x, y, z), Grown(g, x, y, z).cells, Grown(g, x, y, z).count, Grown(g, x, y, z).ended)
  BY DEF Grown
<1>4. \A k, e : [Grown(g, g.cells, k, g.ended) EXCEPT !.ended = e] = Grown(g, g.cells, k, e)
  BY <1>1, <1>3 DEF Grown
<1>5. \A c, k : [Grown(g, c, g.count, g.ended) EXCEPT !.count = k] = Grown(g, c, k, g.ended)
  BY <1>1, <1>3 DEF Grown
<1>6. \A k : [g EXCEPT !.count = k] = Grown(g, g.cells, k, g.ended)
  BY <1>1, <1>2
<1>7. \A c : [g EXCEPT !.cells = c] = Grown(g, c, g.count, g.ended)
  BY <1>1, <1>2
<1>8. \A k, e : [[g EXCEPT !.count = k] EXCEPT !.ended = e] = Grown(g, g.cells, k, e)
  BY <1>4, <1>6, Zenon
<1>9. \A c, k : [[g EXCEPT !.cells = c] EXCEPT !.count = k] = Grown(g, c, k, g.ended)
  BY <1>5, <1>7, Zenon
<1> QED BY <1>8, <1>9 DEF CountThenEnd, WriteThenCount

CountingGrows(f, q, r, e) ==
    [f EXCEPT ![q].count = @ + r, ![q].ended = e]
        = [f EXCEPT ![q] = Grown(f[q], f[q].cells, f[q].count + r, e)]

EndingGrows(f, q, e) ==
    [f EXCEPT ![q].ended = e] = [f EXCEPT ![q] = Grown(f[q], f[q].cells, f[q].count, e)]

AppendingGrows(f, q, row) ==
    [f EXCEPT ![q].cells = Append(@, row), ![q].count = @ + 1]
        = [f EXCEPT ![q] = Grown(f[q], Append(f[q].cells, row), f[q].count + 1, f[q].ended)]

LEMMA GrownSets ==
    ASSUME NEW f \in Seq(ResultSets), NEW q \in 1 .. Len(f)
    PROVE  \A r, e, row : /\ CountingGrows(f, q, r, e)
                          /\ EndingGrows(f, q, e)
                          /\ AppendingGrows(f, q, row)
<1> SUFFICES ASSUME NEW r, NEW e, NEW row
             PROVE  CountingGrows(f, q, r, e) /\ EndingGrows(f, q, e) /\ AppendingGrows(f, q, row)
  OBVIOUS
<1>1. f[q] \in ResultSets /\ DOMAIN f = 1 .. Len(f)
  BY ElementOfSeq
<1>2. f[q] = [kind |-> f[q].kind, total |-> f[q].total, live |-> f[q].live,
              cells |-> f[q].cells, count |-> f[q].count, ended |-> f[q].ended]
  BY <1>1 DEF ResultSets
<1> DEFINE g == f[q]
<1>3. CountThenEnd(g) /\ WriteThenCount(g)
  BY <1>1, ExceptsGrow
<1>4. [g EXCEPT !.ended = e] = Grown(g, g.cells, g.count, e)
  BY <1>2 DEF Grown
<1>6. [f EXCEPT ![q].count = @ + r, ![q].ended = e]
        = [f EXCEPT ![q] = [[g EXCEPT !.count = f[q].count + r] EXCEPT !.ended = e]]
  BY <1>1
<1>7. [f EXCEPT ![q].ended = e] = [f EXCEPT ![q] = [g EXCEPT !.ended = e]]
  BY <1>1
<1>8. [f EXCEPT ![q].cells = Append(@, row), ![q].count = @ + 1]
        = [f EXCEPT ![q] = [[g EXCEPT !.cells = Append(f[q].cells, row)] EXCEPT !.count = f[q].count + 1]]
  BY <1>1
<1> HIDE DEF g
<1>9. CountingGrows(f, q, r, e)
  <2>1. [[g EXCEPT !.count = f[q].count + r] EXCEPT !.ended = e] = Grown(g, g.cells, f[q].count + r, e)
    BY <1>3 DEF CountThenEnd
  <2> QED BY <1>6, <2>1 DEF CountingGrows, g
<1>10. EndingGrows(f, q, e)
  BY <1>4, <1>7 DEF EndingGrows, g
<1>11. AppendingGrows(f, q, row)
  <2>1. [[g EXCEPT !.cells = Append(f[q].cells, row)] EXCEPT !.count = f[q].count + 1]
            = Grown(g, Append(f[q].cells, row), f[q].count + 1, g.ended)
    BY <1>3 DEF WriteThenCount
  <2> QED BY <1>8, <2>1 DEF AppendingGrows, g
<1> QED BY <1>9, <1>10, <1>11
-----------------------------------------------------------------------------
(* The result sets of the next state, by what was written and counted.     *)

LEMMA FilledIsLonger ==
    ASSUME SetsInv, NEW b, NEW rowset \in Seq(Pairs), b.set \in 0 .. Newest,
           b.set # 0 => b.first \in 1 .. sets[b.set].count + 1,
           NEW f, IsFilled(f, b, rowset), NEW s \in 1 .. Newest
    PROVE  /\ f[s].cells \in Seq(Pairs) /\ Len(f[s].cells) \in Nat
           /\ Len(f[s].cells) >= Len(sets[s].cells)
           /\ s = b.set => AreWritten(f[s].cells, sets[s].cells, b.first, rowset)
<1>1. /\ sets[s].cells \in Seq(Pairs) /\ Len(sets[s].cells) \in Nat
      /\ sets[s].count \in Nat /\ sets[s].count <= Len(sets[s].cells)
  BY SetsParts
<1>2. CASE s # b.set
  BY <1>1, <1>2 DEF IsFilled
<1>3. CASE s = b.set
  <2>1. b.first \in Nat \ {0} /\ b.first <= Len(sets[s].cells) + 1
    <3> DEFINE count == sets[s].count
               len == Len(sets[s].cells)
               first == b.first
    <3>1. s # 0
      BY SetsParts
    <3>2. first \in 1 .. count + 1 /\ count \in Nat /\ len \in Nat /\ count <= len
      BY <1>1, <1>3, <3>1
    <3> HIDE DEF count, len, first
    <3>3. first \in Nat \ {0} /\ first <= len + 1
      BY <3>2
    <3> QED BY <3>3 DEF len, first
  <2>2. f[s].cells = WrittenCells(sets[s].cells, b.first, rowset)
    BY <1>3 DEF IsFilled
  <2>3. AreWritten(f[s].cells, sets[s].cells, b.first, rowset)
    BY <1>1, <2>1, <2>2, WrittenParts
  <2>4. Len(f[s].cells) >= Len(sets[s].cells) /\ f[s].cells \in Seq(Pairs)
    BY <1>1, <2>1, <2>3, LenProperties DEF AreWritten
  <2> QED BY <2>3, <2>4, LenProperties
<1> QED BY <1>2, <1>3

Grew(f, q, cells, count, ended) ==
    /\ sets' \in Seq(ResultSets) /\ Newest' = Newest
    /\ \A s \in 1 .. Newest :
        /\ sets'[s].kind = sets[s].kind /\ sets'[s].total = sets[s].total
        /\ sets'[s].live = sets[s].live
        /\ sets'[s].cells = IF s = q THEN cells ELSE f[s].cells
        /\ sets'[s].count = IF s = q THEN count ELSE sets[s].count
        /\ sets'[s].ended = IF s = q THEN ended ELSE sets[s].ended

LEMMA GrowingGrows ==
    ASSUME SetsInv, NEW b, NEW rowset, NEW f, IsFilled(f, b, rowset), NEW q \in 1 .. Newest,
           NEW cells \in Seq(Pairs), NEW count \in Nat, NEW ended \in BOOLEAN,
           sets' = [f EXCEPT ![q] = Grown(f[q], cells, count, ended)]
    PROVE  Grew(f, q, cells, count, ended)
<1>1. f \in Seq(ResultSets) /\ Len(f) = Newest /\ q \in 1 .. Len(f) /\ f[q] \in ResultSets
  BY ElementOfSeq DEF IsFilled
<1>2. Grown(f[q], cells, count, ended) \in ResultSets
  BY <1>1, GrownIsResultSet
<1> DEFINE g == Grown(f[q], cells, count, ended)
<1>3. /\ g.kind = f[q].kind /\ g.total = f[q].total /\ g.live = f[q].live
      /\ g.cells = cells /\ g.count = count /\ g.ended = ended
  BY DEF Grown
<1> HIDE DEF g
<1>4. /\ sets' \in Seq(ResultSets) /\ Len(sets') = Newest
      /\ \A s \in 1 .. Newest : sets'[s] = IF s = q THEN g ELSE f[s]
  BY <1>1, <1>2, ExceptSeq DEF g
<1> QED BY <1>3, <1>4 DEF Grew, IsFilled, Newest

(* What a reader has seen of the result sets stays.                        *)
RowsStay ==
    OneKind =>
        /\ Newest' >= Newest
        /\ \A s \in 1 .. Newest :
            /\ sets'[s].count >= sets[s].count
            /\ \A i \in 1 .. sets[s].count : sets'[s].cells[i] = sets[s].cells[i]

-----------------------------------------------------------------------------
LEMMA InitEstablishes == Init => ReuseInv
<1> SUFFICES ASSUME Init PROVE ReuseInv
  OBVIOUS
<1>1. Newest = 0 /\ sets \in Seq(ResultSets)
  BY EmptySeq DEF Init, Newest
<1>2. 0 \in 0 .. MaxTotal
  BY ReuseBounds
<1>3. SetsInv
  BY <1>1 DEF SetsInv
<1>4. CursorInv
  BY <1>1 DEF Init, CursorInv
<1>5. BindingInv
  BY <1>1 DEF Init, BindingInv, Bindings, Unbound
<1>6. OneKindInv
  BY <1>1 DEF Init, OneKindInv
<1>7. NewestInv
  BY <1>1 DEF Init, NewestInv
<1>8. /\ program \in Programs /\ max_rows \in 0 .. MaxTotal
      /\ executed \in {"none", "ran", "refused"} /\ stray \in BOOLEAN
  BY <1>2 DEF Init
<1> QED BY <1>3, <1>4, <1>5, <1>6, <1>7, <1>8 DEF ReuseInv

LEMMA RowsAreTheSame ==
    ASSUME SetsInv, Newest' = Newest,
           \A s \in 1 .. Newest : sets'[s].count = sets[s].count /\ sets'[s].cells = sets[s].cells
    PROVE  RowsStay
BY SetsParts DEF RowsStay

(* The handle's attributes, and statements without rows.                   *)
LEMMA HandleKeeps ==
    ASSUME ReuseInv, max_rows' \in 0 .. MaxTotal, executed' \in {"none", "ran", "refused"},
           UNCHANGED <<program, cursor, at, bound, sets, stray>>
    PROVE  ReuseInv' /\ RowsStay
<1>1. RowsStay
  BY RowsAreTheSame DEF ReuseInv, Newest
<1> QED BY <1>1 DEF ReuseInv, SetsInv, CursorInv, BindingInv, OneKindInv, NewestInv, OneKind,
         Kinds, Newest

LEMMA DestroyKeeps ==
    ASSUME ReuseInv, NEW q \in 1 .. Newest, DestroyResultSet(q)
    PROVE  ReuseInv' /\ RowsStay
<1>1. /\ UNCHANGED <<program, max_rows, cursor, at, bound, executed, stray>>
      /\ sets' = [sets EXCEPT ![q] = [sets[q] EXCEPT !.live = FALSE]]
      /\ SetsInv /\ sets \in Seq(ResultSets) /\ q \in 1 .. Len(sets)
  BY SetsParts DEF DestroyResultSet, ReuseInv, SetsInv
<1>2. sets[q] \in ResultSets
  BY <1>1, ElementOfSeq
<1> DEFINE g == [sets[q] EXCEPT !.live = FALSE]
<1>3. /\ g \in ResultSets
      /\ g.kind = sets[q].kind /\ g.total = sets[q].total /\ g.cells = sets[q].cells
      /\ g.count = sets[q].count /\ g.ended = sets[q].ended
  BY <1>2 DEF ResultSets
<1> HIDE DEF g
<1>4. /\ sets' \in Seq(ResultSets) /\ Newest' = Newest
      /\ \A s \in 1 .. Newest : sets'[s] = IF s = q THEN g ELSE sets[s]
  BY <1>1, <1>3, ExceptSeq DEF g, Newest
<1>5. \A s \in 1 .. Newest :
        /\ sets'[s].kind = sets[s].kind /\ sets'[s].total = sets[s].total
        /\ sets'[s].cells = sets[s].cells
        /\ sets'[s].count = sets[s].count /\ sets'[s].ended = sets[s].ended
  BY <1>3, <1>4
<1>6. RowsStay
  BY <1>1, <1>4, <1>5, RowsAreTheSame
<1>7. Newest \in Nat
  BY <1>1, SetsParts
<1>8. SetsInv' /\ CursorInv' /\ BindingInv'
  BY <1>1, <1>4, <1>5, <1>7 DEF ReuseInv, SetsInv, CursorInv, BindingInv, Kinds
<1>9. OneKindInv' /\ NewestInv'
  BY <1>1, <1>4, <1>5, <1>7 DEF ReuseInv, CursorInv, OneKindInv, NewestInv, OneKind
<1> QED BY <1>1, <1>6, <1>8, <1>9 DEF ReuseInv

LEMMA QueryKeeps ==
    ASSUME ReuseInv, NEW kind \in Kinds, NEW rows \in 0 .. MaxTotal, execute_query(kind, rows)
    PROVE  ReuseInv' /\ RowsStay
<1> DEFINE set == [kind |-> kind, total |-> Limited(rows), live |-> TRUE,
                   cells |-> << >>, count |-> 0, ended |-> FALSE]
           n == Newest
<1>1. /\ UNCHANGED <<program, max_rows, bound, executed, stray>>
      /\ sets' = Append(sets, set) /\ cursor' = n + 1 /\ at' = 0
      /\ SetsInv /\ sets \in Seq(ResultSets) /\ n \in Nat /\ n = Len(sets)
  BY SetsParts DEF execute_query, free_stmt_close, ReuseInv, SetsInv
<1>2. Limited(rows) \in 0 .. MaxTotal
  BY ReuseBounds DEF Limited, ReuseInv
<1>3. /\ set \in ResultSets /\ set.kind = kind /\ set.count = 0 /\ set.ended = FALSE
      /\ set.cells = << >> /\ set.total = Limited(rows)
  BY <1>2, EmptySeq DEF ResultSets, Kinds
<1> HIDE DEF set
<1>4. /\ sets' \in Seq(ResultSets) /\ Len(sets') = n + 1
      /\ \A s \in 1 .. n : sets'[s] = sets[s]
      /\ sets'[n + 1] = set
  BY <1>1, <1>3, AppendProperties
<1>5. Newest' = n + 1 /\ \A s \in 1 .. n + 1 : s \in 1 .. n \/ s = n + 1
  BY <1>1, <1>4 DEF Newest
<1>6. Len(set.cells) = 0 /\ set.total \in Nat
  BY <1>2, <1>3, ReuseBounds, EmptySeq
<1>7. \A s \in 1 .. n : sets[s].count \in Nat
  BY <1>1, SetsParts
<1> HIDE DEF n
<1>8. RowsStay
  BY <1>1, <1>4, <1>5, <1>7 DEF RowsStay, n
<1>9. SetsInv'
  BY <1>1, <1>3, <1>4, <1>5, <1>6 DEF SetsInv, Kinds, n
<1>10. CursorInv'
  BY <1>1, <1>4, <1>5, <1>6 DEF CursorInv
<1>11. BindingInv'
  <2>1. bound \in Bindings /\ bound.set \in Nat /\ bound.set <= n
    BY DEF ReuseInv, BindingInv, Bindings, n
  <2>2. bound.set # 0 => sets'[bound.set] = sets[bound.set]
    BY <1>1, <1>4, <2>1
  <2> QED BY <1>1, <1>5, <2>1, <2>2 DEF ReuseInv, BindingInv
<1>12. OneKindInv'
  BY <1>1, <1>3, <1>4, <1>5, <1>6 DEF ReuseInv, OneKindInv, OneKind, n
<1>13. NewestInv'
  <2> SUFFICES ASSUME OneKind, "old" \notin program PROVE NewestInv'
    BY <1>1 DEF NewestInv, OneKind
  <2>1. sets'[cursor'].count = at'
    BY <1>1, <1>3, <1>4
  <2>2. ASSUME NEW s \in 1 .. n + 1
        PROVE  /\ \A i \in 1 .. sets'[s].count : sets'[s].cells[i] = <<s, i>>
               /\ sets'[s].ended => sets'[s].count = sets'[s].total
    <3>1. CASE s \in 1 .. n
      BY <1>4, <3>1 DEF ReuseInv, NewestInv, n
    <3>2. CASE s = n + 1
      BY <1>3, <1>4, <3>2
    <3> QED BY <1>5, <3>1, <3>2
  <2> QED BY <1>5, <2>1, <2>2 DEF NewestInv
<1> QED BY <1>1, <1>8, <1>9, <1>10, <1>11, <1>12, <1>13 DEF ReuseInv

(* The cursor whose rows are fetched: there is one as soon as there is a   *)
(* result set.                                                             *)
LEMMA CursorParts ==
    ASSUME ReuseInv, NEW q \in 1 .. Newest
    PROVE  /\ cursor = Newest /\ cursor \in 1 .. Newest /\ at \in Nat
           /\ sets[cursor].total \in Nat /\ at <= sets[cursor].total
<1>1. Newest \in Nat /\ \A s \in 1 .. Newest : sets[s].total \in Nat
  BY SetsParts DEF ReuseInv
<1> QED BY <1>1 DEF ReuseInv, CursorInv

LEMMA FetchKeeps ==
    ASSUME ReuseInv, NEW q \in 1 .. Newest, NEW n \in Quantities, fetch_many(q, n)
    PROVE  ReuseInv' /\ RowsStay
<1> DEFINE b == Binding(q, n)
           rowset == Rowset(b.rows)
           r == Len(rowset)
           f == Filled(b, rowset)
           count == sets[q].count
<1>1. SetsInv /\ Newest \in Nat /\ sets[q] \in ResultSets /\ count \in Nat
      /\ sets[q].cells \in Seq(Pairs) /\ Len(sets[q].cells) \in Nat
      /\ count <= Len(sets[q].cells)
  BY SetsParts DEF ReuseInv
<1>2. b.set = q /\ b.first = count + 1 /\ b.rows = n /\ n \in Nat \ {0} /\ b \in Bindings
  BY <1>1, ReuseBounds DEF Binding, Bindings
<1>3. /\ rowset \in Seq(Pairs) /\ r \in Nat /\ r <= n /\ at + r <= sets[cursor].total
      /\ (r < n => at + r = sets[cursor].total)
      /\ \A i \in 1 .. r : rowset[i] = <<cursor, at + i>>
  BY <1>2, CursorParts, RowsetParts
<1>4. IsFilled(f, b, rowset)
  BY <1>1, <1>2, <1>3, FillingFills
<1>5. f \in Seq(ResultSets) /\ q \in 1 .. Len(f) /\ f[q].count = count
      /\ f[q].cells \in Seq(Pairs) /\ Len(f[q].cells) \in Nat
      /\ AreWritten(f[q].cells, sets[q].cells, b.first, rowset)
  <2>1. b.set \in 0 .. Newest /\ (b.set # 0 => b.first \in 1 .. sets[b.set].count + 1)
    BY <1>1, <1>2
  <2> HIDE DEF b, rowset, r, f
  <2>2. f \in Seq(ResultSets) /\ Len(f) = Newest /\ f[q].count = count
    BY <1>4 DEF IsFilled
  <2>3. f[q].cells \in Seq(Pairs) /\ Len(f[q].cells) \in Nat
        /\ AreWritten(f[q].cells, sets[q].cells, b.first, rowset)
    BY <1>1, <1>2, <1>3, <1>4, <2>1, FilledIsLonger
  <2> QED BY <2>2, <2>3
<1>6. /\ UNCHANGED <<program, max_rows, cursor, executed>>
      /\ bound' = b /\ at' = at + r
      /\ sets' = [f EXCEPT ![q].count = @ + r, ![q].ended = r < n]
      /\ stray' = (stray \/ ~sets[b.set].live)
      /\ sets[q].live /\ sets[q].kind = "compact"
      /\ ("old" \in program \/ q = Newest)
  BY <1>2 DEF fetch_many, Usable
<1>7. sets' = [f EXCEPT ![q] = Grown(f[q], f[q].cells, count + r, r < n)]
  <2> DEFINE short == r < n
  <2> HIDE DEF f, b, rowset, r, count, short
  <2>1. [f EXCEPT ![q].count = @ + r, ![q].ended = short]
          = [f EXCEPT ![q] = Grown(f[q], f[q].cells, f[q].count + r, short)]
    <3>1. CountingGrows(f, q, r, short)
      BY <1>5, GrownSets
    <3> QED BY <3>1 DEF CountingGrows
  <2>2. sets' = [f EXCEPT ![q].count = @ + r, ![q].ended = short]
    BY <1>6 DEF short
  <2> QED BY <1>5, <2>1, <2>2 DEF short
<1>8. Grew(f, q, f[q].cells, count + r, r < n)
  <2>1. (r < n) \in BOOLEAN /\ count + r \in Nat
    BY <1>1, <1>3
  <2> HIDE DEF f, b, rowset, r, count
  <2> QED BY <1>1, <1>4, <1>5, <1>7, <2>1, GrowingGrows
<1> HIDE DEF f, b, rowset, r, count
<1>9. /\ sets' \in Seq(ResultSets) /\ Newest' = Newest
      /\ \A s \in 1 .. Newest : s # q =>
            sets'[s].cells = sets[s].cells /\ sets'[s].count = sets[s].count
            /\ sets'[s].ended = sets[s].ended
      /\ \A s \in 1 .. Newest : sets'[s].kind = sets[s].kind /\ sets'[s].total = sets[s].total
      /\ sets'[q].cells = f[q].cells /\ sets'[q].count = count + r
      /\ sets'[q].ended = (r < n)
  BY <1>2, <1>4, <1>8 DEF Grew, IsFilled
<1>10. /\ Len(f[q].cells) = IF count + r > Len(sets[q].cells) THEN count + r ELSE Len(sets[q].cells)
       /\ \A i \in 1 .. count : f[q].cells[i] = sets[q].cells[i]
       /\ \A i \in 1 .. r : f[q].cells[count + i] = <<cursor, at + i>>
  <2>1. \A i : i \in 1 .. r => (count + 1) + i - 1 = count + i
    BY <1>1, <1>3
  <2>2. (count + 1) - 1 = count /\ (count + 1) + r - 1 = count + r
    BY <1>1, <1>3
  <2> DEFINE new == f[q].cells
             old == sets[q].cells
  <2>3. b.first = count + 1 /\ r = Len(rowset) /\ AreWritten(new, old, count + 1, rowset)
    BY <1>2, <1>3, <1>5 DEF r
  <2>4. \A i \in 1 .. r : rowset[i] = <<cursor, at + i>>
    BY <1>3
  <2> HIDE DEF new, old
  <2>5. /\ Len(new) = IF (count + 1) + r - 1 > Len(old) THEN (count + 1) + r - 1 ELSE Len(old)
        /\ \A i \in 1 .. (count + 1) - 1 : new[i] = old[i]
        /\ \A i \in 1 .. r : new[(count + 1) + i - 1] = rowset[i]
    BY <2>3 DEF AreWritten
  <2>6. \A i \in 1 .. r : new[count + i] = <<cursor, at + i>>
    BY <2>1, <2>4, <2>5
  <2> QED BY <2>2, <2>5, <2>6 DEF new, old
<1>11. RowsStay
  <2>1. \A s \in 1 .. Newest : sets[s].count \in Nat
    BY <1>1, SetsParts
  <2>2. sets'[q].count >= sets[q].count
        /\ \A i \in 1 .. sets[q].count : sets'[q].cells[i] = sets[q].cells[i]
    <3>1. count \in Nat /\ r \in Nat /\ sets'[q].count = count + r
      BY <1>1, <1>3, <1>9 DEF count
    <3>2. sets'[q].count >= count
      BY <3>1
    <3>3. \A i \in 1 .. count : sets'[q].cells[i] = sets[q].cells[i]
      BY <1>9, <1>10
    <3> QED BY <3>2, <3>3 DEF count
  <2>3. ASSUME NEW s \in 1 .. Newest
        PROVE  /\ sets'[s].count >= sets[s].count
               /\ \A i \in 1 .. sets[s].count : sets'[s].cells[i] = sets[s].cells[i]
    BY <1>9, <2>1, <2>2
  <2> QED BY <1>1, <1>9, <2>3 DEF RowsStay
<1>12. SetsInv'
  <2>1. ASSUME NEW s \in 1 .. Newest
        PROVE  sets'[s].kind \in Kinds /\ sets'[s].count <= Len(sets'[s].cells)
    <3>1. sets'[q].count <= Len(sets'[q].cells)
      BY <1>1, <1>3, <1>9, <1>10
    <3> QED BY <1>1, <1>9, <3>1 DEF SetsInv
  <2>2. Kinds' = Kinds
    BY <1>6 DEF Kinds
  <2>3. \A s \in 1 .. Newest' : sets'[s].kind \in Kinds /\ sets'[s].count <= Len(sets'[s].cells)
    BY <1>9, <2>1
  <2> HIDE DEF Kinds
  <2> QED BY <1>9, <2>2, <2>3 DEF SetsInv
<1>13. CursorInv'
  <2>1. cursor = Newest /\ cursor \in 1 .. Newest /\ at \in Nat
    BY CursorParts
  <2>2. cursor' # 0 /\ sets'[cursor'].total = sets[cursor].total
    <3>1. cursor' = cursor /\ cursor # 0
      BY <1>1, <1>6, <2>1
    <3>2. sets'[cursor].total = sets[cursor].total
      BY <1>9, <2>1
    <3> QED BY <3>1, <3>2
  <2>3. at' \in Nat /\ at' <= sets'[cursor'].total
    BY <1>3, <1>6, <2>1, <2>2
  <2> QED BY <1>6, <1>9, <2>1, <2>2, <2>3 DEF CursorInv
<1>14. BindingInv'
  BY <1>1, <1>2, <1>3, <1>6, <1>9 DEF BindingInv
<1>15. OneKindInv'
  <2> SUFFICES ASSUME OneKind PROVE OneKindInv'
    BY <1>6 DEF OneKindInv, OneKind
  <2>1. "standard" \notin program
    BY <1>1, <1>6 DEF OneKind, SetsInv, Kinds
  <2>2. ~stray /\ \A s \in 1 .. Newest : Len(sets[s].cells) = sets[s].count
    BY DEF ReuseInv, OneKindInv
  <2>3. ~stray'
    BY <1>2, <1>6, <2>2
  <2>4. Len(sets'[q].cells) = sets'[q].count
    <3> DEFINE new == Len(f[q].cells)
    <3>1. Len(sets'[q].cells) = new /\ sets'[q].count = count + r
      BY <1>9
    <3>2. count \in Nat /\ r \in Nat /\ Len(sets[q].cells) = count
      BY <1>1, <1>3, <2>2 DEF count
    <3>3. new = IF count + r > count THEN count + r ELSE count
      BY <1>10, <3>2
    <3> HIDE DEF new
    <3>4. new = count + r
      BY <3>2, <3>3
    <3> QED BY <3>1, <3>4
  <2>5. \A s \in 1 .. Newest : Len(sets'[s].cells) = sets'[s].count
    BY <1>9, <2>2, <2>4
  <2> QED BY <1>6, <1>9, <2>1, <2>3, <2>5 DEF OneKindInv
<1>16. NewestInv'
  <2> SUFFICES ASSUME OneKind, "old" \notin program PROVE NewestInv'
    BY <1>6 DEF NewestInv, OneKind
  <2>1. q = Newest /\ q = cursor
    BY <1>6, CursorParts
  <2>2. count = at /\ \A s \in 1 .. Newest :
            /\ \A i \in 1 .. sets[s].count : sets[s].cells[i] = <<s, i>>
            /\ sets[s].ended => sets[s].count = sets[s].total
    BY <1>1, <2>1 DEF ReuseInv, NewestInv, count
  <2>3. sets'[q].ended => sets'[q].count = sets'[q].total
    BY <1>3, <1>9, <2>1, <2>2
  <2>4. ASSUME NEW i \in 1 .. count + r
        PROVE  sets'[q].cells[i] = <<q, i>>
    <3>1. CASE i \in 1 .. count
      BY <1>9, <1>10, <2>2, <3>1 DEF count
    <3>2. CASE i \notin 1 .. count
      <4>1. i - count \in 1 .. r /\ count + (i - count) = i
        BY <1>1, <1>3, <3>2
      <4>2. f[q].cells[count + (i - count)] = <<cursor, at + (i - count)>>
        BY <1>10, <4>1
      <4> QED BY <1>9, <2>1, <2>2, <4>1, <4>2
    <3> QED BY <3>1, <3>2
  <2>5. ASSUME NEW s \in 1 .. Newest
        PROVE  /\ \A i \in 1 .. sets'[s].count : sets'[s].cells[i] = <<s, i>>
               /\ sets'[s].ended => sets'[s].count = sets'[s].total
    <3>1. CASE s = q
      BY <1>9, <2>3, <2>4, <3>1
    <3>2. CASE s # q
      BY <1>9, <2>2, <3>2
    <3> QED BY <3>1, <3>2
  <2>6. sets'[cursor'].count = at'
    BY <1>6, <1>9, <2>1, <2>2
  <2> QED BY <1>9, <2>5, <2>6 DEF NewestInv
<1> QED BY <1>6, <1>11, <1>12, <1>13, <1>14, <1>15, <1>16 DEF ReuseInv

LEMMA NextKeeps ==
    ASSUME ReuseInv, NEW q \in 1 .. Newest, next(q)
    PROVE  ReuseInv' /\ RowsStay
<1> DEFINE rowset == Rowset(bound.rows)
           r == Len(rowset)
           f == Filled(bound, rowset)
           none == rowset = << >>
           cells == IF none THEN f[q].cells ELSE Append(f[q].cells, Head(rowset))
           count == IF none THEN sets[q].count ELSE sets[q].count + 1
           ended == IF none THEN TRUE ELSE sets[q].ended
<1>1. /\ SetsInv /\ Newest \in Nat
      /\ bound.set \in 0 .. Newest /\ bound.rows \in Nat \ {0}
      /\ (bound.set # 0 => bound.first \in 1 .. sets[bound.set].count + 1)
      /\ bound \in Bindings /\ bound.set <= Newest
  <2>1. SetsInv /\ Newest \in Nat
    BY SetsParts DEF ReuseInv
  <2>2. /\ bound \in Bindings /\ bound.set <= Newest
        /\ (bound.set # 0 => bound.first \in 1 .. sets[bound.set].count + 1)
    BY DEF ReuseInv, BindingInv
  <2>3. bound.set \in Nat /\ bound.rows \in Quantities \cup {1}
    BY <2>2 DEF Bindings
  <2>4. bound.set \in 0 .. Newest
    BY <2>1, <2>2, <2>3
  <2>5. bound.rows \in Nat \ {0}
    <3>1. Quantities \subseteq Nat \ {0}
      BY ReuseBounds
    <3>2. CASE bound.rows \in Quantities
      BY <3>1, <3>2
    <3>3. CASE bound.rows = 1
      BY <3>3
    <3> QED BY <2>3, <3>2, <3>3
  <2> QED BY <2>1, <2>2, <2>4, <2>5
<1>2. /\ rowset \in Seq(Pairs) /\ r \in Nat /\ r <= bound.rows /\ at + r <= sets[cursor].total
      /\ (r < bound.rows => at + r = sets[cursor].total)
      /\ \A i \in 1 .. r : rowset[i] = <<cursor, at + i>>
  BY <1>1, CursorParts, RowsetParts
<1>3. none \/ (r >= 1 /\ Head(rowset) = rowset[1] /\ Head(rowset) \in Pairs)
  <2> HIDE DEF rowset
  <2> SUFFICES ASSUME rowset # << >>
               PROVE  r >= 1 /\ Head(rowset) = rowset[1] /\ Head(rowset) \in Pairs
    OBVIOUS
  <2>1. Head(rowset) \in Pairs
    BY <1>2, HeadTailProperties
  <2>2. r >= 1
    BY <1>2, EmptySeq
  <2>3. Head(rowset) = rowset[1]
    BY <1>2
  <2> QED BY <2>1, <2>2, <2>3
<1>4. none => r = 0
  BY EmptySeq
<1>5. IsFilled(f, bound, rowset)
  BY <1>1, <1>2, FillingFills
<1>6. /\ UNCHANGED <<program, max_rows, cursor, bound, executed>>
      /\ at' = at + r
      /\ sets' = IF none THEN [f EXCEPT ![q].ended = TRUE]
                 ELSE [f EXCEPT ![q].cells = Append(@, Head(rowset)), ![q].count = @ + 1]
      /\ stray' = (stray \/ bound.set # 0)
      /\ sets[q].kind = "standard"
      /\ ("old" \in program \/ q = Newest)
  BY DEF next, Usable
<1> HIDE DEF f, rowset, r
<1>7. /\ f \in Seq(ResultSets) /\ q \in 1 .. Len(f)
      /\ f[q].count = sets[q].count /\ f[q].ended = sets[q].ended
  BY <1>5 DEF IsFilled
<1>8. /\ f[q].cells \in Seq(Pairs) /\ Len(f[q].cells) \in Nat
      /\ Len(f[q].cells) >= Len(sets[q].cells)
      /\ (q = bound.set => AreWritten(f[q].cells, sets[q].cells, bound.first, rowset))
  BY <1>1, <1>2, <1>5, FilledIsLonger
<1>9. /\ sets[q].count \in Nat /\ sets[q].ended \in BOOLEAN
      /\ sets[q].count <= Len(sets[q].cells) /\ Len(sets[q].cells) \in Nat
  BY <1>1, SetsParts, ResultSetParts
<1> HIDE DEF none, cells, count, ended
<1>10. /\ cells \in Seq(Pairs) /\ count \in Nat /\ ended \in BOOLEAN
       /\ Len(cells) = (IF none THEN Len(f[q].cells) ELSE Len(f[q].cells) + 1)
       /\ \A i \in 1 .. Len(f[q].cells) : cells[i] = f[q].cells[i]
       /\ (~none => cells[Len(f[q].cells) + 1] = Head(rowset))
  <2>1. ~none => /\ Append(f[q].cells, Head(rowset)) \in Seq(Pairs)
                 /\ Len(Append(f[q].cells, Head(rowset))) = Len(f[q].cells) + 1
                 /\ \A i \in 1 .. Len(f[q].cells) :
                        Append(f[q].cells, Head(rowset))[i] = f[q].cells[i]
                 /\ Append(f[q].cells, Head(rowset))[Len(f[q].cells) + 1] = Head(rowset)
    BY <1>3, <1>8, AppendProperties
  <2>2. CASE none
    BY <1>8, <1>9, <2>2 DEF cells, count, ended
  <2>3. CASE ~none
    <3>1. cells = Append(f[q].cells, Head(rowset)) /\ count = sets[q].count + 1
          /\ ended = sets[q].ended
      BY <2>3 DEF cells, count, ended
    <3> QED BY <1>9, <2>1, <2>3, <3>1
  <2> QED BY <2>2, <2>3
<1>11. sets' = [f EXCEPT ![q] = Grown(f[q], cells, count, ended)]
  <2>1. EndingGrows(f, q, TRUE) /\ AppendingGrows(f, q, Head(rowset))
    BY <1>7, GrownSets
  <2>2. CASE none
    BY <1>6, <1>7, <2>1, <2>2 DEF EndingGrows, cells, count, ended
  <2>3. CASE ~none
    BY <1>6, <1>7, <2>1, <2>3 DEF AppendingGrows, cells, count, ended
  <2> QED BY <2>2, <2>3
<1>12. Grew(f, q, cells, count, ended)
  BY <1>1, <1>5, <1>10, <1>11, GrowingGrows
<1>13. /\ sets' \in Seq(ResultSets) /\ Newest' = Newest
       /\ \A s \in 1 .. Newest :
            /\ sets'[s].kind = sets[s].kind /\ sets'[s].total = sets[s].total
            /\ sets'[s].cells = IF s = q THEN cells ELSE f[s].cells
            /\ sets'[s].count = IF s = q THEN count ELSE sets[s].count
            /\ sets'[s].ended = IF s = q THEN ended ELSE sets[s].ended
  BY <1>12 DEF Grew
<1>14. SetsInv'
  <2>1. ASSUME NEW s \in 1 .. Newest
        PROVE  sets'[s].kind \in Kinds /\ sets'[s].count <= Len(sets'[s].cells)
    <3>1. sets'[s].kind \in Kinds
      BY <1>1, <1>13 DEF SetsInv
    <3>2. CASE s = q
      <4>1. count <= Len(cells)
        BY <1>8, <1>9, <1>10 DEF count
      <4> QED BY <1>13, <3>1, <3>2, <4>1
    <3>3. CASE s # q
      <4>1. f[s].cells \in Seq(Pairs) /\ Len(f[s].cells) \in Nat
            /\ Len(f[s].cells) >= Len(sets[s].cells)
        BY <1>1, <1>2, <1>5, FilledIsLonger
      <4>2. sets[s].count \in Nat /\ Len(sets[s].cells) \in Nat
            /\ sets[s].count <= Len(sets[s].cells)
        BY <1>1, SetsParts
      <4> QED BY <1>13, <3>1, <3>3, <4>1, <4>2
    <3> QED BY <3>2, <3>3
  <2>2. Kinds' = Kinds
    BY <1>6 DEF Kinds
  <2>3. \A s \in 1 .. Newest' : sets'[s].kind \in Kinds /\ sets'[s].count <= Len(sets'[s].cells)
    BY <1>13, <2>1
  <2> HIDE DEF Kinds
  <2> QED BY <1>13, <2>2, <2>3 DEF SetsInv
<1>15. CursorInv'
  <2>1. cursor = Newest /\ cursor \in 1 .. Newest /\ at \in Nat
    BY CursorParts
  <2>2. cursor' = cursor /\ cursor # 0
    BY <1>1, <1>6, <2>1
  <2>3. sets'[cursor].total = sets[cursor].total
    BY <1>13, <2>1
  <2>4. at' \in Nat /\ at' <= sets'[cursor'].total
    BY <1>2, <1>6, <2>1, <2>2, <2>3
  <2> QED BY <1>13, <2>1, <2>2, <2>4 DEF CursorInv
<1>16. \A s \in 1 .. Newest : sets[s].count \in Nat /\ sets'[s].count \in Nat
                                /\ sets'[s].count >= sets[s].count
  <2>1. \A s \in 1 .. Newest : sets[s].count \in Nat
    BY <1>1, SetsParts
  <2>2. count \in Nat /\ count >= sets[q].count
    BY <1>9, <1>10 DEF count
  <2> QED BY <1>13, <2>1, <2>2
<1>17. BindingInv'
  <2>1. bound.set # 0 => bound.first \in 1 .. sets'[bound.set].count + 1
    <3> SUFFICES ASSUME bound.set # 0 PROVE bound.first \in 1 .. sets'[bound.set].count + 1
      OBVIOUS
    <3>1. bound.set \in 1 .. Newest /\ bound.first \in 1 .. sets[bound.set].count + 1
      BY <1>1
    <3> QED BY <1>16, <3>1
  <2> QED BY <1>1, <1>6, <1>13, <2>1 DEF BindingInv
<1>18. OneKind =>
        /\ "standard" \in program /\ bound = Unbound /\ r <= 1
        /\ \A s \in 1 .. Newest : f[s].cells = sets[s].cells /\ Len(sets[s].cells) = sets[s].count
  <2> SUFFICES ASSUME OneKind
               PROVE  /\ "standard" \in program /\ bound = Unbound /\ r <= 1
                      /\ \A s \in 1 .. Newest :
                            f[s].cells = sets[s].cells /\ Len(sets[s].cells) = sets[s].count
    OBVIOUS
  <2>1. "standard" \in program
    BY <1>1, <1>6 DEF SetsInv, Kinds
  <2>2. bound = Unbound /\ \A s \in 1 .. Newest : Len(sets[s].cells) = sets[s].count
    BY <2>1 DEF ReuseInv, OneKindInv
  <2>3. bound.set = 0 /\ bound.rows = 1
    BY <2>2 DEF Unbound
  <2>4. \A s \in 1 .. Newest : f[s].cells = sets[s].cells
    BY <1>1, <1>5, <2>3 DEF IsFilled
  <2> QED BY <1>2, <2>1, <2>2, <2>3, <2>4
<1>19. OneKindInv'
  <2> SUFFICES ASSUME OneKind PROVE OneKindInv'
    BY <1>6 DEF OneKindInv, OneKind
  <2>1. ~stray'
    BY <1>6, <1>18 DEF ReuseInv, OneKindInv, Unbound
  <2>2. ASSUME NEW s \in 1 .. Newest
        PROVE  Len(sets'[s].cells) = sets'[s].count
    <3>1. Len(cells) = count
      BY <1>9, <1>10, <1>18 DEF count
    <3> QED BY <1>13, <1>18, <3>1
  <2> QED BY <1>6, <1>13, <1>18, <2>1, <2>2 DEF OneKindInv
<1>20. RowsStay
  <2> SUFFICES ASSUME OneKind PROVE RowsStay
    BY DEF RowsStay
  <2>1. ASSUME NEW s \in 1 .. Newest, NEW i \in 1 .. sets[s].count
        PROVE  sets'[s].cells[i] = sets[s].cells[i]
    <3>1. CASE s = q
      BY <1>10, <1>13, <1>18, <3>1
    <3>2. CASE s # q
      BY <1>13, <1>18, <3>2
    <3> QED BY <3>1, <3>2
  <2> QED BY <1>1, <1>13, <1>16, <2>1 DEF RowsStay
<1>21. NewestInv'
  <2> SUFFICES ASSUME OneKind, "old" \notin program PROVE NewestInv'
    BY <1>6 DEF NewestInv, OneKind
  <2>1. q = Newest /\ q = cursor /\ cursor # 0
    BY <1>1, <1>6, CursorParts
  <2>2. sets[q].count = at /\ \A s \in 1 .. Newest :
            /\ \A i \in 1 .. sets[s].count : sets[s].cells[i] = <<s, i>>
            /\ sets[s].ended => sets[s].count = sets[s].total
    BY <2>1 DEF ReuseInv, NewestInv
  <2>3. count = at + r
    BY <1>2, <1>3, <1>4, <1>9, <1>18, <2>2 DEF count
  <2>4. ended => count = sets[q].total
    <3>1. CASE none
      BY <1>1, <1>2, <1>4, <2>1, <2>3, <3>1
    <3>2. CASE ~none
      \* a set that ended has shown every row, so that no row was left
      <4>1. sets[q].total \in Nat /\ at \in Nat
        BY <1>1, SetsParts, CursorParts
      <4>2. ~sets[q].ended
        BY <1>2, <1>3, <2>1, <2>2, <3>2, <4>1
      <4> QED BY <3>2, <4>2 DEF ended
    <3> QED BY <3>1, <3>2
  <2>5. ASSUME NEW i \in 1 .. count
        PROVE  cells[i] = <<q, i>>
    <3>1. CASE i \in 1 .. sets[q].count
      BY <1>10, <1>18, <2>2, <3>1
    <3>2. CASE i \notin 1 .. sets[q].count
      <4>1. ~none /\ i = sets[q].count + 1
        BY <1>9, <3>2 DEF count
      <4>2. cells[i] = Head(rowset)
        <5>1. i = Len(f[q].cells) + 1
          BY <1>18, <4>1
        <5>2. cells[Len(f[q].cells) + 1] = Head(rowset)
          BY <1>10, <4>1
        <5> QED BY <5>1, <5>2
      <4>3. rowset[1] = <<cursor, at + 1>>
        BY <1>2, <1>3, <4>1
      <4> QED BY <1>3, <2>1, <2>2, <4>1, <4>2, <4>3
    <3> QED BY <3>1, <3>2
  <2>6. ASSUME NEW s \in 1 .. Newest
        PROVE  /\ \A i \in 1 .. sets'[s].count : sets'[s].cells[i] = <<s, i>>
               /\ sets'[s].ended => sets'[s].count = sets'[s].total
    <3>1. CASE s = q
      BY <1>13, <2>4, <2>5, <3>1
    <3>2. CASE s # q
      BY <1>13, <1>18, <2>2, <3>2
    <3> QED BY <3>1, <3>2
  <2>7. sets'[cursor'].count = at'
    BY <1>6, <1>13, <2>1, <2>3
  <2> QED BY <1>13, <2>6, <2>7 DEF NewestInv
<1>22. stray' \in BOOLEAN
  BY <1>6 DEF ReuseInv
<1> QED BY <1>6, <1>14, <1>15, <1>17, <1>19, <1>20, <1>21, <1>22 DEF ReuseInv

LEMMA StepKeeps == ReuseInv /\ [Next]_vars => ReuseInv' /\ RowsStay
<1> SUFFICES ASSUME ReuseInv, [Next]_vars PROVE ReuseInv' /\ RowsStay
  OBVIOUS
<1>1. max_rows \in 0 .. MaxTotal /\ executed \in {"none", "ran", "refused"}
  BY DEF ReuseInv
<1>2. ASSUME NEW n \in 0 .. MaxTotal, SetMaxRows(n) PROVE ReuseInv' /\ RowsStay
  BY <1>1, <1>2, HandleKeeps DEF SetMaxRows
<1>3. CASE execute
  BY <1>1, <1>3, HandleKeeps DEF execute
<1>4. ASSUME NEW kind \in Kinds, NEW rows \in 0 .. MaxTotal, execute_query(kind, rows)
      PROVE  ReuseInv' /\ RowsStay
  BY <1>4, QueryKeeps
<1>5. ASSUME NEW q \in 1 .. Newest, NEW n \in Quantities, fetch_many(q, n)
      PROVE  ReuseInv' /\ RowsStay
  BY <1>5, FetchKeeps
<1>6. ASSUME NEW q \in 1 .. Newest, next(q) PROVE ReuseInv' /\ RowsStay
  BY <1>6, NextKeeps
<1>7. ASSUME NEW q \in 1 .. Newest, DestroyResultSet(q) PROVE ReuseInv' /\ RowsStay
  BY <1>7, DestroyKeeps
<1>8. CASE UNCHANGED vars
  BY <1>1, <1>8, HandleKeeps DEF vars
<1> QED BY <1>2, <1>3, <1>4, <1>5, <1>6, <1>7, <1>8 DEF Next

LEMMA ReuseInvHolds == Spec => []ReuseInv
<1>1. Init => ReuseInv
  BY InitEstablishes
<1>2. ReuseInv /\ [Next]_vars => ReuseInv'
  BY StepKeeps
<1> QED BY <1>1, <1>2, PTL DEF Spec

(* What Shown() makes of a result set whose counted rows were all written. *)
LEMMA ShownParts ==
    ASSUME NEW set \in ResultSets, set.count <= Len(set.cells)
    PROVE  /\ Shown(set) \in Seq(Pairs) /\ Len(Shown(set)) = set.count
           /\ Shown(set) = [p \in 1 .. set.count |-> set.cells[p]]
<1>1. set.count \in Nat /\ set.cells \in Seq(Pairs) /\ Len(set.cells) \in Nat
      /\ DOMAIN set.cells = 1 .. Len(set.cells)
  BY ResultSetParts, LenProperties
<1>2. \A p \in 1 .. set.count : p \in 1 .. Len(set.cells) /\ set.cells[p] \in Pairs
  BY <1>1, ElementOfSeq
<1>3. Shown(set) = [p \in 1 .. set.count |-> set.cells[p]]
  BY <1>1, <1>2 DEF Shown
<1> QED BY <1>1, <1>2, <1>3, IsASeq

-----------------------------------------------------------------------------
(* The handle, its cursor and its bindings are in agreement with the       *)
(* result sets, in every state and for every bound.                        *)
THEOREM ReuseIsTyped == Spec => []TypeOK
<1>1. ReuseInv => TypeOK
  <2> SUFFICES ASSUME ReuseInv PROVE TypeOK
    OBVIOUS
  <2>1. /\ Newest \in Nat
        /\ \A q \in 1 .. Newest : sets[q].kind \in Kinds /\ sets[q].total \in 0 .. MaxTotal
    BY SetsParts, ResultSetParts DEF ReuseInv, SetsInv
  <2>2. at \in 0 .. (IF cursor = 0 THEN 0 ELSE sets[cursor].total)
    <3>1. CASE cursor = 0
      BY <3>1 DEF ReuseInv, CursorInv
    <3>2. CASE cursor # 0
      <4>1. cursor \in 1 .. Newest /\ at \in Nat /\ at <= sets[cursor].total
        BY <2>1, <3>2 DEF ReuseInv, CursorInv
      <4>2. sets[cursor].total \in Nat
        BY <2>1, <4>1, ReuseBounds
      <4> QED BY <3>2, <4>1, <4>2
    <3> QED BY <3>1, <3>2
  <2>3. bound.set \in 0 .. Newest /\ bound.rows \in Quantities \cup {1}
    BY <2>1 DEF ReuseInv, BindingInv, Bindings
  <2> QED BY <2>1, <2>2, <2>3 DEF ReuseInv, CursorInv, TypeOK
<1> QED BY <1>1, ReuseInvHolds, PTL

(* A program that uses the newest result set only, all of one kind, reads  *)
(* from each the rows of its own query in their order, and every one of    *)
(* them before next() or fetch_many() says that there are no more, however *)
(* many queries the statement has run before and however far each of them  *)
(* was read.                                                               *)
THEOREM EveryQueryIsReadWhole == Spec => []EachReadsItsOwnQuery
<1>1. ReuseInv => EachReadsItsOwnQuery
  <2> SUFFICES ASSUME ReuseInv, OneKind, "old" \notin program, NEW q \in 1 .. Newest
               PROVE  /\ Shown(sets[q]) = [i \in 1 .. sets[q].count |-> <<q, i>>]
                      /\ sets[q].ended => sets[q].count = sets[q].total
    BY DEF EachReadsItsOwnQuery
  <2>1. sets[q] \in ResultSets /\ sets[q].count <= Len(sets[q].cells)
    BY SetsParts DEF ReuseInv
  <2>2. /\ \A i \in 1 .. sets[q].count : sets[q].cells[i] = <<q, i>>
        /\ sets[q].ended => sets[q].count = sets[q].total
    BY DEF ReuseInv, NewestInv
  <2>3. Shown(sets[q]) = [p \in 1 .. sets[q].count |-> sets[q].cells[p]]
    BY <2>1, ShownParts
  <2> QED BY <2>2, <2>3
<1> QED BY <1>1, ReuseInvHolds, PTL

(* With one kind of result set no fetch goes through a binding whose       *)
(* storage was destroyed, and no count of rows into a dead frame, although *)
(* SQL_CLOSE takes no binding away.                                        *)
THEOREM OneKindNeverStrays == Spec => []NoStrayWrites
<1>1. ReuseInv => NoStrayWrites
  BY DEF ReuseInv, OneKindInv, NoStrayWrites
<1> QED BY <1>1, ReuseInvHolds, PTL

(* With one kind of result set, rows once read stay what they were, also   *)
(* when an old result set is fetched from.                                 *)
THEOREM ReadRowsStay == Spec => ShownRowsStay
<1> DEFINE Stays == OneKind =>
                \A q \in 1 .. Newest : IsPrefix(Shown(sets[q]), Shown(sets'[q]))
<1>1. ReuseInv /\ [Next]_vars => Stays
  <2> SUFFICES ASSUME ReuseInv, [Next]_vars, OneKind, NEW q \in 1 .. Newest
               PROVE  IsPrefix(Shown(sets[q]), Shown(sets'[q]))
    OBVIOUS
  <2>1. ReuseInv' /\ RowsStay
    BY StepKeeps
  <2>2. sets[q] \in ResultSets /\ sets[q].count <= Len(sets[q].cells) /\ Newest \in Nat
        /\ sets[q].count \in Nat
    BY SetsParts DEF ReuseInv
  <2>3. sets'[q] \in ResultSets /\ sets'[q].count <= Len(sets'[q].cells)
        /\ sets'[q].count \in Nat
    <3>1. /\ sets' \in Seq(ResultSets) /\ Newest' = Len(sets') /\ Newest' \in Nat
          /\ \A s \in 1 .. Newest' : sets'[s].count <= Len(sets'[s].cells)
      BY <2>1, LenProperties DEF ReuseInv, SetsInv, Newest
    <3>2. q \in 1 .. Newest'
      BY <2>1, <2>2, <3>1 DEF RowsStay
    <3>3. sets'[q] \in ResultSets
      BY <3>1, <3>2, ElementOfSeq
    <3> QED BY <3>1, <3>2, <3>3, ResultSetParts
  <2> DEFINE old == sets[q]
             new == sets'[q]
  <2>4. /\ Len(Shown(old)) = old.count
        /\ Shown(old) = [p \in 1 .. old.count |-> old.cells[p]]
    BY <2>2, ShownParts
  <2>5. /\ Len(Shown(new)) = new.count
        /\ Shown(new) = [p \in 1 .. new.count |-> new.cells[p]]
    BY <2>3, ShownParts
  <2>6. new.count >= old.count /\ \A i \in 1 .. old.count : new.cells[i] = old.cells[i]
    BY <2>1 DEF RowsStay
  <2> HIDE DEF old, new
  <2>7. old.count \in Nat /\ new.count \in Nat
    BY <2>2, <2>3 DEF old, new
  <2>8. \A i \in 1 .. old.count : Shown(new)[i] = Shown(old)[i]
    BY <2>4, <2>5, <2>6, <2>7
  <2>9. SubSeq(Shown(old), 1, old.count) = SubSeq(Shown(new), 1, old.count)
    BY <2>7, <2>8
  <2>10. IsPrefix(Shown(old), Shown(new))
    BY <2>4, <2>5, <2>6, <2>7, <2>9 DEF IsPrefix
  <2> QED BY <2>10 DEF old, new
<1> QED BY <1>1, ReuseInvHolds, PTL DEF Spec, ShownRowsStay

=============================================================================
