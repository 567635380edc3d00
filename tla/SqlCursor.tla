----------------------------- MODULE SqlCursor -----------------------------
(***************************************************************************)
(* sql_cursor, which keeps track of where an SQL cursor stands though the  *)
(* backend only says how many rows a FETCH or MOVE has passed              *)
(* (src/cursor.cxx).                                                       *)
(*                                                                         *)
(* The SQL cursor is a record q: whether it exists (live), whether it      *)
(* outlives its transaction (hold), how many rows it has (size) and where  *)
(* it stands (at).  Rows are numbered from 1; position 0 is before the     *)
(* first one, and size + 1 after the last.  The object is a record c with, *)
(* among others, m_at_end, m_pos and m_endpos.                             *)
(***************************************************************************)
EXTENDS Integers, Sequences

CONSTANTS
  MaxRows,     \* bound on the size of a result set
  All          \* cursor_base::all(), a number larger than any result set

ASSUME SqlCursorAssumption ==
  /\ MaxRows \in Nat
  /\ All \in Nat /\ All > MaxRows + 1

Least(a, b) == IF a < b THEN a ELSE b
Greatest(a, b) == IF a > b THEN a ELSE b
Abs(n) == IF n < 0 THEN -n ELSE n
Sign(n) == IF n < 0 THEN -1 ELSE 1

----------------------------------------------------------------------------
(* The backend.                                                            *)

\* FETCH n or MOVE n: where it leads, and how many rows it passes.
Landing(q, n) ==
  IF n > 0 THEN Least(q.at + n, q.size + 1) ELSE Greatest(q.at + n, 0)

Passed(q, n) ==
  IF n > 0 THEN Least(q.at + n, q.size) - Least(q.at, q.size)
  ELSE IF q.at = 0 THEN 0 ELSE q.at - Greatest(q.at + n, 1)

\* The rows FETCH n returns, in order.
RowsOf(q, n) == [i \in 1..Passed(q, n) |-> q.at + i * Sign(n)]

----------------------------------------------------------------------------
(* sql_cursor.                                                             *)

\* What adjust() leaves: the object, and whether it finds a contradiction.
Adjusted(c, exc) == [c |-> c, exc |-> exc]

\* The object after a move in direction d to position to.  One that fell short has
\* found an end.
Moved(c, d, short, to) ==
  LET atEnd == short /\ d > 0
      wrong == atEnd /\ c.endpos >= 0 /\ c.endpos # to
  IN Adjusted([c EXCEPT !.at_end = IF short THEN d ELSE 0, !.pos = to,
                        !.endpos = IF atEnd /\ ~wrong THEN to ELSE c.endpos],
              IF wrong THEN "internal" ELSE "ok")

\* Mutant: every short move is taken to step off the end.
adjust_AlwaysSteps(c, hoped, actual) ==
  LET d     == Sign(hoped)
      short == actual # Abs(hoped)
      steps == IF short THEN actual + 1 ELSE actual
      from  == IF short /\ d < 0 /\ c.pos = -1 THEN steps ELSE c.pos
  IN IF hoped = 0 THEN Adjusted(c, "ok")
     ELSE IF actual > Abs(hoped) \/ (short /\ d < 0 /\ from # steps)
     THEN Adjusted(c, "internal")
     ELSE Moved(c, d, short, IF from >= 0 THEN from + d * steps ELSE from)

\* Mutant: a move that falls short is taken to stop on the last row.
adjust_NeverSteps(c, hoped, actual) ==
  LET d     == Sign(hoped)
      short == actual # Abs(hoped)
      from  == IF short /\ d < 0 /\ c.pos = -1 THEN actual ELSE c.pos
  IN IF hoped = 0 THEN Adjusted(c, "ok")
     ELSE Moved(c, d, short, IF from >= 0 THEN from + d * actual ELSE from)

\* A move that passes fewer rows than hoped has reached an end.  It has made one
\* step more, off the last row, unless it stood there before.
adjust(c, hoped, actual) ==
  LET d     == Sign(hoped)
      short == actual # Abs(hoped)
      steps == IF short /\ c.at_end # d THEN actual + 1 ELSE actual
      from  == IF short /\ d < 0 /\ c.pos = -1 THEN steps ELSE c.pos
  IN IF hoped = 0 THEN Adjusted(c, "ok")
     ELSE IF actual > Abs(hoped) \/ (short /\ d < 0 /\ from # steps)
     THEN Adjusted(c, "internal")
     ELSE Moved(c, d, short, IF from >= 0 THEN from + d * steps ELSE from)

\* How a call ends: the rows it returns, if any, and the number it passed.
Outcome(q, c, rows, count, exc) ==
  [q |-> q, c |-> c, rows |-> rows, count |-> count, exc |-> exc]

\* fetch() by n: the SQL cursor moves, and the object follows.  Without the SQL
\* cursor (its session is gone) the statement fails.  For n = 0 nothing is sent.
fetch(q, c, n) ==
  IF n = 0 THEN Outcome(q, c, <<>>, 0, "ok")
  ELSE IF ~q.live THEN Outcome(q, c, <<>>, 0, "failed")
  ELSE LET a == adjust(c, n, Passed(q, n)) IN
       Outcome([q EXCEPT !.at = Landing(q, n)], a.c, RowsOf(q, n), Passed(q, n), a.exc)

move(q, c, n) == [fetch(q, c, n) EXCEPT !.rows = <<>>]
=============================================================================
