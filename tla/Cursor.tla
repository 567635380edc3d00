------------------------------- MODULE Cursor -------------------------------
(***************************************************************************)
(* An sql_cursor's life, and stateless_cursor on top of it (src/cursor.cxx,*)
(* include/pqxx/cursor.hxx).                                               *)
(*                                                                         *)
(* One SQL cursor exists at a time, and at most one object stands for it.  *)
(***************************************************************************)
EXTENDS SqlCursor

CONSTANTS
  MaxStep,     \* bound on the distance of a fetch or move that is not "all"
  MaxAvoid     \* bound on the reactivation avoidance count, either way

ASSUME CursorAssumption == MaxStep \in Nat /\ MaxAvoid \in Nat

VARIABLES
  sql,     \* the SQL cursor
  cur,     \* the object: m_adopted, m_ownership = owned, m_at_end, m_pos,
           \* m_endpos, and whether a stateless_cursor wraps it
  avoid,   \* the connection's m_reactivation_avoidance
  last     \* the call that returned last: its name, arguments, the rows it
           \* returned and "ok" or the exception it threw

vars == <<sql, cur, avoid, last>>

----------------------------------------------------------------------------
(* stateless_cursor.                                                       *)

\* obtain_stateless_cursor_size()
FindEnd(q, c) == IF c.endpos = -1 THEN move(q, c, All) ELSE Outcome(q, c, <<>>, 0, "ok")

\* Mutant: the cursor is moved to the first row that is wanted, and the fetch then
\* starts after it.
Approach_TooFar(c, b, d) == b + 1 - c.pos

\* The distance to the position before row b (numbered from 0) in direction d.
Approach(c, b, d) == (b - d) - (c.pos - 1)

\* stateless_cursor_retrieve()
retrieve(q, c, b, e) ==
  LET o    == FindEnd(q, c)
      size == o.c.endpos - 1
      stop == IF e < -1 THEN -1 ELSE Least(e, size)
      d    == IF b < stop THEN 1 ELSE -1
      m    == move(o.q, o.c, Approach(o.c, b, d))
  IN IF o.exc # "ok" THEN o
     ELSE IF b < 0 \/ b > size THEN [o EXCEPT !.exc = "range"]
     ELSE IF b = stop THEN o
     ELSE IF m.exc # "ok" THEN m ELSE fetch(m.q, m.c, stop - b)

----------------------------------------------------------------------------
(* Calls.                                                                  *)

NoCursor == [live |-> FALSE, hold |-> FALSE, size |-> 0, at |-> 0]

NoObject == [live |-> FALSE, stateless |-> FALSE, adopted |-> FALSE,
             owned |-> FALSE, at_end |-> 0, pos |-> -1, endpos |-> -1]

Call(op, b, e, rows, exc) ==
  last' = [op |-> op, b |-> b, e |-> e, rows |-> rows, exc |-> exc]

Did(op, b, e, o) ==
  sql' = o.q /\ cur' = o.c /\ Call(op, b, e, o.rows, o.exc) /\ UNCHANGED avoid

\* m_reactivation_avoidance.add(n)
Avoid(n) == avoid' = avoid + n

\* Somebody else (a function in the backend) declares a cursor and moves it.
Declare(size, at) ==
  /\ ~sql.live /\ ~cur.live
  /\ at <= size + 1
  /\ sql' = [live |-> TRUE, hold |-> FALSE, size |-> size, at |-> at]
  /\ UNCHANGED <<cur, avoid, last>>

\* The constructor that declares the SQL cursor.
Create(size, stateless, owned, hold) ==
  /\ ~sql.live /\ ~cur.live /\ avoid < MaxAvoid
  /\ sql' = [live |-> TRUE, hold |-> hold, size |-> size, at |-> 0]
  /\ cur' = [live |-> TRUE, stateless |-> stateless, adopted |-> FALSE,
             owned |-> owned, at_end |-> -1, pos |-> 0, endpos |-> -1]
  /\ Avoid(IF hold THEN 1 ELSE 0)
  /\ Call("create", 0, 0, <<>>, "ok")

\* The constructor that adopts one; a stateless_cursor moves it to a known place.
Adopt(stateless, owned) ==
  /\ sql.live /\ ~cur.live /\ avoid > -MaxAvoid
  /\ LET c == [live |-> TRUE, stateless |-> stateless, adopted |-> TRUE,
               owned |-> owned, at_end |-> 0, pos |-> -1, endpos |-> -1]
         o == IF stateless THEN move(sql, c, -All) ELSE Outcome(sql, c, <<>>, 0, "ok")
     IN sql' = o.q /\ cur' = o.c /\ Call("adopt", 0, 0, <<>>, o.exc)
  /\ Avoid(IF owned THEN -1 ELSE 0)

\* fetch() and move() of an sql_cursor.
Fetch(n) == cur.live /\ ~cur.stateless /\ Did("fetch", n, 0, fetch(sql, cur, n))

Move(n) == cur.live /\ ~cur.stateless /\ Did("move", n, 0, move(sql, cur, n))

Retrieve(b, e) ==
  cur.live /\ cur.stateless /\ Did("retrieve", b, e, retrieve(sql, cur, b, e))

\* close(), and the destructor: only an owner closes the SQL cursor.
Close ==
  /\ cur.live /\ avoid > -MaxAvoid
  /\ sql' = IF cur.owned THEN NoCursor ELSE sql
  /\ cur' = NoObject
  /\ Avoid(IF cur.owned /\ cur.adopted THEN -1 ELSE 0)
  /\ Call("close", 0, 0, <<>>, "ok")

\* The transaction ends; an object must have been destroyed before.
EndTransaction ==
  /\ ~cur.live /\ sql.live /\ ~sql.hold
  /\ sql' = NoCursor
  /\ UNCHANGED <<cur, avoid, last>>

\* The session is lost, and the SQL cursor with it.
Lose ==
  /\ sql.live
  /\ sql' = [sql EXCEPT !.live = FALSE]
  /\ UNCHANGED <<cur, avoid, last>>

Init ==
  /\ sql = NoCursor /\ cur = NoObject /\ avoid = 0
  /\ last = [op |-> "close", b |-> 0, e |-> 0, rows |-> <<>>, exc |-> "ok"]

Steps == (-MaxStep)..MaxStep \cup {All, -All}

Next ==
  \/ \E size \in 0..MaxRows :
       \/ \E at \in 0..(MaxRows + 1) : Declare(size, at)
       \/ \E stateless, owned, hold \in BOOLEAN : Create(size, stateless, owned, hold)
  \/ \E stateless, owned \in BOOLEAN : Adopt(stateless, owned)
  \/ \E n \in Steps : Fetch(n) \/ Move(n)
  \/ \E b, e \in Steps : Retrieve(b, e)
  \/ Close \/ EndTransaction \/ Lose

Spec == Init /\ [][Next]_vars

----------------------------------------------------------------------------
(* Properties.                                                             *)

SqlType == [live : BOOLEAN, hold : BOOLEAN, size : 0..MaxRows, at : 0..(MaxRows + 1)]

CurType == [live : BOOLEAN, stateless : BOOLEAN, adopted : BOOLEAN, owned : BOOLEAN,
            at_end : {-1, 0, 1}, pos : -1..(MaxRows + 1), endpos : -1..(MaxRows + 1)]

\* Every piece of state has its type.
TypeOK ==
  /\ sql \in SqlType /\ sql.at <= sql.size + 1
  /\ cur \in CurType
  /\ avoid \in Int

\* adjust(): the position and the end position that the object has worked out, if
\* it knows them, are the true ones.  An object that has created its SQL cursor
\* always knows its position.
PositionTrue ==
  cur.live /\ sql.live =>
    /\ cur.pos # -1 => cur.pos = sql.at
    /\ cur.endpos # -1 => cur.endpos = sql.size + 1
    /\ ~cur.adopted => cur.pos # -1

\* adjust() and its internal_error exceptions: no sequence of movements makes the
\* bookkeeping contradict what the backend reports.
NeverInconsistent == last.exc # "internal"

\* The rows retrieve(b, e) should return, numbered from 1: from b (inclusive) to e
\* (exclusive), as far as they exist.
Wanted(b, e, size) ==
  LET up   == Least(e, size) - b
      top  == Least(b, size - 1)
      down == top - Greatest(e, -1)
  IN IF b <= e THEN [i \in 1..Greatest(up, 0) |-> b + i]
               ELSE [i \in 1..Greatest(down, 0) |-> top + 2 - i]

Retrieved == last.op = "retrieve" /\ last.exc = "ok" /\ cur.live /\ sql.live

\* stateless_cursor_retrieve(): wherever the cursor stands, the rows are those
\* that were asked for, in the order asked for, if the first one exists or the
\* order is ascending.
RetrieveExact ==
  Retrieved /\ (last.b < sql.size \/ last.b <= last.e) =>
    last.rows = Wanted(last.b, last.e, sql.size)
=============================================================================
