---------------------------- MODULE CursorStream ----------------------------
(***************************************************************************)
(* icursorstream, which reads an SQL cursor in blocks of a given stride,   *)
(* and the icursor_iterators on it (src/cursor.cxx).  An iterator moves    *)
(* the position that the stream has promised to go to (m_reqpos) and reads *)
(* nothing until it is looked at; the stream then reads on (m_realpos) and *)
(* serves every iterator it passes on the way.  The session may be lost    *)
(* between any two of the commands that this takes.                        *)
(*                                                                         *)
(* There is one stream, and the iterators not on it are past-the-end ones. *)
(***************************************************************************)
EXTENDS SqlCursor

CONSTANTS
  Iterator,      \* the iterator objects
  MaxStride,     \* bound on the stride
  MaxPos,        \* bound on the position requested
  ReadBefore     \* may an iterator be created behind what was read?

ASSUME CursorStreamAssumption ==
  /\ MaxStride \in Nat \ {0} /\ MaxPos \in Nat
  /\ ReadBefore \in BOOLEAN

\* x has the fields
\*   q, c              as in SqlCursor
\*   stride, realpos, reqpos, done    the stream's members
\*   its               the iterators: [on, pos, here], here being rows
\*   base              where the SQL cursor stood when the stream got it
VARIABLES
  x,
  serving, \* service_iterators() under way: the iterator looked at, the ones
           \* still to be served, and whether the stream has skipped to them
  last     \* the call that returned last: the iterator, the rows it was found
           \* to be at, and "ok" or the exception thrown

vars == <<x, serving, last>>

Out(y, exc) == [x |-> y, exc |-> exc]

Idle == [it |-> {}, todo |-> {}, skipped |-> FALSE]

NoCall == [it |-> {}, rows |-> <<>>, exc |-> "ok"]

PastEnd == [on |-> FALSE, pos |-> 0, here |-> <<>>]

----------------------------------------------------------------------------
(* icursorstream.                                                          *)

\* fetchblock() and get(): realpos and done are not reached by an exception.
fetchblock(y) ==
  LET o    == fetch(y.q, y.c, y.stride)
      z    == [y EXCEPT !.q = o.q, !.c = o.c]
      read == [z EXCEPT !.realpos = @ + o.count, !.done = @ \/ o.count = 0]
  IN [x |-> IF o.exc = "ok" THEN read ELSE z, rows |-> o.rows, exc |-> o.exc]

ignore(y, n) ==
  LET o    == move(y.q, y.c, n)
      z    == [y EXCEPT !.q = o.q, !.c = o.c]
      past == [z EXCEPT !.realpos = @ + o.count, !.done = @ \/ o.count < n]
  IN Out(IF o.exc = "ok" THEN past ELSE z, o.exc)

forward(y, n) == [y EXCEPT !.reqpos = @ + n * y.stride]

\* fill() of the iterators in group.
Filled(y, group, rows) ==
  [y EXCEPT !.its = [i \in Iterator |->
     IF i \in group THEN [y.its[i] EXCEPT !.here = rows] ELSE y.its[i]]]

\* Mutant: only the iterators at the position asked for are served.
Waiting_Exact(y, topos) == {i \in Iterator : y.its[i].on /\ y.its[i].pos = topos}

\* The iterators that reading up to topos will pass.
Waiting(y, topos) ==
  {i \in Iterator : y.its[i].on /\ y.its[i].pos >= y.realpos /\ y.its[i].pos <= topos}

\* The multimap gives the ones at the lowest position first.
First(y, todo) == {i \in todo : \A j \in todo : y.its[i].pos <= y.its[j].pos}

----------------------------------------------------------------------------
(* Calls on the stream.  While there are iterators on it, it may not be    *)
(* read, moved or given another stride (include/pqxx/cursor.hxx).          *)

Returned(o) ==
  /\ serving = Idle
  /\ x' = o.x /\ last' = [NoCall EXCEPT !.exc = o.exc]
  /\ UNCHANGED serving

Unused == \A i \in Iterator : ~x.its[i].on

Get == Unused /\ Returned(fetchblock(x))

Ignore(n) == Unused /\ Returned(ignore(x, n))

SetStride(n) ==
  Unused /\ Returned(IF n < 1 THEN Out(x, "argument") ELSE Out([x EXCEPT !.stride = n], "ok"))

----------------------------------------------------------------------------
(* Calls on iterator i.                                                    *)

\* The constructor.
Create(i) ==
  /\ ~x.its[i].on
  /\ x.reqpos >= x.realpos \/ ReadBefore
  /\ Returned(Out([x EXCEPT !.its[i] = [on |-> TRUE, pos |-> x.reqpos, here |-> <<>>]], "ok"))

\* The copy constructor, and operator=().
Assign(i, j) == Returned(Out([x EXCEPT !.its[i] = x.its[j]], "ok"))

\* The destructor, or the assignment of a past-the-end iterator.
Destroy(i) == x.its[i].on /\ Returned(Out([x EXCEPT !.its[i] = PastEnd], "ok"))

\* Mutant: the rows read at the old position stay.
AtRequest_KeepsRows(y, i) == [y EXCEPT !.its[i].pos = y.reqpos]

\* The iterator goes where the stream is to go.
AtRequest(y, i) == [y EXCEPT !.its[i] = [on |-> TRUE, pos |-> y.reqpos, here |-> <<>>]]

\* operator+=(n), and operator++() for n = 1.
Advance(i, n) ==
  /\ x.its[i].on
  /\ x.reqpos + n * x.stride <= MaxPos
  /\ Returned(IF n < 0 THEN Out(x, "argument")
              ELSE IF n = 0 THEN Out(x, "ok")
              ELSE Out(AtRequest(forward(x, n), i), "ok"))

\* operator++(int): the old iterator, with what it has read, goes to j.
PostIncrement(i, j) ==
  /\ x.its[i].on /\ i # j
  /\ x.reqpos + x.stride <= MaxPos
  /\ Returned(Out(AtRequest(forward([x EXCEPT !.its[j] = x.its[i]], 1), i), "ok"))

\* refresh(), by operator*(), operator->() or a comparison with the past-the-end
\* iterator: there is nothing to do, or the iterators to be served are listed.
Look(i) ==
  /\ x.its[i].on /\ serving = Idle
  /\ IF x.its[i].pos < x.realpos
     THEN /\ last' = [it |-> {i}, rows |-> x.its[i].here, exc |-> "ok"]
          /\ UNCHANGED serving
     ELSE /\ serving' = [it |-> {i}, todo |-> Waiting(x, x.its[i].pos), skipped |-> FALSE]
          /\ last' = NoCall
  /\ UNCHANGED x

\* service_iterators() goes on with todo, or returns; an exception ends it.
ServingWent(o, todo, skipped) ==
  IF o.exc = "ok" /\ todo # {}
  THEN /\ serving' = [it |-> serving.it, todo |-> todo, skipped |-> skipped]
       /\ UNCHANGED last
  ELSE /\ serving' = Idle
       /\ \E i \in serving.it : last' = [it |-> {i}, rows |-> o.x.its[i].here, exc |-> o.exc]

\* A round of service_iterators() for the iterators of First(), of which i is one:
\* ignore(), if the stream is not there yet ...
Skip(i) ==
  /\ i \in First(x, serving.todo)
  /\ ~serving.skipped /\ x.its[i].pos > x.realpos
  /\ LET o == ignore(x, x.its[i].pos - x.realpos)
     IN x' = o.x /\ ServingWent(o, serving.todo, TRUE)

\* ... fetchblock() and fill().
Read(i) ==
  /\ i \in First(x, serving.todo)
  /\ serving.skipped \/ x.its[i].pos <= x.realpos
  /\ LET b == fetchblock(x)
         o == Out(IF b.exc = "ok" THEN Filled(b.x, First(x, serving.todo), b.rows) ELSE b.x, b.exc)
     IN x' = o.x /\ ServingWent(o, serving.todo \ First(x, serving.todo), FALSE)

\* The session is lost, and the SQL cursor with it.
Lose == x.q.live /\ x' = [x EXCEPT !.q.live = FALSE] /\ UNCHANGED <<serving, last>>

\* The stream is created with its SQL cursor, or adopts one that may stand anywhere.
Init ==
  /\ \E size \in 0..MaxRows, stride \in 1..MaxStride, at \in 0..(MaxRows + 1) :
       /\ at <= size + 1
       /\ \E c \in {[at_end |-> 0, pos |-> -1, endpos |-> -1]} \cup
                   (IF at = 0 THEN {[at_end |-> -1, pos |-> 0, endpos |-> -1]} ELSE {}) :
            x = [q |-> [live |-> TRUE, hold |-> FALSE, size |-> size, at |-> at],
                 c |-> c, stride |-> stride, realpos |-> 0, reqpos |-> 0,
                 done |-> FALSE, its |-> [i \in Iterator |-> PastEnd],
                 base |-> Least(at, size)]
  /\ serving = Idle
  /\ last = NoCall

Next ==
  \/ Get
  \/ \E n \in 0..MaxRows : Ignore(n) \/ SetStride(n)
  \/ \E i \in Iterator :
       \/ Create(i) \/ Destroy(i) \/ Look(i) \/ Skip(i) \/ Read(i)
       \/ \E n \in -1..2 : Advance(i, n)
       \/ \E j \in Iterator : Assign(i, j) \/ PostIncrement(i, j)
  \/ Lose

Spec == Init /\ [][Next]_vars

----------------------------------------------------------------------------
(* Properties.                                                             *)

\* The rows of the block at pos.
BlockAt(pos) ==
  LET from == x.base + pos
      to   == Least(from + x.stride, x.q.size)
  IN [n \in 1..Greatest(to - from, 0) |-> from + n]

\* Every piece of state has its type, and realpos counts the rows passed.
TypeOK ==
  /\ x.stride \in 1..Greatest(MaxStride, MaxRows)
  /\ x.reqpos \in 0..MaxPos /\ x.done \in BOOLEAN
  /\ \A i \in Iterator : x.its[i] \in [on : BOOLEAN, pos : 0..MaxPos, here : Seq(1..MaxRows)]
  /\ x.base + x.realpos = Least(x.q.at, x.q.size)

\* service_iterators(): an iterator that reading has passed holds the block at its
\* position, the others hold nothing, whatever other iterators have done.
IteratorsServed ==
  \A i \in Iterator : x.its[i].on =>
    x.its[i].here = IF x.its[i].pos < x.realpos THEN BlockAt(x.its[i].pos) ELSE <<>>

\* operator*(): an iterator that has been looked at shows the block at its
\* position; so it is taken for past-the-end only at the end of the result set.
LookIsExact ==
  \A i \in last.it :
    last.exc = "ok" /\ x.its[i].on => last.rows = BlockAt(x.its[i].pos)

\* fetchblock(), ignore(): a stream that says it is done has passed every row.
DoneMeansEnd == x.done => x.base + x.realpos = x.q.size

\* service_iterators(): the stream, its two positions and its iterators agree on
\* what has been read, and on where the end is.
StreamInStep == TypeOK /\ IteratorsServed /\ DoneMeansEnd
=============================================================================
