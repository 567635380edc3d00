---------------------------- MODULE CursorProofs ----------------------------
(***************************************************************************)
(* Proofs about Cursor, for result sets of any size and movements of any   *)
(* length.                                                                 *)
(***************************************************************************)
EXTENDS Cursor, TLAPS

\* What the object knows about the SQL cursor, wherever it has been moved.  At an
\* end, at_end tells which one; the converse holds once the position is known.
Tracks(q, c) ==
  /\ c.pos # -1 => /\ c.pos = q.at
                   /\ q.at = 0 => c.at_end = -1
                   /\ q.at = q.size + 1 => c.at_end = 1
  /\ c.at_end = -1 => q.at = 0 /\ c.pos # -1
  /\ c.at_end = 1 => q.at = q.size + 1
  /\ c.endpos # -1 => c.endpos = q.size + 1 /\ c.pos # -1

QType(q) == q \in SqlType /\ q.at <= q.size + 1

\* The object that c has become is still the same one.
SameObject(c, d) ==
  d.live = c.live /\ d.stateless = c.stateless /\ d.adopted = c.adopted /\ d.owned = c.owned

\* A call that started with q and c has ended well.
Good(q, c, o) ==
  /\ QType(o.q) /\ o.q.size = q.size /\ o.q.live = q.live
  /\ o.c \in CurType /\ SameObject(c, o.c) /\ Tracks(o.q, o.c)
  /\ c.pos # -1 => o.c.pos # -1
  /\ o.exc # "internal"

\* Passed() says how far the SQL cursor gets: a movement that passes every row it
\* is asked to stays among the rows, and any other ends outside.
LEMMA LandingFacts ==
  ASSUME NEW q \in SqlType, QType(q), NEW n \in Int, n # 0
  PROVE  /\ Passed(q, n) \in Nat /\ Passed(q, n) <= Abs(n)
         /\ Landing(q, n) \in 0..(q.size + 1)
         /\ n > 0 /\ Passed(q, n) = n => Landing(q, n) = q.at + n /\ q.at + n <= q.size
         /\ n > 0 /\ Passed(q, n) # n => /\ Landing(q, n) = q.size + 1
                                         /\ q.at <= q.size => Passed(q, n) = q.size - q.at
                                         /\ q.at = q.size + 1 => Passed(q, n) = 0
         /\ n < 0 /\ Passed(q, n) = -n => Landing(q, n) = q.at + n /\ q.at + n >= 1
         /\ n < 0 /\ Passed(q, n) # -n => /\ Landing(q, n) = 0
                                          /\ q.at = 0 => Passed(q, n) = 0
                                          /\ q.at > 0 => Passed(q, n) = q.at - 1
  <1>1. q.at \in Nat /\ q.size \in Nat /\ q.at <= q.size + 1
    BY SqlCursorAssumption DEF QType, SqlType
  <1>2. CASE n > 0
    BY <1>1, <1>2 DEF Passed, Landing, Least, Greatest, Abs
  <1>3. CASE n < 0
    BY <1>1, <1>3 DEF Passed, Landing, Least, Greatest, Abs
  <1> QED BY <1>2, <1>3

\* adjust() on what the backend reports: it finds no contradiction, and the object
\* keeps track.
LEMMA AdjustTracks ==
  ASSUME NEW q \in SqlType, QType(q), NEW c \in CurType, Tracks(q, c), NEW n \in Int, n # 0,
         NEW r, r = [q EXCEPT !.at = Landing(q, n)],
         NEW a, a = adjust(c, n, Passed(q, n))
  PROVE  /\ QType(r) /\ a.exc = "ok" /\ a.c \in CurType /\ SameObject(c, a.c)
         /\ Tracks(r, a.c)
         /\ c.pos # -1 \/ (n < 0 /\ Passed(q, n) # -n) => a.c.pos # -1
         /\ c.pos # -1 /\ n > 0 /\ Passed(q, n) # n => a.c.endpos = q.size + 1
  <1> DEFINE p == Passed(q, n)
             short == p # Abs(n)
             d == Sign(n)
             steps == IF short /\ c.at_end # d THEN p + 1 ELSE p
             from == IF short /\ d < 0 /\ c.pos = -1 THEN steps ELSE c.pos
             to == IF from >= 0 THEN from + d * steps ELSE from
  <1>1. /\ q.at \in Nat /\ q.size \in Nat /\ q.at <= q.size + 1 /\ q.size <= MaxRows
        /\ MaxRows \in Nat
    BY SqlCursorAssumption DEF QType, SqlType
  <1>2. /\ c.at_end \in {-1, 0, 1} /\ c.pos \in Int /\ c.pos >= -1
        /\ c.endpos \in Int /\ c.endpos >= -1
    BY <1>1 DEF CurType
  <1>3. QType(r) /\ r.at = Landing(q, n) /\ r.size = q.size
    BY <1>1, LandingFacts DEF QType, SqlType
  <1>4. p \in Nat /\ p <= Abs(n) /\ Abs(n) \in Nat /\ d \in {-1, 1} /\ (d = 1 <=> n > 0)
    BY LandingFacts DEF Abs, Sign
  <1>5. /\ ~(short /\ d < 0 /\ from # steps)
        /\ to \in Int /\ to >= -1 /\ to <= r.size + 1
        /\ (c.pos # -1 => to # -1)
        /\ (to # -1 => to = Landing(q, n))
        /\ (short /\ d < 0 => to = 0)
    <2>1. CASE n > 0 /\ ~short
      BY <2>1, <1>1, <1>2, <1>3, <1>4, LandingFacts DEF Tracks, Abs, Sign
    <2>2. CASE n > 0 /\ short
      BY <2>2, <1>1, <1>2, <1>3, <1>4, LandingFacts DEF Tracks, Abs, Sign
    <2>3. CASE n < 0 /\ ~short
      BY <2>3, <1>1, <1>2, <1>3, <1>4, LandingFacts DEF Tracks, Abs, Sign
    <2>4. CASE n < 0 /\ short
      BY <2>4, <1>1, <1>2, <1>3, <1>4, LandingFacts DEF Tracks, Abs, Sign
    <2> QED BY <2>1, <2>2, <2>3, <2>4
  <1>6. a = Moved(c, d, short, to)
    BY <1>4, <1>5 DEF adjust
  <1> DEFINE e == IF short THEN d ELSE 0
             f == IF short /\ d > 0 THEN to ELSE c.endpos
  <1>7. (short /\ d > 0) => r.at = r.size + 1
    BY <1>1, <1>3, <1>4, LandingFacts DEF Abs
  <1>8. ~(short /\ d > 0 /\ c.endpos >= 0 /\ c.endpos # to)
    BY <1>7, <1>1, <1>2, <1>3, <1>5 DEF Tracks
  <1>9. a.exc = "ok" /\ a.c = [c EXCEPT !.at_end = e, !.pos = to, !.endpos = f]
    <2> HIDE DEF short, d, to
    <2> QED BY <1>6, <1>8 DEF Moved, Adjusted
  <1>10. e \in {-1, 0, 1} /\ to \in -1..(MaxRows + 1) /\ f \in -1..(MaxRows + 1)
    <2>1. to \in -1..(MaxRows + 1) /\ c.endpos \in -1..(MaxRows + 1)
      BY <1>1, <1>3, <1>5 DEF CurType
    <2> QED BY <2>1, <1>4
  <1> HIDE DEF to, e, f
  <1>11. /\ a.c \in CurType /\ SameObject(c, a.c)
         /\ a.c.at_end = e /\ a.c.pos = to /\ a.c.endpos = f
    BY <1>9, <1>10 DEF CurType, SameObject
  <1>12. Tracks(r, a.c)
    <2>1. CASE ~short
      <3>1. r.at >= 1 /\ r.at <= r.size
        BY <2>1, <1>1, <1>3, <1>4, LandingFacts DEF Abs
      <3>2. e = 0 /\ f = c.endpos
        BY <2>1 DEF e, f
      <3> QED BY <3>1, <3>2, <1>1, <1>3, <1>5, <1>11 DEF Tracks
    <2>2. CASE short /\ d < 0
      <3>1. r.at = 0
        BY <2>2, <1>1, <1>3, <1>4, LandingFacts DEF Abs
      <3>2. e = -1 /\ f = c.endpos /\ to = 0
        BY <2>2, <1>4, <1>5 DEF e, f
      <3> QED BY <3>1, <3>2, <1>1, <1>3, <1>11 DEF Tracks
    <2>3. CASE short /\ d > 0
      <3>1. e = 1 /\ f = to
        BY <2>3, <1>4 DEF e, f
      <3> QED BY <3>1, <2>3, <1>1, <1>3, <1>5, <1>7, <1>11 DEF Tracks
    <2> QED BY <2>1, <2>2, <2>3, <1>4
  <1>13. n < 0 /\ Passed(q, n) # -n => short /\ d < 0
    BY DEF Abs, Sign
  <1>14. ASSUME c.pos # -1, n > 0, Passed(q, n) # n PROVE a.c.endpos = q.size + 1
    <2>1. short /\ d > 0
      BY <1>14 DEF Abs, Sign
    <2>2. f = to /\ to = r.size + 1
      BY <2>1, <1>3, <1>5, <1>7, <1>14 DEF f
    <2> QED BY <2>2, <1>3, <1>11
  <1> QED BY <1>3, <1>5, <1>9, <1>11, <1>12, <1>13, <1>14

\* fetch() of an sql_cursor, and move(), which differs only in what it returns.
LEMMA FetchGood ==
  ASSUME NEW q \in SqlType, QType(q), NEW c \in CurType, Tracks(q, c), NEW n \in Int
  PROVE  /\ Good(q, c, fetch(q, c, n))
         /\ q.live /\ n # 0 => /\ fetch(q, c, n).q.at = Landing(q, n)
                              /\ fetch(q, c, n).rows = RowsOf(q, n)
         /\ q.live => fetch(q, c, n).exc = "ok"
         /\ n = 0 => fetch(q, c, n).q = q /\ fetch(q, c, n).rows = <<>>
         /\ q.live /\ n < 0 /\ Passed(q, n) # -n => fetch(q, c, n).c.pos # -1
         /\ q.live /\ c.pos # -1 /\ n > 0 /\ Passed(q, n) # n =>
              fetch(q, c, n).c.endpos = q.size + 1
  <1>1. CASE n = 0 \/ ~q.live
    <2>1. fetch(q, c, n).q = q /\ fetch(q, c, n).c = c /\ fetch(q, c, n).exc \in {"ok", "failed"}
      BY <1>1 DEF fetch, Outcome
    <2>2. Good(q, c, fetch(q, c, n))
      BY <2>1 DEF Good, SameObject
    <2> QED BY <2>1, <2>2, <1>1 DEF fetch, Outcome
  <1>2. CASE n # 0 /\ q.live
    <2> DEFINE r == [q EXCEPT !.at = Landing(q, n)]
               a == adjust(c, n, Passed(q, n))
    <2>1. /\ QType(r) /\ a.exc = "ok" /\ a.c \in CurType /\ SameObject(c, a.c)
          /\ Tracks(r, a.c)
          /\ c.pos # -1 \/ (n < 0 /\ Passed(q, n) # -n) => a.c.pos # -1
          /\ c.pos # -1 /\ n > 0 /\ Passed(q, n) # n => a.c.endpos = q.size + 1
      BY <1>2, AdjustTracks
    <2>2. r.at = Landing(q, n) /\ r.size = q.size /\ r.live = q.live
      BY DEF SqlType
    <2> HIDE DEF r, a
    <2>3. fetch(q, c, n) = Outcome(r, a.c, RowsOf(q, n), Passed(q, n), a.exc)
      BY <1>2 DEF fetch, r, a
    <2>4. /\ fetch(q, c, n).q = r /\ fetch(q, c, n).c = a.c
          /\ fetch(q, c, n).rows = RowsOf(q, n) /\ fetch(q, c, n).exc = a.exc
      BY <2>3 DEF Outcome
    <2> QED BY <1>2, <2>1, <2>2, <2>4 DEF Good
  <1> QED BY <1>1, <1>2

LEMMA MoveIsFetch ==
  ASSUME NEW q, NEW c, NEW n
  PROVE  /\ move(q, c, n).q = fetch(q, c, n).q
         /\ move(q, c, n).c = fetch(q, c, n).c
         /\ move(q, c, n).exc = fetch(q, c, n).exc
         /\ move(q, c, n).rows = <<>>
  BY DEF move, fetch, Outcome

----------------------------------------------------------------------------
(* stateless_cursor.                                                       *)

\* obtain_stateless_cursor_size() finds the end.
LEMMA FindEndGood ==
  ASSUME NEW q \in SqlType, QType(q), NEW c \in CurType, Tracks(q, c)
  PROVE  /\ Good(q, c, FindEnd(q, c)) /\ FindEnd(q, c).rows = <<>>
         /\ q.live /\ c.pos # -1 => /\ FindEnd(q, c).exc = "ok"
                                   /\ FindEnd(q, c).c.endpos = q.size + 1
  <1>1. CASE c.endpos # -1
    <2>1. FindEnd(q, c) = Outcome(q, c, <<>>, 0, "ok")
      BY <1>1 DEF FindEnd
    <2>2. /\ FindEnd(q, c).q = q /\ FindEnd(q, c).c = c /\ FindEnd(q, c).exc = "ok"
          /\ FindEnd(q, c).rows = <<>>
      BY <2>1 DEF Outcome
    <2> QED BY <1>1, <2>2 DEF Good, SameObject, Tracks
  <1>2. CASE c.endpos = -1
    <2> DEFINE o == move(q, c, All)
    <2>1. FindEnd(q, c) = o
      BY <1>2 DEF FindEnd
    <2>2. All \in Int /\ All # 0 /\ All > 0
      BY SqlCursorAssumption
    <2>3. Good(q, c, o) /\ o.rows = <<>> /\ (q.live => o.exc = "ok")
      BY <2>2, FetchGood, MoveIsFetch DEF Good
    <2>4. ASSUME q.live, c.pos # -1 PROVE o.c.endpos = q.size + 1
      <3>1. Passed(q, All) # All
        BY <2>2, LandingFacts, SqlCursorAssumption DEF QType, SqlType
      <3> QED BY <2>2, <2>4, <3>1, FetchGood, MoveIsFetch
    <2> HIDE DEF o
    <2> QED BY <2>1, <2>3, <2>4
  <1> QED BY <1>1, <1>2

\* What retrieve() does, step by step: find the end, go to the first row, fetch.
LEMMA RetrieveGood ==
  ASSUME NEW q \in SqlType, QType(q), NEW c \in CurType, Tracks(q, c),
         NEW b \in Int, NEW e \in Int
  PROVE  Good(q, c, retrieve(q, c, b, e))
  <1> DEFINE o == FindEnd(q, c)
             size == o.c.endpos - 1
             stop == IF e < -1 THEN -1 ELSE Least(e, size)
             d == IF b < stop THEN 1 ELSE -1
             m == move(o.q, o.c, Approach(o.c, b, d))
             g == fetch(m.q, m.c, stop - b)
             O == [o EXCEPT !.exc = "range"]
  <1>1. Good(q, c, o) /\ o.q \in SqlType
    BY FindEndGood DEF Good, QType
  <1>2. size \in Int /\ stop \in Int /\ Approach(o.c, b, d) \in Int
    <2>1. o.c.endpos \in Int /\ o.c.pos \in Int
      BY <1>1, SqlCursorAssumption DEF Good, CurType
    <2> QED BY <2>1 DEF Approach, Least
  <1> HIDE DEF o, size, stop, d
  <1>3. Good(o.q, o.c, m) /\ m.q \in SqlType
    BY <1>1, <1>2, FetchGood, MoveIsFetch DEF Good, QType
  <1> HIDE DEF m
  <1>4. Good(m.q, m.c, g)
    BY <1>2, <1>3, FetchGood DEF Good
  <1>5. Good(q, c, m) /\ Good(q, c, g)
    BY <1>1, <1>3, <1>4 DEF Good, SameObject
  <1>6. Good(q, c, O)
    <2>1. O.q = o.q /\ O.c = o.c /\ O.exc = "range"
      BY DEF o, FindEnd, move, fetch, Outcome
    <2> QED BY <1>1, <2>1 DEF Good
  <1>7. retrieve(q, c, b, e) \in {o, O, m, g}
    BY DEF retrieve, o, size, stop, d, m
  <1> QED BY <1>1, <1>5, <1>6, <1>7

\* The rows retrieve() returns.
LEMMA RetrieveRows ==
  ASSUME NEW q \in SqlType, QType(q), NEW c \in CurType, Tracks(q, c), q.live,
         c.pos # -1, NEW b \in Int, NEW e \in Int,
         retrieve(q, c, b, e).exc = "ok",
         b < q.size \/ b <= e
  PROVE  retrieve(q, c, b, e).rows = Wanted(b, e, q.size)
  <1> DEFINE o == FindEnd(q, c)
             size == o.c.endpos - 1
             stop == IF e < -1 THEN -1 ELSE Least(e, size)
             d == IF b < stop THEN 1 ELSE -1
             n == Approach(o.c, b, d)
             m == move(o.q, o.c, n)
             g == fetch(m.q, m.c, stop - b)
  <1>1. /\ Good(q, c, o) /\ o.q \in SqlType /\ o.exc = "ok" /\ o.rows = <<>>
        /\ o.c.endpos = q.size + 1 /\ o.q.live /\ o.c.pos # -1
    BY FindEndGood DEF Good, QType
  <1>2. q.size \in Nat /\ size = q.size /\ stop \in Int
    BY <1>1, SqlCursorAssumption DEF SqlType, Least
  <1>3. o.q.at \in Nat /\ o.q.size = q.size /\ o.q.at <= q.size + 1 /\ o.c.pos = o.q.at
    BY <1>1, SqlCursorAssumption DEF Good, QType, SqlType, Tracks
  <1>4. ~(b < 0 \/ b > size)
    <2>1. [o EXCEPT !.exc = "range"].exc # "ok"
      BY DEF FindEnd, move, fetch, Outcome
    <2> QED BY <1>1, <2>1 DEF retrieve
  <1>5. CASE b = stop
    <2>1. retrieve(q, c, b, e).rows = <<>>
      BY <1>1, <1>4, <1>5 DEF retrieve
    <2>2. b <= e /\ Least(e, q.size) - b = 0
      BY <1>2, <1>4, <1>5 DEF Least
    <2>3. Wanted(b, e, q.size) = [i \in 1..0 |-> b + i]
      BY <2>2 DEF Wanted, Greatest
    <2> QED BY <2>1, <2>3
  <1>6. ASSUME b # stop
        PROVE  /\ retrieve(q, c, b, e) = g
               /\ n \in Int /\ n = b - d + 1 - o.q.at
               /\ m.q \in SqlType /\ QType(m.q) /\ m.c \in CurType /\ Tracks(m.q, m.c)
               /\ m.q.live /\ m.q.size = q.size
               /\ n # 0 => m.q.at = Landing(o.q, n)
               /\ n = 0 => m.q.at = o.q.at
    <2>1. n \in Int /\ n = b - d + 1 - o.q.at
      BY <1>3 DEF Approach
    <2> HIDE DEF n, o
    <2>2. /\ Good(o.q, o.c, m) /\ m.exc = "ok"
          /\ n # 0 => m.q.at = Landing(o.q, n)
          /\ n = 0 => m.q.at = o.q.at
      <3>1. QType(o.q) /\ o.c \in CurType /\ Tracks(o.q, o.c)
        BY <1>1 DEF Good
      <3>2. /\ Good(o.q, o.c, fetch(o.q, o.c, n)) /\ fetch(o.q, o.c, n).exc = "ok"
            /\ n # 0 => fetch(o.q, o.c, n).q.at = Landing(o.q, n)
            /\ n = 0 => fetch(o.q, o.c, n).q = o.q
        BY <1>1, <2>1, <3>1, FetchGood
      <3> QED BY <3>2, MoveIsFetch DEF Good
    <2>3. retrieve(q, c, b, e) = g
      BY <1>1, <1>4, <1>6, <2>2 DEF retrieve, n, o
    <2> QED BY <2>1, <2>2, <2>3, <1>1, <1>3 DEF Good, QType
  <1>7. ASSUME b # stop PROVE retrieve(q, c, b, e).rows = RowsOf(m.q, stop - b)
    <2> HIDE DEF m, stop
    <2> QED BY <1>2, <1>6, <1>7, FetchGood
  <1>8. CASE b < stop
    <2>1. d = 1 /\ stop = Least(e, q.size) /\ stop <= q.size /\ b <= e
      BY <1>2, <1>4, <1>8 DEF Least
    <2>2. m.q.at = b
      BY <1>2, <1>3, <1>4, <1>6, <1>8, <2>1 DEF Landing, Least, Greatest
    <2> HIDE DEF m, stop
    <2>3. Passed(m.q, stop - b) = stop - b /\ Sign(stop - b) = 1
      BY <1>2, <1>4, <1>6, <1>8, <2>1, <2>2 DEF Passed, Least, Sign
    <2>4. RowsOf(m.q, stop - b) = [i \in 1..(stop - b) |-> b + i]
      BY <2>2, <2>3 DEF RowsOf
    <2>5. Wanted(b, e, q.size) = [i \in 1..(stop - b) |-> b + i]
      BY <1>2, <1>8, <2>1 DEF Wanted, Greatest
    <2> QED BY <1>7, <1>8, <2>4, <2>5
  <1>9. CASE b > stop
    <2>1. d = -1 /\ b > e /\ b < q.size /\ stop = Greatest(e, -1) /\ stop >= -1
      BY <1>2, <1>4, <1>9 DEF Least, Greatest
    <2>2. m.q.at = b + 2
      BY <1>2, <1>3, <1>4, <1>6, <1>9, <2>1 DEF Landing, Least, Greatest
    <2> HIDE DEF m, stop
    <2>3. Passed(m.q, stop - b) = b - stop /\ Sign(stop - b) = -1
      <3>1. stop - b < 0 /\ m.q.at + (stop - b) = stop + 2 /\ m.q.at # 0
        BY <1>2, <1>4, <1>9, <2>1, <2>2
      <3> QED BY <1>2, <1>4, <2>1, <2>2, <3>1 DEF Passed, Greatest, Sign
    <2>4. RowsOf(m.q, stop - b) = [i \in 1..(b - stop) |-> b + 2 - i]
      BY <2>2, <2>3 DEF RowsOf
    <2>5. Wanted(b, e, q.size) = [i \in 1..(b - stop) |-> b + 2 - i]
      <3>1. ~(b <= e) /\ Least(b, q.size - 1) = b /\ b - Greatest(e, -1) = b - stop
        BY <1>2, <2>1 DEF Least
      <3>2. Greatest(b - stop, 0) = b - stop
        BY <1>2, <1>9 DEF Greatest
      <3> QED BY <3>1, <3>2 DEF Wanted
    <2> QED BY <1>7, <1>9, <2>4, <2>5
  <1> QED BY <1>2, <1>5, <1>8, <1>9

----------------------------------------------------------------------------
(* The invariant.  It does not depend on the SQL cursor being alive: when  *)
(* the session is lost nothing moves any more.                             *)

CursorInv ==
  /\ QType(sql) /\ cur \in CurType /\ avoid \in Int
  /\ cur.live => Tracks(sql, cur) /\ ((cur.adopted /\ ~cur.stateless) \/ cur.pos # -1)
  /\ last.exc # "internal"

\* A call that ended well preserves it.
LEMMA DidPreserves ==
  ASSUME CursorInv, cur.live, NEW op, NEW b, NEW e, NEW o, Good(sql, cur, o),
         Did(op, b, e, o)
  PROVE  CursorInv'
  <1>1. sql' = o.q /\ cur' = o.c /\ avoid' = avoid /\ last'.exc = o.exc
    BY DEF Did, Call
  <1> QED BY <1>1 DEF CursorInv, Good, SameObject, QType, SqlType, CurType, Tracks

LEMMA InitInv == Init => CursorInv
  <1> SUFFICES ASSUME Init PROVE CursorInv
    OBVIOUS
  <1>1. sql \in SqlType /\ cur \in CurType
    BY SqlCursorAssumption DEF Init, NoCursor, NoObject, SqlType, CurType
  <1> QED BY <1>1, SqlCursorAssumption DEF Init, NoCursor, NoObject, CursorInv, QType

LEMMA NextInv == CursorInv /\ [Next]_vars => CursorInv'
  <1> SUFFICES ASSUME CursorInv, [Next]_vars PROVE CursorInv'
    OBVIOUS
  <1>0. sql \in SqlType /\ QType(sql) /\ cur \in CurType /\ MaxRows \in Nat
    BY SqlCursorAssumption DEF CursorInv, QType
  <1>1. ASSUME NEW size \in 0..MaxRows, NEW at \in 0..(MaxRows + 1), Declare(size, at)
        PROVE CursorInv'
    <2>1. QType(sql') /\ ~cur'.live
      BY <1>0, <1>1 DEF Declare, QType, SqlType
    <2> QED BY <1>1, <2>1 DEF Declare, CursorInv, QType, SqlType, CurType
  <1>2. ASSUME NEW size \in 0..MaxRows, NEW stateless \in BOOLEAN, NEW owned \in BOOLEAN,
               NEW hold \in BOOLEAN, Create(size, stateless, owned, hold)
        PROVE CursorInv'
    <2>1. sql' \in SqlType /\ cur' \in CurType
      BY <1>0, <1>2 DEF Create, SqlType, CurType
    <2>2. /\ sql'.at = 0 /\ sql'.size = size /\ cur'.pos = 0 /\ cur'.at_end = -1
          /\ cur'.endpos = -1 /\ last'.exc = "ok" /\ avoid' \in Int
      BY <1>2 DEF Create, Call, Avoid, CursorInv
    <2> QED BY <1>0, <2>1, <2>2 DEF CursorInv, QType, Tracks, SqlType, CurType
  <1>3. ASSUME NEW stateless \in BOOLEAN, NEW owned \in BOOLEAN, Adopt(stateless, owned)
        PROVE CursorInv'
    <2> DEFINE c == [live |-> TRUE, stateless |-> stateless, adopted |-> TRUE,
                     owned |-> owned, at_end |-> 0, pos |-> -1, endpos |-> -1]
               m == move(sql, c, -All)
               o == IF stateless THEN m ELSE Outcome(sql, c, <<>>, 0, "ok")
    <2>1. sql' = o.q /\ cur' = o.c /\ last'.exc = o.exc /\ avoid' \in Int /\ sql.live
      BY <1>3 DEF Adopt, Call, Avoid, CursorInv
    <2>2. c \in CurType /\ Tracks(sql, c) /\ c.stateless = stateless
      BY <1>0 DEF CurType, Tracks
    <2> HIDE DEF c
    <2>3. CASE stateless
      <3>1. -All \in Int /\ -All < 0 /\ Passed(sql, -All) # -(-All)
        <4>1. All \in Nat /\ sql.at \in Nat /\ sql.at < All
          BY <1>0, SqlCursorAssumption DEF SqlType
        <4> QED BY <4>1 DEF Passed, Greatest
      <3>2. Good(sql, c, fetch(sql, c, -All)) /\ fetch(sql, c, -All).c.pos # -1
        <4> DEFINE n == -All
        <4>1. n \in Int /\ n < 0 /\ Passed(sql, n) # -n
          BY <3>1
        <4> HIDE DEF n
        <4>2. Good(sql, c, fetch(sql, c, n)) /\ fetch(sql, c, n).c.pos # -1
          BY <1>0, <2>1, <2>2, <4>1, FetchGood
        <4> QED BY <4>2 DEF n
      <3>3. Good(sql, c, o) /\ o.c.pos # -1
        BY <2>3, <3>2, MoveIsFetch DEF Good
      <3> HIDE DEF o
      <3> QED BY <2>1, <3>3 DEF CursorInv, Good, QType, SqlType, CurType, Tracks
    <2>4. CASE ~stateless
      <3>1. o.q = sql /\ o.c = c /\ o.exc = "ok"
        BY <2>4 DEF Outcome
      <3>2. c.adopted /\ ~c.stateless
        BY <2>4 DEF c
      <3> HIDE DEF o
      <3> QED BY <1>0, <2>1, <2>2, <3>1, <3>2 DEF CursorInv, QType, SqlType, CurType, Tracks
    <2> QED BY <2>3, <2>4
  <1>4. ASSUME NEW n \in Steps, Fetch(n) \/ Move(n) PROVE CursorInv'
    <2>1. n \in Int
      BY SqlCursorAssumption, CursorAssumption DEF Steps
    <2>2. cur.live /\ Tracks(sql, cur)
      BY <1>4 DEF Fetch, Move, CursorInv
    <2>3. Good(sql, cur, fetch(sql, cur, n))
      BY <1>0, <2>1, <2>2, FetchGood
    <2>4. Good(sql, cur, move(sql, cur, n))
      BY <2>3, MoveIsFetch DEF Good
    <2>5. CASE Fetch(n)
      BY <2>2, <2>3, <2>5, DidPreserves DEF Fetch
    <2>6. CASE Move(n)
      BY <2>2, <2>4, <2>6, DidPreserves DEF Move
    <2> QED BY <1>4, <2>5, <2>6
  <1>5. ASSUME NEW b \in Steps, NEW e \in Steps, Retrieve(b, e) PROVE CursorInv'
    <2>1. b \in Int /\ e \in Int
      BY SqlCursorAssumption, CursorAssumption DEF Steps
    <2>2. cur.live /\ Tracks(sql, cur)
      BY <1>5 DEF Retrieve, CursorInv
    <2>3. Good(sql, cur, retrieve(sql, cur, b, e))
      BY <1>0, <2>1, <2>2, RetrieveGood
    <2> QED BY <1>5, <2>2, <2>3, DidPreserves DEF Retrieve
  <1>6. ASSUME Close PROVE CursorInv'
    <2>1. NoCursor \in SqlType /\ NoObject \in CurType /\ QType(NoCursor) /\ ~NoObject.live
      BY <1>0 DEF NoCursor, NoObject, SqlType, CurType, QType
    <2>2. /\ sql' \in {sql, NoCursor} /\ cur' = NoObject /\ last'.exc = "ok"
          /\ avoid' \in Int
      BY <1>6 DEF Close, Call, Avoid, CursorInv
    <2> QED BY <1>0, <2>1, <2>2 DEF CursorInv, QType, SqlType
  <1>7. ASSUME EndTransaction PROVE CursorInv'
    <2>1. NoCursor \in SqlType /\ QType(NoCursor)
      BY <1>0 DEF NoCursor, SqlType, QType
    <2> QED BY <1>7, <2>1 DEF EndTransaction, CursorInv, QType, SqlType, CurType
  <1>8. ASSUME Lose PROVE CursorInv'
    <2>1. sql' \in SqlType /\ sql'.at = sql.at /\ sql'.size = sql.size
      BY <1>0, <1>8 DEF Lose, SqlType
    <2> QED BY <1>8, <2>1 DEF Lose, CursorInv, QType, SqlType, CurType, Tracks
  <1>9. ASSUME UNCHANGED vars PROVE CursorInv'
    BY <1>9 DEF vars, CursorInv, QType, SqlType, CurType, Tracks
  <1> QED BY <1>1, <1>2, <1>3, <1>4, <1>5, <1>6, <1>7, <1>8, <1>9 DEF Next

\* RetrieveExact is preserved as well: only retrieve() returns rows it speaks of, and
\* without the SQL cursor it says nothing.
LEMMA NextRetrieveExact == CursorInv /\ RetrieveExact /\ [Next]_vars => RetrieveExact'
  <1> SUFFICES ASSUME CursorInv, RetrieveExact, [Next]_vars PROVE RetrieveExact'
    OBVIOUS
  <1>1. ASSUME NEW b \in Steps, NEW e \in Steps, Retrieve(b, e), Retrieved',
               last'.b < sql'.size \/ last'.b <= last'.e
        PROVE  last'.rows = Wanted(last'.b, last'.e, sql'.size)
    <2> DEFINE o == retrieve(sql, cur, b, e)
    <2>1. b \in Int /\ e \in Int
      BY SqlCursorAssumption, CursorAssumption DEF Steps
    <2>2. /\ sql \in SqlType /\ QType(sql) /\ cur \in CurType /\ Tracks(sql, cur)
          /\ cur.pos # -1
      BY <1>1 DEF CursorInv, QType, Retrieve
    <2>3. /\ last'.b = b /\ last'.e = e /\ last'.rows = o.rows /\ last'.exc = o.exc
          /\ sql' = o.q
      BY <1>1 DEF Retrieve, Did, Call
    <2>4. Good(sql, cur, o)
      BY <2>1, <2>2, RetrieveGood
    <2> HIDE DEF o
    <2>5. sql'.size = sql.size /\ sql'.live = sql.live
      BY <2>3, <2>4 DEF Good
    <2>6. sql.live /\ o.exc = "ok" /\ (b < sql.size \/ b <= e)
      BY <1>1, <2>3, <2>5 DEF Retrieved
    <2>7. o.rows = Wanted(b, e, sql.size)
      BY <2>1, <2>2, <2>6, RetrieveRows DEF o
    <2> QED BY <2>3, <2>5, <2>7
  <1>2. ASSUME NEW b \in Steps, NEW e \in Steps, Retrieve(b, e) PROVE RetrieveExact'
    BY <1>1, <1>2 DEF RetrieveExact
  <1>3. ASSUME ~Retrieved' PROVE RetrieveExact'
    BY <1>3 DEF RetrieveExact
  <1>4. ASSUME NEW size \in 0..MaxRows, NEW at \in 0..(MaxRows + 1), Declare(size, at)
        PROVE ~Retrieved'
    BY <1>4 DEF Declare, Retrieved
  <1>5. ASSUME NEW size \in 0..MaxRows, NEW stateless \in BOOLEAN, NEW owned \in BOOLEAN,
               NEW hold \in BOOLEAN, Create(size, stateless, owned, hold)
        PROVE ~Retrieved'
    BY <1>5 DEF Create, Call, Retrieved
  <1>6. ASSUME NEW stateless \in BOOLEAN, NEW owned \in BOOLEAN, Adopt(stateless, owned)
        PROVE ~Retrieved'
    BY <1>6 DEF Adopt, Call, Retrieved
  <1>7. ASSUME NEW n \in Steps, Fetch(n) \/ Move(n) PROVE ~Retrieved'
    BY <1>7 DEF Fetch, Move, Did, Call, Retrieved
  <1>8. ASSUME Close \/ EndTransaction PROVE ~Retrieved'
    BY <1>8 DEF Close, EndTransaction, Call, Retrieved
  <1>9. ASSUME Lose PROVE ~Retrieved'
    <2>1. ~sql'.live
      BY <1>9 DEF Lose, CursorInv, QType, SqlType
    <2> QED BY <2>1 DEF Retrieved
  <1>10. ASSUME UNCHANGED vars PROVE RetrieveExact'
    BY <1>10 DEF vars, RetrieveExact, Retrieved
  <1> QED BY <1>2, <1>3, <1>4, <1>5, <1>6, <1>7, <1>8, <1>9, <1>10 DEF Next

\* Every piece of state has its type, for result sets and movements of any size.
THEOREM CursorTypeOK == Spec => []TypeOK
  <1>1. CursorInv => TypeOK
    BY DEF CursorInv, TypeOK, QType
  <1> QED BY <1>1, InitInv, NextInv, PTL DEF Spec

\* adjust(): the position and the end that an sql_cursor has worked out are the
\* true ones, however the SQL cursor was moved and wherever it was adopted.
THEOREM CursorPositionTrue == Spec => []PositionTrue
  <1>1. CursorInv => PositionTrue
    BY DEF CursorInv, PositionTrue, Tracks
  <1> QED BY <1>1, InitInv, NextInv, PTL DEF Spec

\* adjust() never throws: its internal_error exceptions are unreachable.
THEOREM CursorNeverInconsistent == Spec => []NeverInconsistent
  <1>1. CursorInv => NeverInconsistent
    BY DEF CursorInv, NeverInconsistent
  <1> QED BY <1>1, InitInv, NextInv, PTL DEF Spec

\* stateless_cursor_retrieve(): the rows are those asked for, in the order asked
\* for, from any position and for any result set; if the first one exists or the
\* order is ascending.
THEOREM CursorRetrieveExact == Spec => []RetrieveExact
  <1>1. Init => RetrieveExact
    BY DEF Init, RetrieveExact, Retrieved
  <1> QED BY <1>1, InitInv, NextInv, NextRetrieveExact, PTL DEF Spec
=============================================================================
