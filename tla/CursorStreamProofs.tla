------------------------- MODULE CursorStreamProofs -------------------------
(***************************************************************************)
(* Proofs about CursorStream, for any number of iterators, result sets of  *)
(* any size and any stride.                                                *)
(***************************************************************************)
EXTENDS CursorStream, TLAPS

QType == [live : BOOLEAN, hold : BOOLEAN, size : 0..MaxRows, at : 0..(MaxRows + 1)]

CType == [at_end : {-1, 0, 1}, pos : Int, endpos : Int]

IType == [on : BOOLEAN, pos : 0..MaxPos, here : Seq(1..MaxRows)]

XType ==
  [q : QType, c : CType, stride : 1..Greatest(MaxStride, MaxRows), realpos : Nat,
   reqpos : 0..MaxPos, done : BOOLEAN, its : [Iterator -> IType], base : Nat]

\* What the sql_cursor knows, as far as moving forward needs it.
Tracks(q, c) ==
  /\ q.at <= q.size + 1
  /\ c.pos # -1 => c.pos = q.at /\ (q.at = q.size + 1 => c.at_end = 1)
  /\ c.pos >= -1 /\ c.endpos >= -1
  /\ c.at_end = 1 => q.at = q.size + 1
  /\ c.endpos # -1 => c.endpos = q.size + 1 /\ c.pos # -1

\* The stream has passed the rows up to realpos, and every one if it says so.
Reader(y) ==
  /\ Tracks(y.q, y.c)
  /\ y.base + y.realpos = Least(y.q.at, y.q.size)
  /\ y.done => y.base + y.realpos = y.q.size

\* Iterators are a stride apart, and so is the place to go to; the stream never
\* reads past the block that is to be read there.
Spaced(y) ==
  \A i \in Iterator : y.its[i].on =>
    /\ y.its[i].pos <= y.reqpos
    /\ y.its[i].pos < y.reqpos => y.its[i].pos + y.stride <= y.reqpos
    /\ y.realpos <= y.reqpos + y.stride
    /\ \A j \in Iterator : y.its[j].on /\ y.its[i].pos < y.its[j].pos =>
         y.its[i].pos + y.stride <= y.its[j].pos

\* The rows of the block at pos.
Block(y, pos) ==
  [n \in 1..Greatest(Least(y.base + pos + y.stride, y.q.size) - (y.base + pos), 0) |->
     y.base + pos + n]

Served(y) ==
  \A i \in Iterator : y.its[i].on =>
    y.its[i].here = IF y.its[i].pos < y.realpos THEN Block(y, y.its[i].pos) ELSE <<>>

Sound(y) == y \in XType /\ Reader(y) /\ Spaced(y) /\ Served(y)

AtEnd(y) == y.base + y.realpos = y.q.size

\* service_iterators() under way for k: the ones on its list have not been passed,
\* and none of the others is in between.
Serves(y, v, k) ==
  /\ v.it = {k} /\ k \in v.todo /\ v.todo \subseteq Iterator /\ v.skipped \in BOOLEAN
  /\ \A i \in v.todo : /\ y.its[i].on
                       /\ y.realpos <= y.its[i].pos
                       /\ y.its[i].pos <= y.its[k].pos
  /\ \A i \in Iterator \ v.todo : y.its[i].on /\ y.its[i].pos <= y.its[k].pos =>
       y.its[i].pos < y.realpos \/ AtEnd(y)
  /\ v.skipped => \A i \in First(y, v.todo) : y.its[i].pos = y.realpos \/ AtEnd(y)

UnderWay(y, v) == \E k \in Iterator : Serves(y, v, k)

\* What a call has returned stays true.
LastTrue(y, l) ==
  \A i \in l.it : i \in Iterator /\ (l.exc = "ok" /\ y.its[i].on => l.rows = Block(y, y.its[i].pos))

StreamInv ==
  /\ Sound(x)
  /\ serving = Idle \/ UnderWay(x, serving)
  /\ LastTrue(x, last)

----------------------------------------------------------------------------
(* Reading.                                                                *)

\* The rows a forward movement passes, and where it leads.
LEMMA ForwardLanding ==
  ASSUME NEW q \in QType, q.at <= q.size + 1, NEW n \in Nat \ {0}
  PROVE  /\ Passed(q, n) = Least(q.at + n, q.size) - Least(q.at, q.size)
         /\ Passed(q, n) \in 0..n
         /\ Landing(q, n) = Least(q.at + n, q.size + 1)
         /\ Landing(q, n) \in 0..(q.size + 1)
         /\ Passed(q, n) = n => Landing(q, n) = q.at + n /\ q.at + n <= q.size
         /\ Passed(q, n) # n => /\ Landing(q, n) = q.size + 1
                                /\ q.at <= q.size => Passed(q, n) = q.size - q.at
                                /\ q.at = q.size + 1 => Passed(q, n) = 0
  <1>1. q.at \in Nat /\ q.size \in Nat /\ q.at <= q.size + 1
    BY SqlCursorAssumption DEF QType
  <1> QED BY <1>1 DEF Passed, Landing, Least, Greatest

\* adjust() after a forward movement finds no contradiction and keeps track.
LEMMA AdjustForward ==
  ASSUME NEW q \in QType, NEW c \in CType, Tracks(q, c), NEW n \in Nat \ {0},
         NEW r, r = [q EXCEPT !.at = Landing(q, n)],
         NEW a, a = adjust(c, n, Passed(q, n))
  PROVE  /\ r \in QType /\ r.size = q.size /\ r.live = q.live
         /\ r.at = Landing(q, n)
         /\ a.exc = "ok" /\ a.c \in CType /\ Tracks(r, a.c)
  <1> DEFINE p == Passed(q, n)
             short == p # n
             steps == IF short /\ c.at_end # 1 THEN p + 1 ELSE p
             to == IF c.pos >= 0 THEN c.pos + steps ELSE c.pos
             e == IF short THEN 1 ELSE 0
             f == IF short THEN to ELSE c.endpos
  <1>1. /\ q.at \in Nat /\ q.size \in Nat /\ q.at <= q.size + 1 /\ q.size <= MaxRows
        /\ MaxRows \in Nat
    BY SqlCursorAssumption DEF QType, Tracks
  <1>2. /\ c.at_end \in {-1, 0, 1} /\ c.pos \in Int /\ c.pos >= -1
        /\ c.endpos \in Int /\ c.endpos >= -1
    BY DEF CType, Tracks
  <1>3. /\ p \in 0..n
        /\ Landing(q, n) \in 0..(q.size + 1)
        /\ ~short => Landing(q, n) = q.at + n /\ q.at + n <= q.size
        /\ short => /\ Landing(q, n) = q.size + 1
                    /\ q.at <= q.size => p = q.size - q.at
                    /\ q.at = q.size + 1 => p = 0
    BY <1>1, ForwardLanding
  <1>4. r \in QType /\ r.size = q.size /\ r.live = q.live /\ r.at = Landing(q, n)
    BY <1>1, <1>3 DEF QType
  <1>5. /\ to \in Int /\ to >= -1
        /\ c.pos # -1 => to = Landing(q, n)
        /\ c.pos = -1 => to = -1
    <2>1. CASE short
      BY <2>1, <1>1, <1>2, <1>3 DEF Tracks
    <2>2. CASE ~short
      BY <2>2, <1>1, <1>2, <1>3 DEF Tracks
    <2> QED BY <2>1, <2>2
  <1>6. Sign(n) = 1 /\ Abs(n) = n /\ n # 0 /\ ~(p > n)
    BY <1>3 DEF Sign, Abs
  <1>7. a = Moved(c, 1, short, to)
    <2> HIDE DEF p
    <2>1. (IF p # n /\ 1 < 0 /\ c.pos = -1 THEN steps ELSE c.pos) = c.pos
      OBVIOUS
    <2>2. a = adjust(c, n, p)
      BY DEF p
    <2> QED BY <2>1, <2>2, <1>2, <1>3, <1>6 DEF adjust
  <1>8. ~(short /\ c.endpos >= 0 /\ c.endpos # to)
    BY <1>1, <1>2, <1>3, <1>5 DEF Tracks
  <1>9. e \in {0, 1} /\ (e = 1 <=> short) /\ f \in Int /\ f >= -1
    BY <1>2, <1>5
  <1>10. a.exc = "ok" /\ a.c = [c EXCEPT !.at_end = e, !.pos = to, !.endpos = f]
    <2> HIDE DEF short, to
    <2> QED BY <1>7, <1>8 DEF Moved, Adjusted
  <1>11. f # -1 => f = q.size + 1 /\ to # -1
    BY <1>1, <1>2, <1>3, <1>5 DEF Tracks
  <1>12. to # -1 => to = r.at /\ (r.at = r.size + 1 => short)
    BY <1>1, <1>3, <1>4, <1>5
  <1>13. short => r.at = r.size + 1
    BY <1>3, <1>4
  <1> HIDE DEF to, e, f, short
  <1>14. /\ a.c \in CType /\ a.c.at_end = e /\ a.c.pos = to /\ a.c.endpos = f
    BY <1>5, <1>9, <1>10 DEF CType
  <1>15. Tracks(r, a.c)
    BY <1>1, <1>3, <1>4, <1>5, <1>9, <1>11, <1>12, <1>13, <1>14 DEF Tracks
  <1> QED BY <1>4, <1>10, <1>14, <1>15

\* A command for the next n rows has succeeded, and left o.
Forwarded(q, n, o) ==
  /\ o.exc = "ok" /\ o.q \in QType /\ o.c \in CType
  /\ o.q.size = q.size /\ o.q.live = q.live
  /\ Tracks(o.q, o.c)
  /\ o.count = Passed(q, n) /\ o.q.at = Landing(q, n)
  /\ o.rows = RowsOf(q, n)

\* fetch() forward: the rows that follow, or an exception and nothing done.
LEMMA FetchForward ==
  ASSUME NEW q \in QType, NEW c \in CType, Tracks(q, c), NEW n \in Nat \ {0},
         NEW o, o = fetch(q, c, n)
  PROVE  /\ q.live => Forwarded(q, n, o)
         /\ ~q.live => o.exc = "failed" /\ o.q = q /\ o.c = c
  <1>1. CASE ~q.live
    BY <1>1 DEF fetch, Outcome
  <1>2. CASE q.live
    <2> DEFINE r == [q EXCEPT !.at = Landing(q, n)]
               a == adjust(c, n, Passed(q, n))
    <2>1. /\ r \in QType /\ r.size = q.size /\ r.live = q.live
          /\ r.at = Landing(q, n)
          /\ a.exc = "ok" /\ a.c \in CType /\ Tracks(r, a.c)
      BY AdjustForward
    <2> HIDE DEF r, a
    <2>2. o = Outcome(r, a.c, RowsOf(q, n), Passed(q, n), a.exc)
      BY <1>2 DEF fetch, r, a
    <2>3. /\ o.q = r /\ o.c = a.c /\ o.rows = RowsOf(q, n) /\ o.count = Passed(q, n)
          /\ o.exc = a.exc
      BY <2>2 DEF Outcome
    <2> QED BY <1>2, <2>1, <2>3 DEF Forwarded
  <1> QED BY <1>1, <1>2

\* The stream y has become z by reading or skipping.
Passing(y, z) ==
  /\ z \in XType /\ Reader(z)
  /\ z.stride = y.stride /\ z.reqpos = y.reqpos /\ z.its = y.its /\ z.base = y.base
  /\ z.q.size = y.q.size
  /\ y.realpos <= z.realpos
  /\ AtEnd(y) => z.realpos = y.realpos

\* What the stream becomes when a command for n rows has succeeded.
LEMMA StreamPasses ==
  ASSUME NEW y \in XType, Reader(y), NEW n \in Nat \ {0},
         NEW o, Forwarded(y.q, n, o),
         NEW z \in XType, z.q = o.q, z.c = o.c, z.realpos = y.realpos + o.count,
         z.done => y.done \/ Passed(y.q, n) < n,
         z.stride = y.stride, z.reqpos = y.reqpos, z.its = y.its, z.base = y.base
  PROVE  /\ Passing(y, z)
         /\ z.realpos <= y.realpos + n
         /\ Passed(y.q, n) < n => AtEnd(z)
         /\ Passed(y.q, n) = n => z.realpos = y.realpos + n
         /\ Passed(y.q, n) = z.realpos - y.realpos
         /\ Passed(y.q, n) = 0 => AtEnd(y)
  <1>1. /\ y.q \in QType /\ y.c \in CType /\ Tracks(y.q, y.c) /\ y.realpos \in Nat
        /\ y.base \in Nat /\ y.q.at \in Nat /\ y.q.size \in Nat /\ y.q.at <= y.q.size + 1
        /\ y.base + y.realpos = Least(y.q.at, y.q.size)
        /\ y.done => y.base + y.realpos = y.q.size
    BY SqlCursorAssumption DEF XType, QType, Reader, Tracks
  <1>2. /\ o.q \in QType /\ o.c \in CType
        /\ o.q.size = y.q.size /\ o.q.live = y.q.live
        /\ Tracks(o.q, o.c)
        /\ o.count = Passed(y.q, n) /\ o.q.at = Landing(y.q, n)
    BY DEF Forwarded
  <1>3. /\ Passed(y.q, n) = Least(y.q.at + n, y.q.size) - Least(y.q.at, y.q.size)
        /\ Passed(y.q, n) \in 0..n
        /\ Landing(y.q, n) = Least(y.q.at + n, y.q.size + 1)
        /\ Passed(y.q, n) # n => Landing(y.q, n) = y.q.size + 1
    BY <1>1, ForwardLanding
  <1>5. /\ z \in XType
        /\ z.q = o.q /\ z.c = o.c /\ z.realpos = y.realpos + o.count
        /\ z.done => y.done \/ Passed(y.q, n) < n
        /\ z.stride = y.stride /\ z.reqpos = y.reqpos /\ z.its = y.its /\ z.base = y.base
    OBVIOUS
  <1>6. y.base + z.realpos = Least(y.q.at + n, y.q.size)
    BY <1>1, <1>2, <1>3, <1>5 DEF Least
  <1>7. Least(Landing(y.q, n), y.q.size) = Least(y.q.at + n, y.q.size)
    BY <1>1, <1>3 DEF Least
  <1>8. Passed(y.q, n) < n => y.base + z.realpos = y.q.size
    BY <1>1, <1>3, <1>6 DEF Least
  <1>9. y.done => y.base + z.realpos = y.q.size /\ z.realpos = y.realpos
    BY <1>1, <1>2, <1>3, <1>5, <1>6 DEF Least
  <1>10. Reader(z)
    BY <1>2, <1>5, <1>6, <1>7, <1>8, <1>9 DEF Reader
  <1>11. AtEnd(y) => z.realpos = y.realpos
    BY <1>1, <1>2, <1>3, <1>5, <1>6 DEF Least, AtEnd
  <1>12. Passed(y.q, n) = 0 => AtEnd(y)
    BY <1>1, <1>3 DEF AtEnd, Least
  <1>13. /\ y.realpos <= z.realpos /\ z.realpos <= y.realpos + n
         /\ Passed(y.q, n) = z.realpos - y.realpos
    BY <1>1, <1>2, <1>3, <1>5
  <1>14. Passed(y.q, n) < n => AtEnd(z)
    BY <1>2, <1>5, <1>8 DEF AtEnd
  <1>15. Passing(y, z)
    BY <1>2, <1>5, <1>10, <1>11, <1>13 DEF Passing
  <1> QED BY <1>1, <1>5, <1>2, <1>12, <1>13, <1>14, <1>15

\* fetchblock(): the block where the stream stands.
LEMMA FetchblockReads ==
  ASSUME NEW y \in XType, Reader(y), NEW b, b = fetchblock(y)
  PROVE  /\ b.exc = "ok" =>
              /\ Passing(y, b.x)
              /\ b.x.realpos <= y.realpos + y.stride
              /\ b.x.realpos = y.realpos => AtEnd(y)
              /\ b.rows = Block(y, y.realpos) /\ b.rows \in Seq(1..MaxRows)
         /\ b.exc # "ok" => b.x = y
  <1> DEFINE n == y.stride
             o == fetch(y.q, y.c, n)
             w == [y EXCEPT !.q = o.q, !.c = o.c]
             d == y.done \/ o.count = 0
             z == [w EXCEPT !.realpos = @ + o.count, !.done = @ \/ o.count = 0]
             v == [y EXCEPT !.q = o.q, !.c = o.c, !.realpos = y.realpos + o.count, !.done = d]
  <1>1. /\ y.q \in QType /\ y.c \in CType /\ Tracks(y.q, y.c) /\ y.realpos \in Nat
        /\ y.base \in Nat /\ y.q.at \in Nat /\ y.q.size \in Nat /\ y.q.at <= y.q.size + 1
        /\ y.base + y.realpos = Least(y.q.at, y.q.size)
        /\ y.q.size <= MaxRows /\ MaxRows \in Nat
    BY SqlCursorAssumption DEF XType, QType, Reader, Tracks
  <1>0. y.done \in BOOLEAN
    BY DEF XType
  <1>2. n \in Nat \ {0}
    BY SqlCursorAssumption, CursorStreamAssumption DEF XType, Greatest
  <1>3. CASE ~y.q.live
    <2>1. o.exc = "failed" /\ o.q = y.q /\ o.c = y.c
      BY <1>1, <1>2, <1>3, FetchForward
    <2> HIDE DEF o
    <2>2. w = y
      BY <2>1 DEF XType
    <2> HIDE DEF w
    <2>3. b.exc = o.exc /\ b.x = w
      BY <2>1 DEF fetchblock, o, w
    <2> QED BY <2>1, <2>2, <2>3
  <1>4. CASE y.q.live
    <2>10. Forwarded(y.q, n, o)
      BY <1>1, <1>2, <1>4, FetchForward
    <2>0. /\ o.exc = "ok" /\ o.count = Passed(y.q, n) /\ o.rows = RowsOf(y.q, n)
          /\ o.q \in QType /\ o.c \in CType
      BY <2>10 DEF Forwarded
    <2>1. /\ o.exc = "ok" /\ o.count = Passed(y.q, n)
          /\ o.rows = [i \in 1..Passed(y.q, n) |-> y.q.at + i]
      <3>1. Sign(n) = 1
        BY <1>2 DEF Sign
      <3>2. \A i \in 1..Passed(y.q, n) : y.q.at + i * Sign(n) = y.q.at + i
        BY <1>1, <3>1
      <3> HIDE DEF o, n
      <3> QED BY <2>0, <3>2 DEF RowsOf
    <2>2. /\ Passed(y.q, n) = Least(y.q.at + n, y.q.size) - Least(y.q.at, y.q.size)
          /\ Passed(y.q, n) \in 0..n
      BY <1>1, <1>2, ForwardLanding
    <2>3. d \in BOOLEAN /\ (d => y.done \/ Passed(y.q, n) < n)
      BY <1>0, <1>1, <1>2, <2>1, <2>2
    <2> HIDE DEF o, d, n
    <2>4. /\ Passing(y, v)
          /\ v.realpos <= y.realpos + n
          /\ Passed(y.q, n) = v.realpos - y.realpos
          /\ Passed(y.q, n) = 0 => AtEnd(y)
      <3>2. /\ v \in XType
            /\ v.q = o.q /\ v.c = o.c /\ v.realpos = y.realpos + o.count /\ v.done = d
            /\ v.stride = y.stride /\ v.reqpos = y.reqpos /\ v.its = y.its /\ v.base = y.base
        <4>1. o.q \in QType /\ o.c \in CType /\ y.realpos + o.count \in Nat /\ d \in BOOLEAN
          BY <1>1, <2>0, <2>2, <2>3
        <4> QED BY <4>1 DEF XType
      <3>3. v.done => y.done \/ Passed(y.q, n) < n
        BY <2>3, <3>2
      <3> HIDE DEF v
      <3> QED BY <1>2, <2>10, <3>2, <3>3, StreamPasses
    <2>5. z = v
      BY DEF d, XType
    <2> HIDE DEF z, v
    <2>6. b.exc = "ok" /\ b.x = z /\ b.rows = o.rows
      BY <2>1 DEF fetchblock, z, o, n
    <2>7. v.realpos \in Int
      BY <2>4 DEF Passing, XType
    <2>8. o.rows = Block(y, y.realpos)
      <3> DEFINE m == Greatest(Least(y.base + y.realpos + n, y.q.size) - (y.base + y.realpos), 0)
      <3>1. CASE y.q.at <= y.q.size
        <4>1. y.base + y.realpos = y.q.at
          BY <3>1, <1>1 DEF Least
        <4>2. m = Passed(y.q, n)
          BY <4>1, <1>1, <1>2, <2>2, <3>1 DEF Least, Greatest
        <4> QED BY <4>1, <4>2, <2>1 DEF Block, n
      <3>2. CASE y.q.at = y.q.size + 1
        <4>1. y.base + y.realpos = y.q.size
          BY <3>2, <1>1 DEF Least
        <4>2. m = 0 /\ Passed(y.q, n) = 0
          BY <4>1, <1>1, <1>2, <2>2, <3>2 DEF Least, Greatest
        <4> HIDE DEF m
        <4>3. Block(y, y.realpos) = [i \in 1..m |-> y.base + y.realpos + i]
          BY DEF Block, m, n
        <4>4. Block(y, y.realpos) = [i \in 1..0 |-> y.base + y.realpos + i]
          BY <4>2, <4>3
        <4>5. o.rows = [i \in 1..0 |-> y.q.at + i]
          BY <4>2, <2>1
        <4> QED BY <4>4, <4>5
      <3>3. y.q.at <= y.q.size \/ y.q.at = y.q.size + 1
        BY <1>1
      <3> QED BY <3>1, <3>2, <3>3
    <2>9. o.rows \in Seq(1..MaxRows)
      <3>1. \A i \in 1..Passed(y.q, n) : y.q.at + i \in 1..MaxRows
        BY <1>1, <1>2, <2>2 DEF Least
      <3>2. Passed(y.q, n) \in Nat
        BY <1>2, <2>2
      <3>3. PICK k \in Nat : k = Passed(y.q, n)
        BY <3>2
      <3>4. \A i \in 1..k : y.q.at + i \in 1..MaxRows
        BY <3>1, <3>3
      <3>5. [i \in 1..k |-> y.q.at + i] \in Seq(1..MaxRows)
        BY <3>4
      <3> QED BY <2>1, <3>3, <3>5
    <2> QED BY <2>4, <2>5, <2>6, <2>7, <2>8, <2>9, <1>1 DEF n
  <1> QED BY <1>3, <1>4, <1>1

\* ignore(): the stream skips n rows, or what there is.
LEMMA IgnoreSkips ==
  ASSUME NEW y \in XType, Reader(y), NEW n \in Nat, NEW o, o = ignore(y, n)
  PROVE  /\ o.exc = "ok" => /\ Passing(y, o.x)
                            /\ o.x.realpos = y.realpos + n \/ AtEnd(o.x)
                            /\ o.x.realpos <= y.realpos + n
         /\ o.exc # "ok" => o.x = y
  <1> DEFINE m == move(y.q, y.c, n)
             f == fetch(y.q, y.c, n)
             w == [y EXCEPT !.q = m.q, !.c = m.c]
             d == y.done \/ m.count < n
             z == [w EXCEPT !.realpos = @ + m.count, !.done = @ \/ m.count < n]
             v == [y EXCEPT !.q = f.q, !.c = f.c, !.realpos = y.realpos + f.count, !.done = d]
  <1>1. /\ y.q \in QType /\ y.c \in CType /\ Tracks(y.q, y.c) /\ y.realpos \in Nat
        /\ y.done \in BOOLEAN
    BY DEF XType, Reader
  <1>2. m.q = f.q /\ m.c = f.c /\ m.count = f.count /\ m.exc = f.exc
    BY DEF move, fetch, Outcome
  <1>3. CASE n = 0
    <2>1. m.q = y.q /\ m.c = y.c /\ m.count = 0 /\ m.exc = "ok"
      BY <1>2, <1>3 DEF fetch, Outcome
    <2> HIDE DEF m
    <2>2. w = y
      BY <2>1 DEF XType
    <2>3. z = y
      <3>1. y.realpos + m.count = y.realpos /\ (y.done \/ m.count < n) = y.done
        BY <1>1, <1>3, <2>1
      <3> HIDE DEF w
      <3> QED BY <2>2, <3>1 DEF XType
    <2> HIDE DEF z, w
    <2>4. o.x = z /\ o.exc = "ok"
      BY <2>1 DEF ignore, z, w, m, Out
    <2>5. Passing(y, y)
      BY <1>1 DEF Passing
    <2> QED BY <1>1, <1>3, <2>3, <2>4, <2>5
  <1>4. CASE n # 0 /\ ~y.q.live
    <2>1. f.exc = "failed" /\ f.q = y.q /\ f.c = y.c
      BY <1>1, <1>4, FetchForward
    <2> HIDE DEF m, f
    <2>2. w = y
      BY <1>2, <2>1 DEF XType
    <2> HIDE DEF w
    <2>3. o.exc = m.exc /\ o.x = w
      BY <1>2, <2>1 DEF ignore, m, w, Out
    <2> QED BY <1>2, <2>1, <2>2, <2>3
  <1>5. CASE n # 0 /\ y.q.live
    <2>10. Forwarded(y.q, n, f)
      BY <1>1, <1>5, FetchForward
    <2>1. f.exc = "ok" /\ f.count = Passed(y.q, n) /\ f.q \in QType /\ f.c \in CType
      BY <2>10 DEF Forwarded
    <2>2. Passed(y.q, n) \in 0..n
      BY <1>1, <1>5, ForwardLanding DEF Tracks
    <2>3. d \in BOOLEAN /\ (d => y.done \/ Passed(y.q, n) < n)
      BY <1>1, <1>2, <2>1
    <2> HIDE DEF m, f, d
    <2>4. /\ Passing(y, v)
          /\ v.realpos <= y.realpos + n
          /\ Passed(y.q, n) < n => AtEnd(v)
          /\ Passed(y.q, n) = n => v.realpos = y.realpos + n
      <3>2. /\ v \in XType
            /\ v.q = f.q /\ v.c = f.c /\ v.realpos = y.realpos + f.count /\ v.done = d
            /\ v.stride = y.stride /\ v.reqpos = y.reqpos /\ v.its = y.its /\ v.base = y.base
        <4>1. f.q \in QType /\ f.c \in CType /\ y.realpos + f.count \in Nat /\ d \in BOOLEAN
          BY <1>1, <2>1, <2>2, <2>3
        <4> QED BY <4>1 DEF XType
      <3>3. v.done => y.done \/ Passed(y.q, n) < n
        BY <2>3, <3>2
      <3> HIDE DEF v
      <3> QED BY <1>5, <2>10, <3>2, <3>3, StreamPasses
    <2>5. z = v
      BY <1>2 DEF d, XType
    <2> HIDE DEF z, v
    <2>6. o.exc = "ok" /\ o.x = z
      BY <1>2, <2>1 DEF ignore, z, m, Out
    <2> QED BY <2>2, <2>4, <2>5, <2>6
  <1> QED BY <1>3, <1>4, <1>5

----------------------------------------------------------------------------
(* The iterators.                                                          *)

\* A block depends on the result set, the stride and where the stream began.
LEMMA SameBlock ==
  ASSUME NEW y, NEW z, z.base = y.base, z.stride = y.stride, z.q.size = y.q.size, NEW p
  PROVE  Block(z, p) = Block(y, p)
  BY DEF Block

\* There is nothing beyond the end.
LEMMA EmptyBlock ==
  ASSUME NEW y \in XType, AtEnd(y), NEW p \in Nat, y.realpos <= p
  PROVE  Block(y, p) = <<>>
  <1> DEFINE m == Greatest(Least(y.base + p + y.stride, y.q.size) - (y.base + p), 0)
  <1>1. /\ y.base \in Nat /\ y.realpos \in Nat /\ y.stride \in Nat /\ y.stride > 0
        /\ y.q.size \in Nat
    BY SqlCursorAssumption, CursorStreamAssumption DEF XType, QType, Greatest
  <1>2. m = 0
    BY <1>1 DEF Least, Greatest, AtEnd
  <1> HIDE DEF m
  <1>3. Block(y, p) = [i \in 1..m |-> y.base + p + i]
    BY DEF Block, m
  <1>4. Block(y, p) = [i \in 1..0 |-> y.base + p + i]
    BY <1>2, <1>3
  <1> QED BY <1>4

\* A stream that no iterator uses may be read and moved freely.
LEMMA UnusedSound ==
  ASSUME NEW z \in XType, Reader(z), \A i \in Iterator : ~z.its[i].on
  PROVE  Sound(z)
  BY DEF Sound, Spaced, Served

\* Iterators come and go: each has what another one had, or is where the stream
\* is to go.
LEMMA IteratorsMoved ==
  ASSUME NEW y, Sound(y), NEW z \in XType,
         z.q = y.q, z.c = y.c, z.realpos = y.realpos, z.done = y.done,
         z.stride = y.stride, z.base = y.base,
         z.reqpos = y.reqpos \/ z.reqpos >= y.reqpos + y.stride,
         \A j \in Iterator : z.its[j].on =>
           \/ \E k \in Iterator : y.its[k].on /\ z.its[j] = y.its[k]
           \/ z.its[j].pos = z.reqpos /\ z.its[j].here = <<>> /\ z.realpos <= z.reqpos
  PROVE  Sound(z)
  <1>1. y \in XType /\ Reader(y) /\ Spaced(y) /\ Served(y)
    BY DEF Sound
  <1>2. /\ y.realpos \in Nat /\ y.stride \in Nat /\ y.stride > 0 /\ y.reqpos \in Nat
        /\ z.reqpos \in Nat
    BY <1>1, SqlCursorAssumption, CursorStreamAssumption DEF XType, Greatest
  <1>3. \A j \in Iterator : y.its[j].pos \in Nat /\ z.its[j].pos \in Nat
    BY <1>1, CursorStreamAssumption DEF XType, IType
  <1>4. Reader(z)
    BY <1>1 DEF Reader
  <1>5. ASSUME NEW j \in Iterator, z.its[j].on
        PROVE  /\ z.its[j].pos <= z.reqpos
               /\ z.its[j].pos < z.reqpos => z.its[j].pos + z.stride <= z.reqpos
               /\ z.realpos <= z.reqpos + z.stride
    <2>1. CASE z.its[j].pos = z.reqpos /\ z.realpos <= z.reqpos
      BY <2>1, <1>2
    <2>2. CASE \E k \in Iterator : y.its[k].on /\ z.its[j] = y.its[k]
      <3>1. PICK k \in Iterator : y.its[k].on /\ z.its[j] = y.its[k]
        BY <2>2
      <3>2. /\ y.its[k].pos <= y.reqpos
            /\ y.its[k].pos < y.reqpos => y.its[k].pos + y.stride <= y.reqpos
            /\ y.realpos <= y.reqpos + y.stride
        BY <3>1, <1>1 DEF Spaced
      <3> QED BY <3>1, <3>2, <1>2, <1>3
    <2> QED BY <1>5, <2>1, <2>2
  <1>6. ASSUME NEW j \in Iterator, z.its[j].on, NEW l \in Iterator, z.its[l].on,
               z.its[j].pos < z.its[l].pos
        PROVE  z.its[j].pos + z.stride <= z.its[l].pos
    <2>1. CASE z.its[l].pos = z.reqpos
      BY <2>1, <1>5, <1>6
    <2>2. CASE z.its[l].pos # z.reqpos
      <3>1. PICK m \in Iterator : y.its[m].on /\ z.its[l] = y.its[m]
        BY <2>2, <1>6
      <3>2. y.its[m].pos <= y.reqpos /\ z.its[l].pos < z.reqpos
        BY <3>1, <2>2, <1>1, <1>2, <1>3, <1>5, <1>6 DEF Spaced
      <3>3. z.its[j].pos # z.reqpos
        BY <3>2, <1>2, <1>3, <1>6
      <3>4. PICK k \in Iterator : y.its[k].on /\ z.its[j] = y.its[k]
        BY <3>3, <1>6
      <3> QED BY <3>1, <3>4, <1>1, <1>6 DEF Spaced
    <2> QED BY <2>1, <2>2
  <1>7. Spaced(z)
    BY <1>5, <1>6 DEF Spaced
  <1>8. ASSUME NEW j \in Iterator, z.its[j].on
        PROVE  z.its[j].here =
                 IF z.its[j].pos < z.realpos THEN Block(z, z.its[j].pos) ELSE <<>>
    <2>1. CASE z.its[j].pos = z.reqpos /\ z.its[j].here = <<>> /\ z.realpos <= z.reqpos
      BY <2>1, <1>2
    <2>2. CASE \E k \in Iterator : y.its[k].on /\ z.its[j] = y.its[k]
      <3>1. PICK k \in Iterator : y.its[k].on /\ z.its[j] = y.its[k]
        BY <2>2
      <3>2. y.its[k].here =
              IF y.its[k].pos < y.realpos THEN Block(y, y.its[k].pos) ELSE <<>>
        BY <3>1, <1>1 DEF Served
      <3>3. Block(z, y.its[k].pos) = Block(y, y.its[k].pos)
        BY SameBlock
      <3> QED BY <3>1, <3>2, <3>3
    <2> QED BY <1>8, <2>1, <2>2
  <1>9. Served(z)
    BY <1>8 DEF Served
  <1> QED BY <1>4, <1>7, <1>9 DEF Sound

\* While service_iterators() is at work, an iterator that is not in the group to be
\* served next is behind the stream or beyond that group, or there is nothing left.
LEMMA NothingBetween ==
  ASSUME NEW y, Sound(y), NEW v, UnderWay(y, v), NEW i \in First(y, v.todo),
         NEW j \in Iterator, y.its[j].on, j \notin First(y, v.todo)
  PROVE  \/ y.its[j].pos < y.realpos
         \/ y.its[i].pos + y.stride <= y.its[j].pos
         \/ AtEnd(y)
  <1>1. y \in XType /\ Spaced(y)
    BY DEF Sound
  <1>2. \A l \in Iterator : y.its[l].pos \in Nat
    BY <1>1, CursorStreamAssumption DEF XType, IType
  <1>3. PICK k \in Iterator :
          /\ k \in v.todo /\ v.todo \subseteq Iterator
          /\ \A l \in v.todo : /\ y.its[l].on
                               /\ y.realpos <= y.its[l].pos
                               /\ y.its[l].pos <= y.its[k].pos
          /\ \A l \in Iterator \ v.todo : y.its[l].on /\ y.its[l].pos <= y.its[k].pos =>
               y.its[l].pos < y.realpos \/ AtEnd(y)
    BY DEF UnderWay, Serves
  <1>4. i \in v.todo /\ (\A l \in v.todo : y.its[i].pos <= y.its[l].pos)
    BY DEF First
  <1>5. CASE y.its[i].pos < y.its[j].pos
    BY <1>1, <1>3, <1>4, <1>5 DEF Spaced
  <1>6. CASE ~(y.its[i].pos < y.its[j].pos)
    <2>1. y.its[j].pos <= y.its[i].pos /\ y.its[j].pos <= y.its[k].pos
      BY <1>2, <1>3, <1>4, <1>6
    <2>2. j \notin v.todo
      <3>1. SUFFICES ASSUME j \in v.todo PROVE FALSE
        OBVIOUS
      <3>2. \A l \in v.todo : y.its[j].pos <= y.its[l].pos
        BY <2>1, <1>2, <1>3, <1>4
      <3> QED BY <3>1, <3>2 DEF First
    <2> QED BY <2>1, <2>2, <1>3
  <1> QED BY <1>5, <1>6

\* The numbers in a stream are numbers.
LEMMA StreamNumbers ==
  ASSUME NEW y \in XType
  PROVE  /\ y.realpos \in Nat /\ y.stride \in Nat /\ y.stride > 0 /\ y.reqpos \in Nat
         /\ y.base \in Nat /\ y.q.size \in Nat
         /\ \A j \in Iterator : y.its[j].pos \in Nat
  BY SqlCursorAssumption, CursorStreamAssumption DEF XType, QType, IType, Greatest

\* Reading on past the group to be served next leaves the other iterators alone.
LEMMA PassingOthers ==
  ASSUME NEW y, Sound(y), NEW v, UnderWay(y, v), NEW i \in First(y, v.todo),
         NEW z, Passing(y, z), z.realpos <= y.its[i].pos + y.stride,
         NEW j \in Iterator, y.its[j].on, j \notin First(y, v.todo)
  PROVE  y.its[j].pos < z.realpos => y.its[j].pos < y.realpos
  <1>1. y \in XType /\ z \in XType
    BY DEF Sound, Passing
  <1>2. /\ y.realpos \in Nat /\ z.realpos \in Nat /\ y.stride \in Nat
        /\ y.its[j].pos \in Nat
    BY <1>1, StreamNumbers
  <1>3. i \in Iterator
    BY DEF First, UnderWay, Serves
  <1>4. y.its[i].pos \in Nat
    BY <1>1, <1>3, StreamNumbers
  <1>5. AtEnd(y) => z.realpos = y.realpos
    BY DEF Passing
  <1> QED BY <1>2, <1>4, <1>5, NothingBetween

\* ignore() within service_iterators().
LEMMA SkipSound ==
  ASSUME NEW y, Sound(y), NEW v, UnderWay(y, v), NEW i \in First(y, v.todo),
         NEW z, Passing(y, z), z.realpos <= y.its[i].pos,
         z.realpos = y.its[i].pos \/ AtEnd(z),
         NEW u, u.it = v.it, u.todo = v.todo, u.skipped = TRUE
  PROVE  Sound(z) /\ UnderWay(z, u)
  <1>1. y \in XType /\ z \in XType /\ Spaced(y) /\ Served(y) /\ Reader(z)
    BY DEF Sound, Passing
  <1>2. /\ y.realpos \in Nat /\ z.realpos \in Nat /\ y.stride \in Nat /\ y.reqpos \in Nat
        /\ \A j \in Iterator : y.its[j].pos \in Nat
    BY <1>1, StreamNumbers
  <1>3. PICK k \in Iterator : Serves(y, v, k)
    BY DEF UnderWay
  <1>4. /\ i \in v.todo /\ i \in Iterator /\ y.its[i].on
        /\ \A l \in v.todo : y.its[i].pos <= y.its[l].pos
    BY <1>3 DEF First, Serves
  <1>5. /\ z.stride = y.stride /\ z.reqpos = y.reqpos /\ z.its = y.its /\ z.base = y.base
        /\ z.q.size = y.q.size /\ y.realpos <= z.realpos
        /\ AtEnd(y) => z.realpos = y.realpos
    BY DEF Passing
  <1>6. AtEnd(y) => AtEnd(z)
    BY <1>5 DEF AtEnd
  <1>7. z.realpos <= y.its[i].pos + y.stride /\ y.its[i].pos <= y.reqpos
    BY <1>1, <1>2, <1>4 DEF Spaced
  <1>8. Spaced(z)
    BY <1>1, <1>2, <1>4, <1>5, <1>7 DEF Spaced
  <1>9. ASSUME NEW j \in Iterator, y.its[j].on
        PROVE  y.its[j].pos < z.realpos <=> y.its[j].pos < y.realpos
    <2>1. CASE j \in First(y, v.todo)
      <3>1. y.its[i].pos <= y.its[j].pos /\ y.realpos <= y.its[j].pos
        BY <2>1, <1>3, <1>4 DEF First, Serves
      <3> QED BY <3>1, <1>2, <1>4
    <2>2. CASE j \notin First(y, v.todo)
      BY <2>2, <1>2, <1>5, <1>7, <1>9, PassingOthers
    <2> QED BY <2>1, <2>2
  <1>10. Served(z)
    <2>1. ASSUME NEW j \in Iterator, y.its[j].on
          PROVE  y.its[j].here =
                   IF y.its[j].pos < z.realpos THEN Block(z, y.its[j].pos) ELSE <<>>
      <3>1. y.its[j].here =
              IF y.its[j].pos < y.realpos THEN Block(y, y.its[j].pos) ELSE <<>>
        BY <1>1, <2>1 DEF Served
      <3>2. Block(z, y.its[j].pos) = Block(y, y.its[j].pos)
        BY <1>5, SameBlock
      <3> QED BY <3>1, <3>2, <1>9, <2>1
    <2> QED BY <2>1, <1>5 DEF Served
  <1>11. First(z, u.todo) = First(y, v.todo)
    BY <1>5 DEF First
  <1>12. \A j \in First(y, v.todo) : y.its[j].pos = y.its[i].pos
    BY <1>2, <1>3, <1>4 DEF First, Serves
  <1>13. \A j \in v.todo : z.realpos <= y.its[j].pos
    BY <1>2, <1>3, <1>4 DEF Serves
  <1>14. \A j \in Iterator \ v.todo : y.its[j].on /\ y.its[j].pos <= y.its[k].pos =>
           y.its[j].pos < z.realpos \/ AtEnd(z)
    BY <1>3, <1>6, <1>9 DEF Serves
  <1>15. Serves(z, u, k)
    BY <1>3, <1>5, <1>11, <1>12, <1>13, <1>14 DEF Serves
  <1> QED BY <1>1, <1>8, <1>10, <1>15 DEF Sound, UnderWay

\* A round of service_iterators() has made t of the stream y.
RoundDone(y, v, t) ==
  /\ Sound(t)
  /\ t.base = y.base /\ t.stride = y.stride /\ t.q.size = y.q.size
  /\ \A j \in Iterator : t.its[j].on = y.its[j].on /\ t.its[j].pos = y.its[j].pos
  /\ \A j \in First(y, v.todo) : t.its[j].here = Block(t, t.its[j].pos)
  /\ \A u : /\ u.it = v.it /\ u.todo = v.todo \ First(y, v.todo) /\ u.skipped = FALSE
            /\ u.todo # {}
            => UnderWay(t, u)

\* fetchblock() and fill() within service_iterators().
LEMMA ReadSound ==
  ASSUME NEW y, Sound(y), NEW v, UnderWay(y, v), NEW i \in First(y, v.todo),
         v.skipped \/ y.its[i].pos <= y.realpos,
         NEW z, Passing(y, z), z.realpos <= y.realpos + y.stride,
         z.realpos = y.realpos => AtEnd(y),
         NEW rows, rows = Block(y, y.realpos), rows \in Seq(1..MaxRows),
         NEW t, t = Filled(z, First(y, v.todo), rows)
  PROVE  RoundDone(y, v, t)
  <1> DEFINE F == First(y, v.todo)
             p == y.its[i].pos
  <1>1. y \in XType /\ z \in XType /\ Spaced(y) /\ Served(y) /\ Reader(z)
    BY DEF Sound, Passing
  <1>2. /\ y.realpos \in Nat /\ z.realpos \in Nat /\ y.stride \in Nat /\ y.reqpos \in Nat
        /\ y.stride > 0 /\ \A j \in Iterator : y.its[j].pos \in Nat
    BY <1>1, StreamNumbers
  <1>3. PICK k \in Iterator : Serves(y, v, k)
    BY DEF UnderWay
  <1>4. /\ i \in v.todo /\ i \in Iterator /\ y.its[i].on /\ y.realpos <= p
        /\ \A l \in v.todo : p <= y.its[l].pos
        /\ F \subseteq v.todo /\ v.todo \subseteq Iterator
    BY <1>3 DEF First, Serves
  <1>5. /\ z.stride = y.stride /\ z.reqpos = y.reqpos /\ z.its = y.its /\ z.base = y.base
        /\ z.q.size = y.q.size /\ y.realpos <= z.realpos
        /\ AtEnd(y) => z.realpos = y.realpos
    BY DEF Passing
  <1>6. p = y.realpos \/ AtEnd(y)
    BY <1>2, <1>3, <1>4 DEF Serves
  <1>7. \A j \in F : y.its[j].pos = p
    BY <1>2, <1>3, <1>4 DEF First, Serves
  <1>8. z.realpos <= p + y.stride /\ p <= y.reqpos
    BY <1>1, <1>2, <1>4 DEF Spaced
  <1>9. rows = Block(y, p)
    <2>1. CASE p = y.realpos
      BY <2>1
    <2>2. CASE AtEnd(y)
      BY <2>2, <1>1, <1>2, <1>4, EmptyBlock
    <2> QED BY <1>6, <2>1, <2>2
  <1>10. z.realpos <= p => rows = <<>>
    <2>1. CASE AtEnd(y)
      BY <2>1, <1>1, <1>2, EmptyBlock
    <2>2. CASE ~AtEnd(y)
      BY <2>2, <1>2, <1>5, <1>6
    <2> QED BY <2>1, <2>2
  <1> HIDE DEF F, p
  <1>11. /\ t \in XType
         /\ t.q = z.q /\ t.c = z.c /\ t.realpos = z.realpos /\ t.done = z.done
         /\ t.stride = y.stride /\ t.reqpos = y.reqpos /\ t.base = y.base
         /\ \A j \in Iterator : /\ t.its[j].on = y.its[j].on /\ t.its[j].pos = y.its[j].pos
                                /\ j \in F => t.its[j].here = rows
                                /\ j \notin F => t.its[j].here = y.its[j].here
    <2> DEFINE g == [j \in Iterator |-> IF j \in F THEN [z.its[j] EXCEPT !.here = rows]
                                                   ELSE z.its[j]]
    <2>1. \A j \in Iterator : z.its[j] \in IType
      BY <1>1 DEF XType
    <2>2. \A j \in Iterator :
            /\ [z.its[j] EXCEPT !.here = rows] \in IType
            /\ [z.its[j] EXCEPT !.here = rows].on = z.its[j].on
            /\ [z.its[j] EXCEPT !.here = rows].pos = z.its[j].pos
            /\ [z.its[j] EXCEPT !.here = rows].here = rows
      BY <2>1 DEF IType
    <2>3. g \in [Iterator -> IType]
      BY <2>1, <2>2
    <2>4. \A j \in Iterator : /\ g[j].on = y.its[j].on /\ g[j].pos = y.its[j].pos
                              /\ j \in F => g[j].here = rows
                              /\ j \notin F => g[j].here = y.its[j].here
      BY <2>2, <1>5
    <2>5. t = [z EXCEPT !.its = g]
      BY DEF Filled, F
    <2> HIDE DEF g
    <2>6. /\ t \in XType /\ t.its = g
          /\ t.q = z.q /\ t.c = z.c /\ t.realpos = z.realpos /\ t.done = z.done
          /\ t.stride = z.stride /\ t.reqpos = z.reqpos /\ t.base = z.base
      BY <2>3, <2>5, <1>1 DEF XType
    <2> QED BY <2>4, <2>6, <1>5
  <1>12. Reader(t)
    BY <1>1, <1>5, <1>11 DEF Reader
  <1>13. Spaced(t)
    <2>1. z.realpos <= y.reqpos + y.stride
      BY <1>2, <1>4, <1>8 DEF p
    <2> QED BY <2>1, <1>1, <1>11 DEF Spaced
  <1>14. \A q : Block(t, q) = Block(y, q)
    BY <1>5, <1>11, SameBlock
  <1>15. ASSUME NEW j \in Iterator, y.its[j].on, j \notin F
         PROVE  y.its[j].pos < z.realpos <=> y.its[j].pos < y.realpos
    <2>1. y.its[j].pos < z.realpos => y.its[j].pos < y.realpos
      BY <1>8, <1>15, PassingOthers DEF F, p
    <2> QED BY <2>1, <1>2, <1>5
  <1>16. Served(t)
    <2>1. ASSUME NEW j \in Iterator, y.its[j].on
          PROVE  t.its[j].here =
                   IF y.its[j].pos < z.realpos THEN Block(y, y.its[j].pos) ELSE <<>>
      <3>1. CASE j \in F
        <4>1. t.its[j].here = rows /\ y.its[j].pos = p /\ p \in Nat
          BY <3>1, <1>2, <1>7, <1>11
        <4>2. p < z.realpos \/ z.realpos <= p
          BY <4>1, <1>2
        <4> QED BY <4>1, <4>2, <1>9, <1>10
      <3>2. CASE j \notin F
        <4>1. t.its[j].here = y.its[j].here
          BY <3>2, <1>11
        <4>2. y.its[j].here =
                IF y.its[j].pos < y.realpos THEN Block(y, y.its[j].pos) ELSE <<>>
          BY <1>1, <2>1 DEF Served
        <4> QED BY <4>1, <4>2, <3>2, <1>15, <2>1
      <3> QED BY <3>1, <3>2
    <2> QED BY <2>1, <1>11, <1>14 DEF Served
  <1>17. \A j \in F : t.its[j].here = Block(t, t.its[j].pos)
    BY <1>4, <1>7, <1>9, <1>11, <1>14
  <1>18. AtEnd(t) <=> AtEnd(z)
    BY <1>5, <1>11 DEF AtEnd
  <1>19. AtEnd(y) => AtEnd(z)
    BY <1>5 DEF AtEnd
  <1>20. ASSUME NEW u, u.it = v.it, u.todo = v.todo \ F, u.skipped = FALSE, u.todo # {}
         PROVE  UnderWay(t, u)
    <2>1. ASSUME NEW j \in v.todo, j \notin F
          PROVE  z.realpos <= y.its[j].pos /\ p < y.its[j].pos
      <3>1. y.its[j].pos # p /\ j \in Iterator /\ y.its[j].on
        <4>1. PICK l \in v.todo : ~(y.its[j].pos <= y.its[l].pos)
          BY <2>1 DEF F, First
        <4> QED BY <4>1, <1>2, <1>3, <1>4, <2>1 DEF Serves
      <3>2. p < y.its[j].pos
        BY <3>1, <1>2, <1>4, <2>1 DEF p
      <3>3. p + y.stride <= y.its[j].pos
        BY <3>1, <3>2, <1>1, <1>4 DEF Spaced, p
      <3> QED BY <3>1, <3>2, <3>3, <1>2, <1>4, <1>8 DEF p
    <2>2. k \in v.todo \ F
      <3>1. PICK l \in v.todo : l \notin F
        BY <1>20
      <3>2. p < y.its[l].pos /\ y.its[l].pos <= y.its[k].pos
        BY <3>1, <2>1, <1>3 DEF Serves
      <3>3. y.its[k].pos # p
        BY <3>2, <1>2, <1>4 DEF p
      <3> QED BY <3>3, <1>3, <1>7 DEF Serves
    <2>3. \A j \in u.todo : /\ t.its[j].on /\ t.realpos <= t.its[j].pos
                            /\ t.its[j].pos <= t.its[k].pos
      BY <2>1, <1>3, <1>4, <1>11, <1>20 DEF Serves
    <2>4. ASSUME NEW j \in Iterator \ u.todo, t.its[j].on, t.its[j].pos <= t.its[k].pos
          PROVE  t.its[j].pos < t.realpos \/ AtEnd(t)
      <3>1. CASE j \in F
        <4>1. z.realpos <= p => AtEnd(y)
          BY <1>2, <1>5, <1>6
        <4>2. p \in Nat /\ y.its[j].pos = p
          BY <3>1, <1>2, <1>4, <1>7 DEF p
        <4> QED BY <4>1, <4>2, <1>2, <1>11, <1>18, <1>19
      <3>2. CASE j \notin F
        <4>1. j \in Iterator \ v.todo
          BY <3>2, <2>4, <1>20
        <4>2. y.its[j].pos < y.realpos \/ AtEnd(y)
          BY <4>1, <2>4, <1>3, <1>11 DEF Serves
        <4> QED BY <4>2, <3>2, <2>4, <1>11, <1>15, <1>18, <1>19
      <3> QED BY <3>1, <3>2
    <2>5. Serves(t, u, k)
      BY <2>2, <2>3, <2>4, <1>3, <1>4, <1>20 DEF Serves
    <2> QED BY <2>5 DEF UnderWay
  <1>21. t.q.size = y.q.size
    BY <1>5, <1>11
  <1> QED BY <1>11, <1>12, <1>13, <1>16, <1>17, <1>20, <1>21 DEF Sound, F, RoundDone

----------------------------------------------------------------------------
(* The calls.                                                              *)

\* A call other than a look returns, and leaves a sound stream.
LEMMA ReturnedInv ==
  ASSUME NEW o, Returned(o), Sound(o.x)
  PROVE  StreamInv'
  <1>1. x' = o.x /\ serving' = Idle /\ last'.it = {}
    BY DEF Returned, NoCall
  <1> QED BY <1>1 DEF StreamInv, Sound, Reader, Tracks, Spaced, Served, Block, LastTrue

\* get() on a stream without iterators.
LEMMA GetInv ==
  ASSUME StreamInv, Get
  PROVE  StreamInv'
  <1> DEFINE b == fetchblock(x)
  <1>1. x \in XType /\ Reader(x) /\ Sound(x)
    BY DEF StreamInv, Sound
  <1>2. /\ b.exc = "ok" => Passing(x, b.x)
        /\ b.exc # "ok" => b.x = x
    BY <1>1, FetchblockReads
  <1>3. Unused /\ Returned(b)
    BY DEF Get
  <1> HIDE DEF b
  <1>4. Sound(b.x)
    <2>1. CASE b.exc # "ok"
      BY <2>1, <1>1, <1>2
    <2>2. CASE b.exc = "ok"
      <3>1. b.x \in XType /\ Reader(b.x) /\ b.x.its = x.its
        BY <2>2, <1>2 DEF Passing
      <3> QED BY <3>1, <1>3, UnusedSound DEF Unused
    <2> QED BY <2>1, <2>2
  <1> QED BY <1>3, <1>4, ReturnedInv

\* ignore() on a stream without iterators.
LEMMA IgnoreInv ==
  ASSUME StreamInv, NEW n \in Nat, Ignore(n)
  PROVE  StreamInv'
  <1> DEFINE b == ignore(x, n)
  <1>1. x \in XType /\ Reader(x) /\ Sound(x)
    BY DEF StreamInv, Sound
  <1>2. /\ b.exc = "ok" => Passing(x, b.x)
        /\ b.exc # "ok" => b.x = x
    BY <1>1, IgnoreSkips
  <1>3. Unused /\ Returned(b)
    BY DEF Ignore
  <1> HIDE DEF b
  <1>4. Sound(b.x)
    <2>1. CASE b.exc # "ok"
      BY <2>1, <1>1, <1>2
    <2>2. CASE b.exc = "ok"
      <3>1. b.x \in XType /\ Reader(b.x) /\ b.x.its = x.its
        BY <2>2, <1>2 DEF Passing
      <3> QED BY <3>1, <1>3, UnusedSound DEF Unused
    <2> QED BY <2>1, <2>2
  <1> QED BY <1>3, <1>4, ReturnedInv

\* set_stride() on a stream without iterators.
LEMMA SetStrideInv ==
  ASSUME StreamInv, NEW n \in 0..MaxRows, SetStride(n)
  PROVE  StreamInv'
  <1> DEFINE z == [x EXCEPT !.stride = n]
  <1>1. x \in XType /\ Reader(x) /\ Sound(x) /\ Unused
    BY DEF StreamInv, Sound, SetStride
  <1>2. CASE n < 1
    <2>1. Returned(Out(x, "argument")) /\ Out(x, "argument").x = x
      BY <1>2 DEF SetStride, Out
    <2> QED BY <2>1, <1>1, ReturnedInv
  <1>3. CASE ~(n < 1)
    <2>1. Returned(Out(z, "ok")) /\ Out(z, "ok").x = z
      BY <1>3 DEF SetStride, Out
    <2>2. n \in 1..Greatest(MaxStride, MaxRows)
      BY <1>3, SqlCursorAssumption, CursorStreamAssumption DEF Greatest
    <2>3. /\ z \in XType /\ z.its = x.its /\ z.q = x.q /\ z.c = x.c /\ z.base = x.base
          /\ z.realpos = x.realpos /\ z.done = x.done
      BY <2>2, <1>1 DEF XType
    <2> HIDE DEF z
    <2>4. Reader(z)
      BY <2>3, <1>1 DEF Reader
    <2>5. Sound(z)
      BY <2>3, <2>4, <1>1, UnusedSound DEF Unused
    <2> QED BY <2>1, <2>5, ReturnedInv
  <1> QED BY <1>2, <1>3

\* An iterator at p that has read nothing.
Fresh(p) == [on |-> TRUE, pos |-> p, here |-> <<>>]

\* An iterator just created, and one past the end.
LEMMA NewIterators ==
  ASSUME NEW p \in 0..MaxPos
  PROVE  /\ Fresh(p) \in IType /\ Fresh(p).on /\ Fresh(p).pos = p /\ Fresh(p).here = <<>>
         /\ PastEnd \in IType /\ ~PastEnd.on
  BY CursorStreamAssumption DEF Fresh, PastEnd, IType

\* The constructor: the place to go to has not been read.
LEMMA CreateInv ==
  ASSUME StreamInv, ReadBefore = FALSE, NEW i \in Iterator, Create(i)
  PROVE  StreamInv'
  <1> DEFINE f == [x.its EXCEPT ![i] = Fresh(x.reqpos)]
             z == [x EXCEPT !.its[i] = [on |-> TRUE, pos |-> x.reqpos, here |-> <<>>]]
  <1>1. x \in XType /\ Sound(x) /\ x.its \in [Iterator -> IType] /\ x.reqpos \in 0..MaxPos
    BY DEF StreamInv, Sound, XType
  <1>2. Returned(Out(z, "ok")) /\ Out(z, "ok").x = z /\ x.realpos <= x.reqpos
    BY <1>1, StreamNumbers DEF Create, Out
  <1>3. /\ f \in [Iterator -> IType]
        /\ \A j \in Iterator : f[j] = x.its[j] \/ f[j] = Fresh(x.reqpos)
    BY <1>1, NewIterators
  <1>4. z = [x EXCEPT !.its = f]
    BY <1>1 DEF Fresh, XType
  <1> HIDE DEF f, z
  <1>5. /\ z \in XType /\ z.its = f /\ z.reqpos = x.reqpos
        /\ z.q = x.q /\ z.c = x.c /\ z.realpos = x.realpos /\ z.done = x.done
        /\ z.stride = x.stride /\ z.base = x.base
    BY <1>1, <1>3, <1>4 DEF XType
  <1>6. \A j \in Iterator : z.its[j].on =>
          \/ \E k \in Iterator : x.its[k].on /\ z.its[j] = x.its[k]
          \/ z.its[j].pos = z.reqpos /\ z.its[j].here = <<>> /\ z.realpos <= z.reqpos
    BY <1>1, <1>2, <1>3, <1>5, NewIterators
  <1>7. Sound(z)
    BY <1>1, <1>5, <1>6, IteratorsMoved
  <1> QED BY <1>2, <1>7, ReturnedInv

\* The copy constructor and operator=().
LEMMA AssignInv ==
  ASSUME StreamInv, NEW i \in Iterator, NEW k \in Iterator, Assign(i, k)
  PROVE  StreamInv'
  <1> DEFINE f == [x.its EXCEPT ![i] = x.its[k]]
             z == [x EXCEPT !.its[i] = x.its[k]]
  <1>1. x \in XType /\ Sound(x) /\ x.its \in [Iterator -> IType] /\ x.reqpos \in 0..MaxPos
    BY DEF StreamInv, Sound, XType
  <1>2. Returned(Out(z, "ok")) /\ Out(z, "ok").x = z
    BY DEF Assign, Out
  <1>3. /\ f \in [Iterator -> IType]
        /\ \A j \in Iterator : f[j] = x.its[j] \/ f[j] = x.its[k]
    BY <1>1
  <1>4. z = [x EXCEPT !.its = f]
    BY <1>1 DEF XType
  <1> HIDE DEF f, z
  <1>5. /\ z \in XType /\ z.its = f /\ z.reqpos = x.reqpos
        /\ z.q = x.q /\ z.c = x.c /\ z.realpos = x.realpos /\ z.done = x.done
        /\ z.stride = x.stride /\ z.base = x.base
    BY <1>1, <1>3, <1>4 DEF XType
  <1>6. \A j \in Iterator : z.its[j].on =>
          \/ \E l \in Iterator : x.its[l].on /\ z.its[j] = x.its[l]
          \/ z.its[j].pos = z.reqpos /\ z.its[j].here = <<>> /\ z.realpos <= z.reqpos
    BY <1>3, <1>5
  <1>7. Sound(z)
    BY <1>1, <1>5, <1>6, IteratorsMoved
  <1> QED BY <1>2, <1>7, ReturnedInv

\* The destructor.
LEMMA DestroyInv ==
  ASSUME StreamInv, NEW i \in Iterator, Destroy(i)
  PROVE  StreamInv'
  <1> DEFINE f == [x.its EXCEPT ![i] = PastEnd]
             z == [x EXCEPT !.its[i] = PastEnd]
  <1>1. x \in XType /\ Sound(x) /\ x.its \in [Iterator -> IType] /\ x.reqpos \in 0..MaxPos
    BY DEF StreamInv, Sound, XType
  <1>2. Returned(Out(z, "ok")) /\ Out(z, "ok").x = z
    BY DEF Destroy, Out
  <1>3. /\ f \in [Iterator -> IType]
        /\ \A j \in Iterator : f[j] = x.its[j] \/ f[j] = PastEnd
    BY <1>1, NewIterators
  <1>4. z = [x EXCEPT !.its = f]
    BY <1>1 DEF XType
  <1> HIDE DEF f, z
  <1>5. /\ z \in XType /\ z.its = f /\ z.reqpos = x.reqpos
        /\ z.q = x.q /\ z.c = x.c /\ z.realpos = x.realpos /\ z.done = x.done
        /\ z.stride = x.stride /\ z.base = x.base
    BY <1>1, <1>3, <1>4 DEF XType
  <1>6. \A j \in Iterator : z.its[j].on =>
          \/ \E l \in Iterator : x.its[l].on /\ z.its[j] = x.its[l]
          \/ z.its[j].pos = z.reqpos /\ z.its[j].here = <<>> /\ z.realpos <= z.reqpos
    BY <1>1, <1>3, <1>5, NewIterators
  <1>7. Sound(z)
    BY <1>1, <1>5, <1>6, IteratorsMoved
  <1> QED BY <1>2, <1>7, ReturnedInv

\* An iterator that was on the stream goes to where the stream is to go next: n
\* strides ahead, which is beyond all that has been read.
LEMMA AheadSound ==
  ASSUME NEW y, Sound(y), NEW k \in Iterator, y.its[k].on, NEW z \in XType,
         z.q = y.q, z.c = y.c, z.realpos = y.realpos, z.done = y.done,
         z.stride = y.stride, z.base = y.base,
         NEW n \in 1..2, z.reqpos = y.reqpos + n * y.stride,
         \A j \in Iterator : \/ z.its[j] = Fresh(z.reqpos)
                             \/ \E l \in Iterator : z.its[j] = y.its[l]
  PROVE  Sound(z)
  <1>1. y \in XType /\ Spaced(y)
    BY DEF Sound
  <1>2. y.realpos \in Nat /\ y.stride \in Nat /\ y.stride > 0 /\ y.reqpos \in Nat
    BY <1>1, StreamNumbers
  <1>3. z.reqpos \in 0..MaxPos /\ z.reqpos >= y.reqpos + y.stride
    <2>1. n = 1 \/ n = 2
      OBVIOUS
    <2>2. z.reqpos = y.reqpos + y.stride \/ z.reqpos = y.reqpos + y.stride + y.stride
      BY <1>2, <2>1
    <2> QED BY <1>2, <2>2 DEF XType
  <1>5. y.realpos <= y.reqpos + y.stride
    BY <1>1 DEF Spaced
  <1>6. z.realpos <= z.reqpos
    BY <1>2, <1>3, <1>5
  <1>7. \A j \in Iterator : z.its[j].on =>
          \/ \E l \in Iterator : y.its[l].on /\ z.its[j] = y.its[l]
          \/ z.its[j].pos = z.reqpos /\ z.its[j].here = <<>> /\ z.realpos <= z.reqpos
    BY <1>3, <1>6, NewIterators
  <1> QED BY <1>3, <1>7, IteratorsMoved

\* operator+=() and operator++().
LEMMA AdvanceInv ==
  ASSUME StreamInv, NEW i \in Iterator, NEW n \in -1..2, Advance(i, n)
  PROVE  StreamInv'
  <1> DEFINE r == x.reqpos + n * x.stride
             f == [x.its EXCEPT ![i] = Fresh(r)]
             z == AtRequest(forward(x, n), i)
  <1>1. /\ x \in XType /\ Sound(x) /\ x.its \in [Iterator -> IType]
        /\ x.reqpos \in 0..MaxPos /\ x.its[i].on
    BY DEF StreamInv, Sound, XType, Advance
  <1>2. CASE n = -1 \/ n = 0
    <2>1. Returned(Out(x, "argument")) \/ Returned(Out(x, "ok"))
      BY <1>2 DEF Advance
    <2>2. Out(x, "argument").x = x /\ Out(x, "ok").x = x
      BY DEF Out
    <2> QED BY <2>1, <2>2, <1>1, ReturnedInv
  <1>3. CASE n \in 1..2
    <2>1. Returned(Out(z, "ok")) /\ Out(z, "ok").x = z /\ r <= MaxPos
      BY <1>3 DEF Advance, Out
    <2>2. r \in 0..MaxPos
      <3>1. x.reqpos \in Nat /\ x.stride \in Nat /\ MaxPos \in Nat
        BY <1>1, StreamNumbers, CursorStreamAssumption
      <3>2. n = 1 \/ n = 2
        BY <1>3
      <3> QED BY <3>1, <3>2, <2>1
    <2> HIDE DEF r
    <2>3. f \in [Iterator -> IType] /\ \A j \in Iterator : f[j] = Fresh(r) \/ f[j] = x.its[j]
      BY <1>1, <2>2, NewIterators
    <2> DEFINE y == [x EXCEPT !.reqpos = r]
    <2>4. /\ y \in XType /\ y.its = x.its /\ y.reqpos = r
          /\ y.q = x.q /\ y.c = x.c /\ y.realpos = x.realpos /\ y.done = x.done
          /\ y.stride = x.stride /\ y.base = x.base
      BY <1>1, <2>2 DEF XType
    <2>5. z = AtRequest(y, i)
      BY <1>1 DEF forward, r, XType
    <2> HIDE DEF y, z
    <2>6. z = [y EXCEPT !.its = f]
      BY <2>4, <2>5 DEF AtRequest, Fresh, XType
    <2> HIDE DEF f
    <2>7. /\ z \in XType /\ z.its = f /\ z.reqpos = r
          /\ z.q = x.q /\ z.c = x.c /\ z.realpos = x.realpos /\ z.done = x.done
          /\ z.stride = x.stride /\ z.base = x.base
      BY <2>3, <2>4, <2>6 DEF XType
    <2>8. r = x.reqpos + n * x.stride
      BY DEF r
    <2>9. Sound(z)
      BY <1>1, <1>3, <2>3, <2>7, <2>8, AheadSound
    <2> QED BY <2>1, <2>9, ReturnedInv
  <1> QED BY <1>2, <1>3

\* operator++(int): the old iterator keeps what it has read.
LEMMA PostIncrementInv ==
  ASSUME StreamInv, NEW i \in Iterator, NEW k \in Iterator, PostIncrement(i, k)
  PROVE  StreamInv'
  <1> DEFINE r == x.reqpos + 1 * x.stride
             g == [x.its EXCEPT ![k] = x.its[i]]
             f == [g EXCEPT ![i] = Fresh(r)]
             v == [x EXCEPT !.its[k] = x.its[i]]
             y == [v EXCEPT !.reqpos = r]
             z == AtRequest(forward(v, 1), i)
  <1>1. /\ x \in XType /\ Sound(x) /\ x.its \in [Iterator -> IType]
        /\ x.reqpos \in 0..MaxPos /\ x.its[i].on
    BY DEF StreamInv, Sound, XType, PostIncrement
  <1>2. /\ Returned(Out(z, "ok")) /\ Out(z, "ok").x = z
        /\ x.reqpos + x.stride <= MaxPos
    BY DEF PostIncrement, Out
  <1>3. r \in 0..MaxPos
    BY <1>1, <1>2, StreamNumbers, CursorStreamAssumption
  <1>4. /\ g \in [Iterator -> IType]
        /\ \A j \in Iterator : g[j] = x.its[i] \/ g[j] = x.its[j]
    BY <1>1
  <1>5. v = [x EXCEPT !.its = g]
    BY <1>1 DEF XType
  <1> HIDE DEF r, v
  <1>6. /\ f \in [Iterator -> IType]
        /\ \A j \in Iterator : f[j] = Fresh(r) \/ f[j] = g[j]
    <2> HIDE DEF g
    <2> QED BY <1>3, <1>4, NewIterators
  <1> HIDE DEF g
  <1>7. /\ v \in XType /\ v.its = g /\ v.reqpos = x.reqpos
        /\ v.q = x.q /\ v.c = x.c /\ v.realpos = x.realpos /\ v.done = x.done
        /\ v.stride = x.stride /\ v.base = x.base
    BY <1>1, <1>4, <1>5 DEF XType
  <1>8. /\ y \in XType /\ y.its = g /\ y.reqpos = r
        /\ y.q = x.q /\ y.c = x.c /\ y.realpos = x.realpos /\ y.done = x.done
        /\ y.stride = x.stride /\ y.base = x.base
    BY <1>3, <1>7 DEF XType
  <1>9. forward(v, 1) = y
    BY <1>7 DEF forward, r, XType
  <1> HIDE DEF y
  <1>10. z = [y EXCEPT !.its = f]
    BY <1>8, <1>9 DEF AtRequest, Fresh, XType
  <1> HIDE DEF z, f
  <1>11. /\ z \in XType /\ z.its = f /\ z.reqpos = r
         /\ z.q = x.q /\ z.c = x.c /\ z.realpos = x.realpos /\ z.done = x.done
         /\ z.stride = x.stride /\ z.base = x.base
    BY <1>6, <1>8, <1>10 DEF XType
  <1>12. \A j \in Iterator : z.its[j] = Fresh(z.reqpos) \/ \E l \in Iterator : z.its[j] = x.its[l]
    BY <1>4, <1>6, <1>11
  <1>13. z.reqpos = x.reqpos + 1 * x.stride
    BY <1>11 DEF r
  <1>14. Sound(z)
    BY <1>1, <1>11, <1>12, <1>13, AheadSound
  <1> QED BY <1>2, <1>14, ReturnedInv

\* refresh(): an iterator that has been served shows its block, and otherwise the
\* list holds every iterator between the stream and the one looked at.
LEMMA LookInv ==
  ASSUME StreamInv, NEW i \in Iterator, Look(i)
  PROVE  StreamInv'
  <1>1. x \in XType /\ Sound(x) /\ x' = x /\ x.its[i].on /\ serving = Idle
    BY DEF StreamInv, Sound, Look
  <1>2. CASE x.its[i].pos < x.realpos
    <2>1. last'.it = {i} /\ last'.rows = x.its[i].here /\ serving' = Idle
      BY <1>1, <1>2 DEF Look
    <2>2. x.its[i].here = Block(x, x.its[i].pos)
      BY <1>1, <1>2 DEF Sound, Served
    <2>3. LastTrue(x, last')
      BY <2>1, <2>2 DEF LastTrue
    <2> QED BY <1>1, <2>1, <2>3 DEF StreamInv, Sound, Reader, Tracks, Spaced, Served, Block, LastTrue
  <1>3. CASE ~(x.its[i].pos < x.realpos)
    <2> DEFINE t == Waiting(x, x.its[i].pos)
    <2>1. /\ serving'.it = {i} /\ serving'.todo = t /\ serving'.skipped = FALSE
          /\ last'.it = {}
      BY <1>1, <1>3 DEF Look, NoCall
    <2>2. /\ t \subseteq Iterator
          /\ \A j \in t : x.its[j].on /\ x.realpos <= x.its[j].pos /\ x.its[j].pos <= x.its[i].pos
          /\ \A j \in Iterator \ t : x.its[j].on /\ x.its[j].pos <= x.its[i].pos =>
               x.its[j].pos < x.realpos
          /\ i \in t
      BY <1>1, <1>3, StreamNumbers DEF Waiting
    <2> HIDE DEF t
    <2>3. PICK v : v = serving'
      OBVIOUS
    <2>4. Serves(x, v, i)
      BY <2>1, <2>2, <2>3 DEF Serves
    <2>5. UnderWay(x, v)
      BY <2>4 DEF UnderWay
    <2>6. Sound(x') /\ UnderWay(x', serving')
      BY <1>1, <2>3, <2>5
    <2>7. LastTrue(x', last')
      BY <2>1 DEF LastTrue
    <2> QED BY <2>6, <2>7 DEF StreamInv, Sound, Reader, Tracks, Spaced, Served, Block, LastTrue,
          UnderWay, Serves, First, AtEnd
  <1> QED BY <1>2, <1>3

\* What service_iterators() leaves when it goes on, and when it ends.
LEMMA ServingInv ==
  ASSUME NEW o, NEW todo, NEW skipped, ServingWent(o, todo, skipped), x' = o.x,
         StreamInv, UnderWay(x, serving), Sound(o.x),
         o.exc = "ok" => /\ o.x.base = x.base /\ o.x.stride = x.stride
                         /\ o.x.q.size = x.q.size
                         /\ \A j \in Iterator : /\ o.x.its[j].on = x.its[j].on
                                                /\ o.x.its[j].pos = x.its[j].pos,
         o.exc = "ok" /\ todo # {} =>
           \A u : u.it = serving.it /\ u.todo = todo /\ u.skipped = skipped => UnderWay(o.x, u),
         o.exc = "ok" /\ todo = {} =>
           \A k \in serving.it : o.x.its[k].here = Block(o.x, o.x.its[k].pos)
  PROVE  StreamInv'
  <1>1. PICK k \in Iterator : serving.it = {k}
    BY DEF UnderWay, Serves
  <1>2. CASE o.exc = "ok" /\ todo # {}
    <2>1. PICK u : u = serving'
      OBVIOUS
    <2>2. u.it = serving.it /\ u.todo = todo /\ u.skipped = skipped /\ last' = last
      BY <1>2, <2>1 DEF ServingWent
    <2>3. UnderWay(o.x, u)
      BY <1>2, <2>2
    <2>4. \A p : Block(o.x, p) = Block(x, p)
      BY <1>2, SameBlock
    <2>5. LastTrue(x, last)
      BY DEF StreamInv
    <2>6. LastTrue(o.x, last')
      BY <1>2, <2>2, <2>4, <2>5 DEF LastTrue
    <2>7. Sound(x') /\ UnderWay(x', serving') /\ LastTrue(x', last')
      BY <2>1, <2>3, <2>6
    <2> QED BY <2>7 DEF StreamInv, Sound, Reader, Tracks, Spaced, Served, Block, LastTrue,
          UnderWay, Serves, First, AtEnd
  <1>3. CASE ~(o.exc = "ok" /\ todo # {})
    <2>1. PICK l : l = last'
      OBVIOUS
    <2>2. serving' = Idle /\ l.it = {k} /\ l.rows = o.x.its[k].here /\ l.exc = o.exc
      BY <1>1, <1>3, <2>1 DEF ServingWent
    <2>3. LastTrue(o.x, l)
      BY <1>1, <1>3, <2>2 DEF LastTrue
    <2>4. Sound(x') /\ serving' = Idle /\ LastTrue(x', last')
      BY <2>1, <2>2, <2>3
    <2> QED BY <2>4 DEF StreamInv, Sound, Reader, Tracks, Spaced, Served, Block, LastTrue
  <1> QED BY <1>2, <1>3

\* The rounds happen in service_iterators() only.
LEMMA RoundUnderWay ==
  ASSUME StreamInv, NEW i \in First(x, serving.todo)
  PROVE  UnderWay(x, serving) /\ i \in Iterator
  <1>1. serving # Idle
    BY DEF First, Idle
  <1> QED BY <1>1 DEF StreamInv, UnderWay, Serves, First

\* The first half of a round of service_iterators().
LEMMA SkipInv ==
  ASSUME StreamInv, NEW i \in Iterator, Skip(i)
  PROVE  StreamInv'
  <1> DEFINE n == x.its[i].pos - x.realpos
             o == ignore(x, n)
  <1>1. /\ x \in XType /\ Reader(x) /\ Sound(x)
        /\ i \in First(x, serving.todo) /\ UnderWay(x, serving)
    BY RoundUnderWay DEF StreamInv, Sound, Skip
  <1>2. n \in Nat /\ x.its[i].pos = x.realpos + n
    BY <1>1, StreamNumbers DEF Skip
  <1>3. x' = o.x /\ ServingWent(o, serving.todo, TRUE)
    BY DEF Skip
  <1>4. /\ o.exc = "ok" => /\ Passing(x, o.x)
                           /\ o.x.realpos = x.realpos + n \/ AtEnd(o.x)
                           /\ o.x.realpos <= x.realpos + n
        /\ o.exc # "ok" => o.x = x
    BY <1>1, <1>2, IgnoreSkips
  <1>5. serving.todo # {}
    BY <1>1 DEF First
  <1> HIDE DEF n, o
  <1>6. CASE o.exc # "ok"
    BY <1>1, <1>3, <1>4, <1>6, ServingInv
  <1>7. CASE o.exc = "ok"
    <2>1. ASSUME NEW u, u.it = serving.it, u.todo = serving.todo, u.skipped = TRUE
          PROVE  Sound(o.x) /\ UnderWay(o.x, u)
      BY <1>1, <1>2, <1>4, <1>7, <2>1, SkipSound
    <2>2. Sound(o.x)
      <3> DEFINE u == [it |-> serving.it, todo |-> serving.todo, skipped |-> TRUE]
      <3>1. u.it = serving.it /\ u.todo = serving.todo /\ u.skipped = TRUE
        OBVIOUS
      <3> QED BY <3>1, <2>1
    <2>3. /\ o.x.base = x.base /\ o.x.stride = x.stride /\ o.x.q.size = x.q.size
          /\ o.x.its = x.its
      BY <1>4, <1>7 DEF Passing
    <2> QED BY <1>1, <1>3, <1>5, <1>7, <2>1, <2>2, <2>3, ServingInv
  <1> QED BY <1>6, <1>7

\* The second half: the group that was waiting is served and leaves the list.
LEMMA ReadInv ==
  ASSUME StreamInv, NEW i \in Iterator, Read(i)
  PROVE  StreamInv'
  <1> DEFINE F == First(x, serving.todo)
             b == fetchblock(x)
             t == Filled(b.x, F, b.rows)
             o == Out(IF b.exc = "ok" THEN t ELSE b.x, b.exc)
  <1>1. /\ x \in XType /\ Reader(x) /\ Sound(x)
        /\ i \in F /\ UnderWay(x, serving)
        /\ serving.skipped \/ x.its[i].pos <= x.realpos
    BY RoundUnderWay DEF StreamInv, Sound, Read
  <1>2. x' = o.x /\ ServingWent(o, serving.todo \ F, FALSE)
    BY DEF Read
  <1>3. /\ b.exc = "ok" => /\ Passing(x, b.x)
                           /\ b.x.realpos <= x.realpos + x.stride
                           /\ b.x.realpos = x.realpos => AtEnd(x)
                           /\ b.rows = Block(x, x.realpos) /\ b.rows \in Seq(1..MaxRows)
        /\ b.exc # "ok" => b.x = x
    BY <1>1, FetchblockReads
  <1> HIDE DEF b, t
  <1>4. o.exc = b.exc /\ (b.exc = "ok" => o.x = t) /\ (b.exc # "ok" => o.x = b.x)
    BY DEF Out
  <1> HIDE DEF o
  <1>5. CASE b.exc # "ok"
    BY <1>1, <1>2, <1>3, <1>4, <1>5, ServingInv
  <1>6. CASE b.exc = "ok"
    <2>1. t = Filled(b.x, First(x, serving.todo), b.rows)
      BY DEF t
    <2>2. /\ Sound(t)
          /\ t.base = x.base /\ t.stride = x.stride /\ t.q.size = x.q.size
          /\ \A j \in Iterator : t.its[j].on = x.its[j].on /\ t.its[j].pos = x.its[j].pos
          /\ \A j \in F : t.its[j].here = Block(t, t.its[j].pos)
          /\ \A u : /\ u.it = serving.it /\ u.todo = serving.todo \ F /\ u.skipped = FALSE
                    /\ u.todo # {}
                    => UnderWay(t, u)
      <3>1. RoundDone(x, serving, t)
        BY <1>1, <1>3, <1>6, <2>1, ReadSound
      <3> QED BY <3>1 DEF RoundDone
    <2>3. serving.todo \ F = {} => \A k \in serving.it : k \in F
      BY <1>1 DEF UnderWay, Serves
    <2> HIDE DEF F
    <2> QED BY <1>1, <1>2, <1>4, <1>6, <2>2, <2>3, ServingInv
  <1> QED BY <1>5, <1>6

\* The session is lost, possibly between two halves of a round.
LEMMA LoseInv ==
  ASSUME StreamInv, Lose
  PROVE  StreamInv'
  <1> DEFINE r == [x.q EXCEPT !.live = FALSE]
             z == [x EXCEPT !.q = r]
  <1>1. /\ x \in XType /\ Reader(x) /\ Spaced(x) /\ Served(x) /\ x.q \in QType
        /\ LastTrue(x, last) /\ (serving = Idle \/ UnderWay(x, serving))
    BY DEF StreamInv, Sound, XType
  <1>2. r \in QType /\ r.at = x.q.at /\ r.size = x.q.size
    BY <1>1 DEF QType
  <1>3. x' = z /\ serving' = serving /\ last' = last
    BY <1>1 DEF Lose, XType
  <1> HIDE DEF r
  <1>4. /\ z \in XType /\ z.q = r /\ z.c = x.c /\ z.realpos = x.realpos /\ z.done = x.done
        /\ z.stride = x.stride /\ z.reqpos = x.reqpos /\ z.its = x.its /\ z.base = x.base
    BY <1>1, <1>2 DEF XType
  <1> HIDE DEF z
  <1>5. Reader(z)
    BY <1>1, <1>2, <1>4 DEF Reader, Tracks
  <1>6. \A p : Block(z, p) = Block(x, p)
    BY <1>2, <1>4, SameBlock
  <1>7. Spaced(z) /\ Served(z) /\ LastTrue(z, last)
    BY <1>1, <1>4, <1>6 DEF Spaced, Served, LastTrue
  <1>8. UnderWay(x, serving) => UnderWay(z, serving)
    BY <1>2, <1>4 DEF UnderWay, Serves, First, AtEnd
  <1>9. /\ Sound(x') /\ (serving' = Idle \/ UnderWay(x', serving'))
        /\ LastTrue(x', last')
    BY <1>1, <1>3, <1>4, <1>5, <1>7, <1>8 DEF Sound
  <1> QED BY <1>9 DEF StreamInv, Sound, Reader, Tracks, Spaced, Served, Block, LastTrue,
        UnderWay, Serves, First, AtEnd

\* A stream that has just been created or has adopted a cursor.
LEMMA StreamInit ==
  Init => StreamInv
  <1> SUFFICES ASSUME Init PROVE StreamInv
    OBVIOUS
  <1>1. PICK size \in 0..MaxRows, stride \in 1..MaxStride, at \in 0..(MaxRows + 1) :
          /\ at <= size + 1
          /\ \E c \in {[at_end |-> 0, pos |-> -1, endpos |-> -1]} \cup
                      (IF at = 0 THEN {[at_end |-> -1, pos |-> 0, endpos |-> -1]} ELSE {}) :
               x = [q |-> [live |-> TRUE, hold |-> FALSE, size |-> size, at |-> at],
                    c |-> c, stride |-> stride, realpos |-> 0, reqpos |-> 0,
                    done |-> FALSE, its |-> [i \in Iterator |-> PastEnd],
                    base |-> Least(at, size)]
    BY DEF Init
  <1> DEFINE q == [live |-> TRUE, hold |-> FALSE, size |-> size, at |-> at]
             its == [i \in Iterator |-> PastEnd]
  <1>2. PICK c : /\ \/ c = [at_end |-> 0, pos |-> -1, endpos |-> -1]
                    \/ c = [at_end |-> -1, pos |-> 0, endpos |-> -1] /\ at = 0
                 /\ x = [q |-> q, c |-> c, stride |-> stride, realpos |-> 0, reqpos |-> 0,
                         done |-> FALSE, its |-> its, base |-> Least(at, size)]
    BY <1>1
  <1>3. size \in Nat /\ at \in Nat /\ at <= size + 1 /\ MaxRows \in Nat /\ MaxStride \in Nat
    BY <1>1, SqlCursorAssumption, CursorStreamAssumption
  <1>4. q \in QType /\ q.size = size /\ q.at = at
    BY DEF QType
  <1>5. c \in CType /\ Tracks(q, c)
    BY <1>2, <1>3, <1>4 DEF CType, Tracks
  <1>6. its \in [Iterator -> IType] /\ \A i \in Iterator : ~its[i].on
    BY CursorStreamAssumption, NewIterators DEF PastEnd, IType
  <1>7. stride \in 1..Greatest(MaxStride, MaxRows) /\ Least(at, size) \in Nat
    BY <1>3 DEF Greatest, Least
  <1> HIDE DEF q, its
  <1>8. /\ x \in XType /\ x.q = q /\ x.c = c /\ x.realpos = 0 /\ ~x.done /\ x.its = its
        /\ x.base = Least(at, size)
    BY <1>2, <1>4, <1>5, <1>6, <1>7, CursorStreamAssumption DEF XType
  <1>9. Reader(x)
    BY <1>4, <1>5, <1>7, <1>8 DEF Reader
  <1>10. Sound(x)
    BY <1>6, <1>8, <1>9, UnusedSound
  <1>11. serving = Idle /\ last.it = {}
    BY DEF Init, NoCall
  <1> QED BY <1>10, <1>11 DEF StreamInv, LastTrue

\* Every step keeps the invariant.
LEMMA StreamStep ==
  ASSUME ReadBefore = FALSE, StreamInv, [Next]_vars
  PROVE  StreamInv'
  <1>1. CASE UNCHANGED vars
    BY <1>1 DEF vars, StreamInv, Sound, Reader, Tracks, Spaced, Served, Block, LastTrue,
      UnderWay, Serves, First, AtEnd
  <1>2. CASE Get \/ Lose
    BY <1>2, GetInv, LoseInv
  <1>3. CASE \E n \in 0..MaxRows : Ignore(n) \/ SetStride(n)
    <2>1. PICK n \in 0..MaxRows : Ignore(n) \/ SetStride(n)
      BY <1>3
    <2>2. n \in Nat
      BY SqlCursorAssumption
    <2> QED BY <2>1, <2>2, IgnoreInv, SetStrideInv
  <1>4. ASSUME NEW i \in Iterator, Create(i) \/ Destroy(i) \/ Look(i) \/ Skip(i) \/ Read(i)
        PROVE  StreamInv'
    BY <1>4, CreateInv, DestroyInv, LookInv, SkipInv, ReadInv
  <1>5. ASSUME NEW i \in Iterator, NEW n \in -1..2, Advance(i, n)
        PROVE  StreamInv'
    BY <1>5, AdvanceInv
  <1>6. ASSUME NEW i \in Iterator, NEW j \in Iterator, Assign(i, j) \/ PostIncrement(i, j)
        PROVE  StreamInv'
    BY <1>6, AssignInv, PostIncrementInv
  <1> QED BY <1>1, <1>2, <1>3, <1>4, <1>5, <1>6 DEF Next

\* The properties follow.
LEMMA StreamInvProperties ==
  ASSUME StreamInv
  PROVE  StreamInStep /\ LookIsExact
  <1>1. x \in XType /\ Reader(x) /\ Served(x) /\ LastTrue(x, last)
    BY DEF StreamInv, Sound
  <1>2. \A p : BlockAt(p) = Block(x, p)
    BY DEF BlockAt, Block
  <1>3. TypeOK
    BY <1>1 DEF TypeOK, XType, IType, Reader
  <1>4. IteratorsServed
    BY <1>1, <1>2 DEF IteratorsServed, Served
  <1>5. DoneMeansEnd
    BY <1>1 DEF DoneMeansEnd, Reader
  <1>6. LookIsExact
    BY <1>1, <1>2 DEF LookIsExact, LastTrue
  <1> QED BY <1>3, <1>4, <1>5, <1>6 DEF StreamInStep

----------------------------------------------------------------------------

\* service_iterators(): for any number of iterators, any stride and any result set,
\* whatever order the calls come in and wherever the session is lost, the stream and
\* its iterators agree on what has been read: an iterator that was passed holds the
\* block at its position, and a stream that says it is done has passed every row.
\* Iterators are created before the stream has read past where they start.
THEOREM StreamInStepHolds ==
  ASSUME ReadBefore = FALSE
  PROVE  Spec => []StreamInStep
  <1>1. Init => StreamInv
    BY StreamInit
  <1>2. StreamInv /\ [Next]_vars => StreamInv'
    BY StreamStep
  <1>3. StreamInv => StreamInStep
    BY StreamInvProperties
  <1> QED BY <1>1, <1>2, <1>3, PTL DEF Spec

\* operator*(): an iterator that is looked at shows exactly the block at its
\* position, whichever iterators made the stream read on before.
THEOREM LookIsExactHolds ==
  ASSUME ReadBefore = FALSE
  PROVE  Spec => []LookIsExact
  <1>1. Init => StreamInv
    BY StreamInit
  <1>2. StreamInv /\ [Next]_vars => StreamInv'
    BY StreamStep
  <1>3. StreamInv => LookIsExact
    BY StreamInvProperties
  <1> QED BY <1>1, <1>2, <1>3, PTL DEF Spec
=============================================================================
