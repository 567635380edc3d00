------------------------- MODULE LargeObjectProofs -------------------------
(***************************************************************************)
(* Proofs about LargeObject, for any number of accesses, streams and       *)
(* objects of any contents, and for buffers of any size.                   *)
(*                                                                         *)
(* First, that each access works with a descriptor of its own.  What the   *)
(* objects hold does not matter for that: what the calls do to the         *)
(* backend's descriptors, then that every step preserves the inductive     *)
(* invariant DescriptorInv, then the theorem.                              *)
(*                                                                         *)
(* Then, that what is written is stored and that what is stored is read.   *)
(* The inductive invariant is ContentsInv.  It relates an object as it is  *)
(* stored, the areas of the stream over it and the place of its descriptor *)
(* to the object as it would be without a buffer.                          *)
(***************************************************************************)
EXTENDS LargeObject, FiniteSetTheorems, SequenceTheorems, WellFoundedInduction, TLAPS

\* The descriptors of server v.
Fds(v) == IsFiniteSet(DOMAIN v.fds) /\ DOMAIN v.fds \subseteq Nat

\* There is a number that is not in use, and NextFd() is one.
LEMMA NextFdIsNew ==
  ASSUME NEW v, Fds(v)
  PROVE  NextFd(v) \in Nat /\ NextFd(v) \notin DOMAIN v.fds
<1> DEFINE D == DOMAIN v.fds
           n == Cardinality(D)
           S == (0 .. n) \ D
<1>1. n \in Nat
  BY FS_CardinalityType DEF Fds
<1>2. S # {}
  <2> SUFFICES ASSUME 0 .. n \subseteq D PROVE FALSE
    OBVIOUS
  <2>1. IsFiniteSet(0 .. n) /\ Cardinality(0 .. n) = n + 1
    BY <1>1, FS_Interval
  <2>2. Cardinality(0 .. n) <= n
    BY FS_Subset DEF Fds
  <2> QED BY <1>1, <2>1, <2>2
<1>3. S \subseteq Nat
  BY <1>1
<1>4. PICK m \in S : \A k \in S : m <= k
  <2>1. \E m \in S : \A k \in S : ~(<<k, m>> \in OpToRel(<, Nat))
    BY <1>2, <1>3, WFMin, NatLessThanWellFounded
  <2>2. \A k, m \in Nat : ~(<<k, m>> \in OpToRel(<, Nat)) => m <= k
    BY DEF OpToRel
  <2> QED BY <1>3, <2>1, <2>2
<1>5. Min(S) \in S
  BY <1>4 DEF Min
<1> QED BY <1>3, <1>5 DEF NextFd

----------------------------------------------------------------------------
(* What a call may do to the descriptors, and the inductive invariant.     *)

\* v is a server, with its fields and descriptors whatever they hold.
Descriptor(d) == d = [obj |-> d.obj, pos |-> d.pos, write |-> d.write]

Server(v) ==
  /\ v = [blk |-> v.blk, up |-> v.up, objs |-> v.objs, saved |-> v.saved, fds |-> v.fds]
  /\ Fds(v) /\ \A fd \in DOMAIN v.fds : Descriptor(v.fds[fd])

Access(a) ==
  a = [kind |-> a.kind, id |-> a.id, fd |-> a.fd, g |-> a.g, gp |-> a.gp, p |-> a.p,
       state |-> a.state]

\* The client's objects, whatever they hold.
Accesses(f) == f = [h \in Handle |-> f[h]] /\ \A h \in Handle : Access(f[h])

\* The same descriptors are open in u as in v, and on the same objects.
SameFds(v, u) ==
  /\ Server(u) /\ u.up = v.up
  /\ DOMAIN u.fds = DOMAIN v.fds
  /\ \A fd \in DOMAIN v.fds : u.fds[fd].obj = v.fds[fd].obj

\* A call on v that has ended in r: if it has doomed the block, it says so.
Kept(v, r) ==
  /\ SameFds(v, r.b)
  /\ v.blk = "open" /\ r.res # -1 => r.b.blk = "open"

\* e is a after some calls.
SameAccess(a, e) == Access(e) /\ e.kind = a.kind /\ e.id = a.id /\ e.fd = a.fd

\* The same for a call on a stream, which stays on its descriptor.
KeptOn(v, a, r) ==
  /\ Kept(v, r)
  /\ SameAccess(a, r.a)

DescriptorInv ==
  /\ Server(b)
  /\ Accesses(acc)
  /\ told \in BOOLEAN /\ silent \in BOOLEAN
  /\ tx # "active" => \A h \in Handle : acc[h].kind = "none"
  /\ Sound => b.blk = "open"
  /\ OwnDescriptor

\* Failing() leaves the descriptors.
LEMMA FailingKeeps ==
  ASSUME NEW v, Server(v), NEW r \in Failing(v)
  PROVE  Kept(v, r) /\ r.res = -1 /\ r = Res(r.b, r.res) /\ r.b.blk # "open"
BY DEF Server, Failing, Kept, SameFds, Res, Fds

\* A change of the objects alone keeps the descriptors.
LEMMA ObjectsKeep ==
  ASSUME NEW v, Server(v), NEW objs, NEW res, NEW r \in LoCall(v, [v EXCEPT !.objs = objs], res)
  PROVE  Kept(v, r) /\ r = Res(r.b, r.res)
<1>1. CASE r \in Failing(v)
  BY <1>1, FailingKeeps
<1>2. CASE v.blk = "open" /\ r = Res([v EXCEPT !.objs = objs], res)
  BY <1>2 DEF Server, Kept, SameFds, Res, Fds
<1> QED BY <1>1, <1>2 DEF LoCall

\* lo_creat() and lo_unlink() do not touch descriptors.
LEMMA CreatKeeps ==
  ASSUME NEW v, Server(v), NEW o, NEW text, NEW r \in lo_creat(v, o, text)
  PROVE  Kept(v, r)
BY ObjectsKeep DEF lo_creat

\* Removing an object leaves the descriptors that are open on it.
LEMMA UnlinkKeeps ==
  ASSUME NEW v, Server(v), NEW o, NEW r \in lo_unlink(v, o)
  PROVE  Kept(v, r)
BY ObjectsKeep, FailingKeeps DEF lo_unlink

\* A descriptor that has moved is still open on its object.
LEMMA MovedKeeps ==
  ASSUME NEW v, Server(v), NEW fd \in DOMAIN v.fds, NEW pos, NEW objs, NEW res,
         NEW u, u.blk = v.blk, u.up = v.up,
         u = [blk |-> u.blk, up |-> u.up, objs |-> u.objs, saved |-> u.saved, fds |-> u.fds],
         u.fds = [v.fds EXCEPT ![fd] = [v.fds[fd] EXCEPT !.pos = pos]]
  PROVE  Kept(v, Res(u, res))
<1> DEFINE d == [v.fds[fd] EXCEPT !.pos = pos]
<1>1. d = [obj |-> v.fds[fd].obj, pos |-> pos, write |-> v.fds[fd].write]
  BY DEF Server, Descriptor
<1>2. Descriptor(d) /\ d.obj = v.fds[fd].obj
  BY <1>1 DEF Descriptor
<1> HIDE DEF d
<1>3. /\ DOMAIN u.fds = DOMAIN v.fds /\ u.fds[fd] = d
      /\ \A e \in DOMAIN v.fds : e # fd => u.fds[e] = v.fds[e]
  BY DEF d
<1>4. \A e \in DOMAIN v.fds : Descriptor(u.fds[e]) /\ u.fds[e].obj = v.fds[e].obj
  BY <1>2, <1>3 DEF Server
<1>5. Server(u)
  BY <1>3, <1>4 DEF Server, Fds
<1> QED BY <1>3, <1>4, <1>5 DEF Kept, SameFds, Res

\* lo_write(), lo_read() and lo_lseek() move one descriptor.
LEMMA WriteKeeps ==
  ASSUME NEW v, Server(v), NEW fd, NEW data, NEW r \in lo_write(v, fd, data)
  PROVE  Kept(v, r) /\ r = Res(r.b, r.res)
<1>1. CASE r \in Failing(v)
  BY <1>1, FailingKeeps
<1>2. CASE ~(r \in Failing(v))
  <2> DEFINE o == v.fds[fd].obj
             text == Place(v.objs[o], v.fds[fd].pos, data)
             pos == v.fds[fd].pos + Len(data)
             u == [v EXCEPT !.objs[o] = text, !.fds[fd].pos = pos]
  <2>1. fd \in DOMAIN v.fds /\ r = Res(u, Len(data))
    BY <1>2 DEF lo_write, LoCall, Usable
  <2> HIDE DEF o, text, pos
  <2>2. u = [blk |-> v.blk, up |-> v.up, objs |-> [v.objs EXCEPT ![o] = text],
             saved |-> v.saved, fds |-> [v.fds EXCEPT ![fd] = [v.fds[fd] EXCEPT !.pos = pos]]]
    <3> DEFINE y == [v EXCEPT !.objs[o] = text]
    <3>1. y = [blk |-> v.blk, up |-> v.up, objs |-> [v.objs EXCEPT ![o] = text],
               saved |-> v.saved, fds |-> v.fds]
      BY DEF Server
    <3>2. u = [y EXCEPT !.fds = [v.fds EXCEPT ![fd] = [v.fds[fd] EXCEPT !.pos = pos]]]
      BY <2>1 DEF Server
    <3> HIDE DEF y, u
    <3> QED BY <3>1, <3>2
  <2> HIDE DEF u
  <2>3. Kept(v, Res(u, Len(data)))
    <3>1. /\ u.blk = v.blk /\ u.up = v.up
          /\ u = [blk |-> u.blk, up |-> u.up, objs |-> u.objs, saved |-> u.saved,
                  fds |-> u.fds]
          /\ u.fds = [v.fds EXCEPT ![fd] = [v.fds[fd] EXCEPT !.pos = pos]]
      BY <2>2
    <3> QED BY <2>1, <3>1, MovedKeeps
  <2> QED BY <2>1, <2>3 DEF Res
<1> QED BY <1>1, <1>2

\* A read moves its descriptor by what it has found.
LEMMA ReadKeeps ==
  ASSUME NEW v, Server(v), NEW fd, NEW n, NEW r \in lo_read(v, fd, n)
  PROVE  Kept(v, r) /\ r = Res(r.b, r.res)
<1>1. CASE r \in Failing(v)
  BY <1>1, FailingKeeps
<1>2. CASE ~(r \in Failing(v))
  <2> DEFINE d == v.fds[fd]
             k == Len(Ahead(v, fd, n))
             u == [v EXCEPT !.fds[fd].pos = @ + k]
  <2>1. fd \in DOMAIN v.fds /\ r = Res(u, k)
    BY <1>2 DEF lo_read, LoCall, Usable
  <2> HIDE DEF k
  <2>2. /\ u.blk = v.blk /\ u.up = v.up
        /\ u = [blk |-> u.blk, up |-> u.up, objs |-> u.objs, saved |-> u.saved, fds |-> u.fds]
        /\ u.fds = [v.fds EXCEPT ![fd] = [v.fds[fd] EXCEPT !.pos = d.pos + k]]
    BY DEF Server
  <2> HIDE DEF u
  <2>3. Kept(v, Res(u, k))
    BY <2>1, <2>2, MovedKeeps
  <2> QED BY <2>1, <2>3 DEF Res
<1> QED BY <1>1, <1>2

\* A seek moves its descriptor to its target.
LEMMA SeekKeeps ==
  ASSUME NEW v, Server(v), NEW fd, NEW off, NEW dir, NEW r \in lo_lseek(v, fd, off, dir)
  PROVE  Kept(v, r) /\ r = Res(r.b, r.res)
<1>1. CASE r \in Failing(v)
  BY <1>1, FailingKeeps
<1>2. CASE ~(r \in Failing(v))
  <2> DEFINE d == v.fds[fd]
             pos == Target(d.pos, Len(v.objs[d.obj]), off, dir)
             u == [v EXCEPT !.fds[fd].pos = pos]
  <2>1. fd \in DOMAIN v.fds /\ r = Res(u, pos)
    BY <1>2 DEF lo_lseek, Usable
  <2> HIDE DEF pos
  <2>2. /\ u.blk = v.blk /\ u.up = v.up
        /\ u = [blk |-> u.blk, up |-> u.up, objs |-> u.objs, saved |-> u.saved, fds |-> u.fds]
        /\ u.fds = [v.fds EXCEPT ![fd] = [v.fds[fd] EXCEPT !.pos = pos]]
    BY DEF Server
  <2> HIDE DEF u
  <2>3. Kept(v, Res(u, pos))
    BY <2>1, <2>2, MovedKeeps
  <2> QED BY <2>1, <2>3 DEF Res
<1> QED BY <1>1, <1>2

----------------------------------------------------------------------------
(* The stream buffer.                                                      *)

\* Changing the areas or the state of an access changes nothing else of it.
LEMMA AreasFacts ==
  ASSUME NEW a, Access(a), NEW c
  PROVE  /\ SameAccess(a, [a EXCEPT !.p = c]) /\ SameAccess(a, [a EXCEPT !.gp = c])
         /\ SameAccess(a, [a EXCEPT !.g = c, !.gp = 0])
         /\ SameAccess(a, [a EXCEPT !.state = c])
<1>1. [a EXCEPT !.p = c] = [kind |-> a.kind, id |-> a.id, fd |-> a.fd, g |-> a.g,
                            gp |-> a.gp, p |-> c, state |-> a.state]
  BY DEF Access
<1>2. [a EXCEPT !.gp = c] = [kind |-> a.kind, id |-> a.id, fd |-> a.fd, g |-> a.g,
                             gp |-> c, p |-> a.p, state |-> a.state]
  BY DEF Access
<1>3. [a EXCEPT !.g = c, !.gp = 0] = [kind |-> a.kind, id |-> a.id, fd |-> a.fd, g |-> c,
                                      gp |-> 0, p |-> a.p, state |-> a.state]
  <2> DEFINE e == [a EXCEPT !.g = c]
  <2>1. e = [kind |-> a.kind, id |-> a.id, fd |-> a.fd, g |-> c, gp |-> a.gp, p |-> a.p,
             state |-> a.state]
    BY DEF Access
  <2>2. [a EXCEPT !.g = c, !.gp = 0] = [e EXCEPT !.gp = 0]
    BY DEF Access
  <2> HIDE DEF e
  <2> QED BY <2>1, <2>2
<1>4. [a EXCEPT !.state = c] = [kind |-> a.kind, id |-> a.id, fd |-> a.fd, g |-> a.g,
                                gp |-> a.gp, p |-> a.p, state |-> c]
  BY DEF Access
<1>5. SameAccess(a, [a EXCEPT !.p = c])
  BY <1>1 DEF SameAccess, Access
<1>6. SameAccess(a, [a EXCEPT !.gp = c])
  BY <1>2 DEF SameAccess, Access
<1>7. SameAccess(a, [a EXCEPT !.g = c, !.gp = 0])
  BY <1>3 DEF SameAccess, Access
<1>8. SameAccess(a, [a EXCEPT !.state = c])
  BY <1>4 DEF SameAccess, Access
<1> QED BY <1>5, <1>6, <1>7, <1>8

\* Nothing was called.
LEMMA NothingKeeps ==
  ASSUME NEW v, Server(v), NEW res
  PROVE  Kept(v, Res(v, res))
BY DEF Kept, SameFds, Res

\* What counts is the server and the result.
LEMMA SeenKeeps ==
  ASSUME NEW v, NEW a, NEW e, NEW u, NEW res, Kept(v, Res(u, res)),
         SameAccess(a, e)
  PROVE  KeptOn(v, a, Seen(u, e, res))
<1> DEFINE r == Seen(u, e, res)
<1>1. r.b = u /\ r.a = e /\ r.res = res
  BY DEF Seen
<1> HIDE DEF r
<1>2. SameFds(v, u) /\ (v.blk = "open" /\ res # -1 => u.blk = "open")
  BY DEF Kept, Res
<1>3. Kept(v, r)
  BY <1>1, <1>2 DEF Kept
<1> QED BY <1>1, <1>3 DEF KeptOn, r

\* overflow(): the put area goes to the descriptor, or eof is returned.
LEMMA OverflowKeeps ==
  ASSUME NEW v, Server(v), NEW a, Access(a), NEW ch, NEW r \in overflow(v, a, ch)
  PROVE  KeptOn(v, a, r)
<1>1. CASE ~Writes(a.kind)
  <2>1. r = Seen(v, a, EoF)
    BY <1>1 DEF overflow
  <2> QED BY <2>1, NothingKeeps, SeenKeeps DEF SameAccess
<1>2. CASE Writes(a.kind)
  <2>1. PICK q \in IF a.p = <<>> THEN {Res(v, 0)} ELSE cwrite(v, a, a.p) :
          r = Seen(q.b, [a EXCEPT !.p = ch], q.res)
    BY <1>2 DEF overflow
  <2>2. Kept(v, q) /\ q = Res(q.b, q.res)
    <3>1. CASE a.p = <<>>
      BY <2>1, <3>1, NothingKeeps DEF Res
    <3>2. CASE a.p # <<>>
      BY <2>1, <3>2, WriteKeeps DEF cwrite
    <3> QED BY <3>1, <3>2
  <2> DEFINE e == [a EXCEPT !.p = ch]
  <2>3. SameAccess(a, e)
    BY AreasFacts
  <2> HIDE DEF e
  <2>4. r = Seen(q.b, e, q.res)
    BY <2>1 DEF e
  <2> QED BY <2>2, <2>3, <2>4, SeenKeeps
<1> QED BY <1>1, <1>2

\* sync() is overflow() with the get area put back to its start.
LEMMA SyncKeeps ==
  ASSUME NEW v, Server(v), NEW a, Access(a), NEW r \in sync(v, a)
  PROVE  KeptOn(v, a, r)
<1> DEFINE e == [a EXCEPT !.gp = 0]
<1>1. SameAccess(a, e)
  BY AreasFacts
<1>2. r \in overflow(v, e, <<>>)
  BY DEF sync
<1> HIDE DEF e
<1>3. KeptOn(v, e, r)
  BY <1>1, <1>2, OverflowKeeps DEF SameAccess
<1> QED BY <1>1, <1>3 DEF KeptOn, SameAccess

\* sputc() fills the put area or calls overflow().
LEMMA PutKeeps ==
  ASSUME NEW v, Server(v), NEW a, Access(a), NEW c, NEW r \in sputc(v, a, c)
  PROVE  KeptOn(v, a, r)
<1>1. CASE Writes(a.kind) /\ Len(a.p) < BufSize
  <2> DEFINE e == [a EXCEPT !.p = Append(a.p, c)]
  <2>1. SameAccess(a, e)
    BY AreasFacts
  <2>2. r = Seen(v, e, 0)
    BY <1>1 DEF sputc
  <2> HIDE DEF e
  <2> QED BY <2>1, <2>2, NothingKeeps, SeenKeeps
<1>2. CASE ~(Writes(a.kind) /\ Len(a.p) < BufSize)
  <2>1. r \in overflow(v, a, <<c>>)
    BY <1>2 DEF sputc
  <2> QED BY <2>1, OverflowKeeps
<1> QED BY <1>1, <1>2

\* underflow(): a read that fails is an empty load.
LEMMA UnderflowKeeps ==
  ASSUME NEW v, Server(v), NEW a, Access(a), NEW r \in underflow(v, a)
  PROVE  KeptOn(v, a, r) /\ r = Seen(r.b, r.a, r.res)
<1>1. CASE ~Reads(a.kind)
  <2>1. r = Seen(v, a, EoF)
    BY <1>1 DEF underflow
  <2>2. KeptOn(v, a, r)
    BY <2>1, NothingKeeps, SeenKeeps DEF SameAccess
  <2> QED BY <2>1, <2>2 DEF Seen
<1>2. CASE Reads(a.kind)
  <2>1. PICK q \in cread(v, a, BufSize) :
          r = LET g == IF q.res < 0 THEN <<>> ELSE Ahead(v, a.fd, BufSize)
              IN Seen(q.b, [a EXCEPT !.g = g, !.gp = 0],
                      IF g = <<>> \/ g[1] = EofByte THEN EoF ELSE 0)
    BY <1>2 DEF underflow
  <2>2. Kept(v, q) /\ q = Res(q.b, q.res)
    BY <2>1, ReadKeeps DEF cread
  <2> DEFINE load == IF q.res < 0 THEN <<>> ELSE Ahead(v, a.fd, BufSize)
             e == [a EXCEPT !.g = load, !.gp = 0]
             x == IF load = <<>> \/ load[1] = EofByte THEN EoF ELSE 0
  <2>3. r = Seen(q.b, e, x)
    BY <2>1
  <2>4. q.res = -1 => load = <<>>
    OBVIOUS
  <2> HIDE DEF load
  <2>5. SameAccess(a, e)
    BY AreasFacts
  <2>6. q.res = -1 => x = -1
    BY <2>4 DEF EoF
  <2> HIDE DEF e, x
  <2>7. Kept(v, Res(q.b, x))
    BY <2>2, <2>6 DEF Kept, Res
  <2>8. KeptOn(v, a, r)
    BY <2>3, <2>5, <2>7, SeenKeeps
  <2> QED BY <2>3, <2>8 DEF Seen
<1> QED BY <1>1, <1>2

\* sbumpc() takes from the get area or calls underflow().
LEMMA BumpKeeps ==
  ASSUME NEW v, Server(v), NEW a, Access(a), NEW r \in sbumpc(v, a)
  PROVE  KeptOn(v, a, r)
<1>1. CASE a.gp < Len(a.g)
  <2> DEFINE e == [a EXCEPT !.gp = a.gp + 1]
  <2>1. SameAccess(a, e)
    BY AreasFacts
  <2>2. r = Seen(v, e, 0)
    BY <1>1 DEF sbumpc
  <2> HIDE DEF e
  <2> QED BY <2>1, <2>2, NothingKeeps, SeenKeeps
<1>2. CASE ~(a.gp < Len(a.g))
  <2>1. PICK q \in underflow(v, a) : r = IF q.res = EoF THEN q ELSE [q EXCEPT !.a.gp = 1]
    BY <1>2 DEF sbumpc
  <2>2. KeptOn(v, a, q) /\ q = Seen(q.b, q.a, q.res)
    BY UnderflowKeeps
  <2>3. CASE q.res = EoF
    BY <2>1, <2>2, <2>3
  <2>4. CASE q.res # EoF
    <3> DEFINE e == [q.a EXCEPT !.gp = 1]
    <3>1. SameAccess(q.a, e)
      BY <2>2, AreasFacts DEF KeptOn, SameAccess
    <3>2. r = [q EXCEPT !.a = e]
      BY <2>1, <2>4
    <3> HIDE DEF e
    <3>3. r = Seen(q.b, e, q.res)
      BY <2>2, <3>2 DEF Seen
    <3>4. Kept(v, Res(q.b, q.res))
      BY <2>2 DEF KeptOn, Kept, Res
    <3> QED BY <2>2, <3>1, <3>3, <3>4, SeenKeeps DEF KeptOn, SameAccess
  <2> QED BY <2>3, <2>4
<1> QED BY <1>1, <1>2

\* seekoff() moves the descriptor only.
LEMMA SeekoffKeeps ==
  ASSUME NEW v, Server(v), NEW a, Access(a), NEW off, NEW dir, NEW r \in seekoff(v, a, off, dir)
  PROVE  KeptOn(v, a, r)
<1>1. PICK q \in lo_lseek(v, a.fd, off, dir) : r = Seen(q.b, a, q.res)
  BY DEF seekoff, cseek
<1>2. Kept(v, q) /\ q = Res(q.b, q.res)
  BY SeekKeeps
<1> QED BY <1>1, <1>2, SeenKeeps DEF SameAccess

----------------------------------------------------------------------------
(* The steps.                                                              *)

\* The own descriptors of the client's objects f, on a server v.
Owned(v, f) ==
  \A h \in Handle : f[h].kind # "none" =>
    /\ f[h].fd \in DOMAIN v.fds
    /\ v.fds[f[h].fd].obj = f[h].id
    /\ \A i \in Handle \ {h} : f[i].kind # "none" => f[i].fd # f[h].fd

\* The same objects stay on the same descriptors.
SameAccesses(f, e) == Accesses(e) /\ \A h \in Handle : SameAccess(f[h], e[h])

\* Descriptors and objects that stay the same stay together.
LEMMA OwnedStays ==
  ASSUME NEW v, NEW u, SameFds(v, u), NEW f, NEW e, SameAccesses(f, e), Owned(v, f)
  PROVE  Owned(u, e)
BY DEF SameFds, SameAccesses, SameAccess, Owned

\* A call on one object concerns no other.
LEMMA OneAccess ==
  ASSUME NEW f, Accesses(f), NEW h \in Handle, NEW a, SameAccess(f[h], a)
  PROVE  SameAccesses(f, [f EXCEPT ![h] = a])
BY DEF Accesses, SameAccesses, SameAccess

\* A call that concerns none of the client's objects.
LEMMA NoAccess ==
  ASSUME NEW f, Accesses(f)
  PROVE  SameAccesses(f, f)
BY DEF Accesses, SameAccesses, SameAccess

\* Every call but open() and the destructors keeps the invariant, if it tells the
\* client when it has doomed the block.
LEMMA CalledKeeps ==
  ASSUME DescriptorInv, NEW v, NEW failed \in BOOLEAN, NEW want,
         Called(v, failed, FALSE, want), SameFds(b, v),
         b.blk = "open" /\ ~failed => v.blk = "open",
         SameAccesses(acc, acc')
  PROVE  DescriptorInv'
<1>1. /\ b' = v /\ tx' = tx
      /\ told' \in BOOLEAN /\ silent' \in BOOLEAN
      /\ ~told' => ~told /\ ~failed
      /\ ~silent' => ~silent
  BY DEF Called, DescriptorInv
<1>2. Server(b') /\ b'.up = b.up
  BY <1>1 DEF SameFds
<1>3. Accesses(acc')
  BY DEF SameAccesses
<1>4. tx' # "active" => \A h \in Handle : acc'[h].kind = "none"
  BY <1>1 DEF DescriptorInv, SameAccesses, SameAccess
<1>5. Sound' => Sound
  BY <1>1, <1>2 DEF Sound, Active
<1>6. Sound' => b'.blk = "open"
  BY <1>1, <1>5 DEF DescriptorInv, Sound
<1>7. Sound => Owned(b, acc)
  BY DEF DescriptorInv, OwnDescriptor, Owned
<1>8. Sound' => Owned(b', acc')
  BY <1>1, <1>5, <1>7, OwnedStays
<1>9. OwnDescriptor'
  BY <1>8 DEF OwnDescriptor, Owned
<1> QED BY <1>1, <1>2, <1>3, <1>4, <1>6, <1>9 DEF DescriptorInv

\* largeobject's constructors.
LEMMA CreateStep ==
  ASSUME DescriptorInv, NEW o, NEW text, Create(o, text)
  PROVE  DescriptorInv'
<1>1. PICK r \in lo_creat(b, o, text) : Called(r.b, r.res = -1, FALSE, With(ideal, o, text))
  BY DEF Create
<1>2. Kept(b, r)
  BY CreatKeeps DEF DescriptorInv
<1>3. SameAccesses(acc, acc')
  BY NoAccess DEF Create, DescriptorInv
<1> QED BY <1>1, <1>2, <1>3, CalledKeeps DEF Kept

\* remove()
LEMMA RemoveStep ==
  ASSUME DescriptorInv, NEW o, Remove(o)
  PROVE  DescriptorInv'
<1>1. PICK r \in lo_unlink(b, o) :
        Called(r.b, r.res = -1, FALSE, Restrict(ideal, DOMAIN ideal \ {o}))
  BY DEF Remove
<1>2. Kept(b, r)
  BY UnlinkKeeps DEF DescriptorInv
<1>3. SameAccesses(acc, acc')
  BY NoAccess DEF Remove, DescriptorInv
<1> QED BY <1>1, <1>2, <1>3, CalledKeeps DEF Kept

\* to_file()
LEMMA ToFileStep ==
  ASSUME DescriptorInv, NEW o, ToFile(o)
  PROVE  DescriptorInv'
<1>1. SameAccesses(acc, acc')
  BY NoAccess DEF ToFile, DescriptorInv
<1>2. CASE o \in DOMAIN b.objs /\ b.up /\ b.blk = "open"
  <2>1. Called(b, FALSE, FALSE, ideal)
    BY <1>2 DEF ToFile
  <2>2. SameFds(b, b)
    BY DEF DescriptorInv, SameFds
  <2> QED BY <1>1, <2>1, <2>2, CalledKeeps
<1>3. CASE ~(o \in DOMAIN b.objs /\ b.up /\ b.blk = "open")
  <2>1. PICK r \in Failing(b) : Called(r.b, TRUE, FALSE, ideal)
    BY <1>3 DEF ToFile
  <2>2. Kept(b, r)
    BY FailingKeeps DEF DescriptorInv
  <2> QED BY <1>1, <2>1, <2>2, CalledKeeps DEF Kept
<1> QED BY <1>2, <1>3

\* The state of a stream after a call.
LEMMA StateFacts ==
  ASSUME NEW v, NEW a, NEW r, KeptOn(v, a, r), NEW st
  PROVE  SameAccess(a, State(r, st))
<1> DEFINE new == IF r.res = EoF THEN st ELSE r.a.state
           e == [r.a EXCEPT !.state = new]
<1>1. Access(r.a) /\ SameAccess(a, r.a)
  BY DEF KeptOn, SameAccess
<1>2. State(r, st) = e
  BY DEF State
<1> HIDE DEF new
<1>3. SameAccess(r.a, e)
  BY <1>1, AreasFacts
<1> HIDE DEF e
<1>4. SameAccess(a, e)
  BY <1>1, <1>3 DEF SameAccess
<1> QED BY <1>2, <1>4

\* ostream::put()
LEMMA PutStep ==
  ASSUME DescriptorInv, NEW h \in Handle, NEW c, Put(h, c)
  PROVE  DescriptorInv'
<1>1. PICK r \in sputc(b, acc[h], c) :
        /\ Called(r.b, r.res = EoF, FALSE, Ideally(h, <<c>>))
        /\ acc' = [acc EXCEPT ![h] = State(r, "bad")]
  BY DEF Put
<1>2. KeptOn(b, acc[h], r)
  BY PutKeeps DEF DescriptorInv, Accesses
<1>3. SameAccesses(acc, acc')
  BY <1>1, <1>2, StateFacts, OneAccess DEF DescriptorInv
<1> QED BY <1>1, <1>2, <1>3, CalledKeeps DEF KeptOn, Kept, EoF

\* ostream::flush() and istream::sync()
LEMMA FlushStep ==
  ASSUME DescriptorInv, NEW h \in Handle, Flush(h)
  PROVE  DescriptorInv'
<1>1. PICK r \in sync(b, acc[h]) :
        /\ Called(r.b, r.res = EoF, FALSE, ideal)
        /\ acc' = [acc EXCEPT ![h] = State(r, "bad")]
  BY DEF Flush
<1>2. KeptOn(b, acc[h], r)
  BY SyncKeeps DEF DescriptorInv, Accesses
<1>3. SameAccesses(acc, acc')
  BY <1>1, <1>2, StateFacts, OneAccess DEF DescriptorInv
<1> QED BY <1>1, <1>2, <1>3, CalledKeeps DEF KeptOn, Kept, EoF

\* istream::get()
LEMMA GetStep ==
  ASSUME DescriptorInv, NEW h \in Handle, Get(h)
  PROVE  DescriptorInv'
<1>1. PICK r \in sbumpc(b, acc[h]) :
        /\ Called(r.b, r.b.blk # "open", FALSE, ideal)
        /\ acc' = [acc EXCEPT ![h] = State(r, "eof")]
  BY DEF Get
<1>2. KeptOn(b, acc[h], r)
  BY BumpKeeps DEF DescriptorInv, Accesses
<1>3. SameAccesses(acc, acc')
  BY <1>1, <1>2, StateFacts, OneAccess DEF DescriptorInv
<1> QED BY <1>1, <1>2, <1>3, CalledKeeps DEF KeptOn, Kept

\* ios::clear()
LEMMA ClearStep ==
  ASSUME DescriptorInv, NEW h \in Handle, Clear(h)
  PROVE  DescriptorInv'
<1>1. Called(b, FALSE, FALSE, ideal) /\ acc' = [acc EXCEPT ![h] = [acc[h] EXCEPT !.state = "good"]]
  BY DEF Clear
<1>2. SameAccess(acc[h], [acc[h] EXCEPT !.state = "good"])
  BY AreasFacts DEF DescriptorInv, Accesses
<1>3. SameAccesses(acc, acc')
  BY <1>1, <1>2, OneAccess DEF DescriptorInv
<1>4. SameFds(b, b)
  BY DEF DescriptorInv, SameFds
<1> QED BY <1>1, <1>3, <1>4, CalledKeeps

\* seek() and tell() of a stream or an access
LEMMA SeekStep ==
  ASSUME DescriptorInv, NEW h \in Handle, NEW off, NEW dir, Seek(h, off, dir)
  PROVE  DescriptorInv'
<1>1. PICK r \in seekoff(b, acc[h], off, dir) :
        /\ Called(r.b, r.res = EoF, FALSE, ideal)
        /\ acc' = [acc EXCEPT ![h] = IF acc[h].kind = "access" THEN acc[h]
                                     ELSE State(r, "bad")]
  BY DEF Seek
<1>2. KeptOn(b, acc[h], r)
  BY SeekoffKeeps DEF DescriptorInv, Accesses
<1>3. SameAccess(acc[h], acc[h]) /\ SameAccess(acc[h], State(r, "bad"))
  BY <1>2, StateFacts DEF DescriptorInv, Accesses, SameAccess
<1>4. SameAccesses(acc, acc')
  BY <1>1, <1>3, OneAccess DEF DescriptorInv
<1> QED BY <1>1, <1>2, <1>4, CalledKeeps DEF KeptOn, Kept, EoF

\* write() of an access
LEMMA WriteStep ==
  ASSUME DescriptorInv, NEW h \in Handle, NEW c, Write(h, <<c>>)
  PROVE  DescriptorInv'
<1>1. PICK r \in lo_write(b, acc[h].fd, <<c>>) :
        Called(r.b, r.res < Len(<<c>>), FALSE, Ideally(h, <<c>>))
  BY DEF Write, cwrite
<1>2. Kept(b, r)
  BY WriteKeeps DEF DescriptorInv
<1>3. SameAccesses(acc, acc')
  BY NoAccess DEF Write, DescriptorInv
<1> DEFINE failed == r.res < Len(<<c>>)
<1>4. failed \in BOOLEAN /\ (~failed => r.res # -1)
  OBVIOUS
<1>5. Called(r.b, failed, FALSE, Ideally(h, <<c>>))
  BY <1>1
<1> HIDE DEF failed
<1>6. SameFds(b, r.b) /\ (b.blk = "open" /\ ~failed => r.b.blk = "open")
  BY <1>2, <1>4 DEF Kept
<1> QED BY <1>3, <1>4, <1>5, <1>6, CalledKeeps

\* read() of an access
LEMMA ReadStep ==
  ASSUME DescriptorInv, NEW h \in Handle, NEW n, Read(h, n)
  PROVE  DescriptorInv'
<1>1. PICK r \in lo_read(b, acc[h].fd, n) : Called(r.b, r.res < 0, FALSE, ideal)
  BY DEF Read, cread
<1>2. Kept(b, r)
  BY ReadKeeps DEF DescriptorInv
<1>3. SameAccesses(acc, acc')
  BY NoAccess DEF Read, DescriptorInv
<1> DEFINE failed == r.res < 0
<1>4. failed \in BOOLEAN /\ (~failed => r.res # -1)
  OBVIOUS
<1>5. Called(r.b, failed, FALSE, ideal)
  BY <1>1
<1> HIDE DEF failed
<1>6. SameFds(b, r.b) /\ (b.blk = "open" /\ ~failed => r.b.blk = "open")
  BY <1>2, <1>4 DEF Kept
<1> QED BY <1>3, <1>4, <1>5, <1>6, CalledKeeps

\* A descriptor of its own for a new access.
LEMMA OpenStep ==
  ASSUME DescriptorInv, NEW h \in Handle, NEW kind, NEW o, Open(h, kind, o)
  PROVE  DescriptorInv'
<1> DEFINE d == [obj |-> o, pos |-> 0, write |-> "out" \in Mode(kind)]
           n == NextFd(b)
           new == [b EXCEPT !.fds = With(b.fds, n, d)]
<1>1. PICK q \in lo_open(b, o, "out" \in Mode(kind)) :
        LET r == Seen(q.b, Fresh(kind, o, q.res), q.res)
        IN /\ Called(r.b, r.res < 0, FALSE, ideal)
           /\ acc' = IF r.res < 0 THEN acc ELSE [acc EXCEPT ![h] = r.a]
  BY DEF Open, open
<1> DEFINE failed == q.res < 0
           a == Fresh(kind, o, q.res)
<1>2. /\ failed \in BOOLEAN
      /\ Called(q.b, failed, FALSE, ideal)
      /\ acc' = IF failed THEN acc ELSE [acc EXCEPT ![h] = a]
  <2> DEFINE r == Seen(q.b, a, q.res)
  <2>1. r.b = q.b /\ r.a = a /\ r.res = q.res
    BY DEF Seen
  <2>2. Called(r.b, r.res < 0, FALSE, ideal)
    BY <1>1
  <2>3. acc' = IF r.res < 0 THEN acc ELSE [acc EXCEPT ![h] = r.a]
    BY <1>1
  <2> HIDE DEF r, a
  <2>4. Called(q.b, failed, FALSE, ideal)
    BY <2>1, <2>2
  <2>5. acc' = IF failed THEN acc ELSE [acc EXCEPT ![h] = a]
    BY <2>1, <2>3
  <2>6. failed \in BOOLEAN
    OBVIOUS
  <2> HIDE DEF failed
  <2> QED BY <2>4, <2>5, <2>6
<1>3. q \in Failing(b) \/ (q = Res(new, n) /\ b.blk = "open")
  BY DEF lo_open, LoCall
<1> HIDE DEF d
<1>4. CASE q \in Failing(b)
  <2>1. Kept(b, q) /\ q.res = -1
    BY <1>4, FailingKeeps DEF DescriptorInv
  <2>2. failed = TRUE
    BY <2>1
  <2>3. SameAccesses(acc, acc')
    BY <1>2, <2>2, NoAccess DEF DescriptorInv
  <2> HIDE DEF failed
  <2> QED BY <1>2, <2>1, <2>2, <2>3, CalledKeeps DEF Kept
<1>5. CASE q = Res(new, n) /\ b.blk = "open"
  <2>1. n \in Nat /\ n \notin DOMAIN b.fds
    BY NextFdIsNew DEF DescriptorInv, Server
  <2> HIDE DEF n
  <2>2. q.b = new /\ q.res = n /\ ~failed
    BY <1>5, <2>1 DEF Res
  <2> HIDE DEF failed
  <2> DEFINE fds == With(b.fds, n, d)
  <2>3. new = [blk |-> b.blk, up |-> b.up, objs |-> b.objs, saved |-> b.saved, fds |-> fds]
    BY DEF DescriptorInv, Server
  <2>4. /\ DOMAIN fds = DOMAIN b.fds \cup {n} /\ fds[n] = d
        /\ \A fd \in DOMAIN b.fds : fds[fd] = b.fds[fd]
    BY <2>1 DEF With
  <2> HIDE DEF fds, new
  <2>5. Descriptor(d) /\ d.obj = o
    BY DEF Descriptor, d
  <2>6. Server(new)
    <3>1. IsFiniteSet(DOMAIN fds) /\ DOMAIN fds \subseteq Nat
      BY <2>1, <2>4, FS_AddElement DEF DescriptorInv, Server, Fds
    <3>2. \A fd \in DOMAIN fds : Descriptor(fds[fd])
      BY <2>4, <2>5 DEF DescriptorInv, Server
    <3> QED BY <2>3, <3>1, <3>2 DEF Server, Fds
  <2>7. Access(a) /\ a.kind = kind /\ a.id = o /\ a.fd = n
    BY <2>2 DEF Access, Fresh
  <2> HIDE DEF a
  <2>8. /\ b' = new /\ tx' = tx /\ Active
        /\ told' \in BOOLEAN /\ silent' \in BOOLEAN
        /\ ~told' => ~told
        /\ ~silent' => ~silent
        /\ acc' = [acc EXCEPT ![h] = a]
    BY <1>2, <2>2 DEF Called, DescriptorInv, Open
  <2>9. /\ Accesses(acc') /\ acc'[h] = a
        /\ \A i \in Handle \ {h} : acc'[i] = acc[i]
    BY <2>7, <2>8 DEF DescriptorInv, Accesses
  <2>10. Sound' => Sound
    BY <2>3, <2>8 DEF Sound, Active
  <2>11. Sound => Owned(b, acc)
    BY DEF DescriptorInv, OwnDescriptor, Owned
  <2>12. ASSUME Owned(b, acc)
         PROVE  Owned(b', acc')
    <3>1. b'.fds = fds
      BY <2>3, <2>8
    <3>2. \A i \in Handle \ {h} : acc'[i].kind # "none" =>
            acc'[i].fd \in DOMAIN b.fds /\ b.fds[acc'[i].fd].obj = acc'[i].id
      BY <2>9, <2>12 DEF Owned
    <3>3. \A i, j \in Handle \ {h} : i # j /\ acc'[i].kind # "none" /\ acc'[j].kind # "none"
            => acc'[i].fd # acc'[j].fd
      BY <2>9, <2>12 DEF Owned
    <3> QED BY <2>1, <2>4, <2>5, <2>7, <2>9, <3>1, <3>2, <3>3 DEF Owned
  <2>13. OwnDescriptor'
    BY <2>10, <2>11, <2>12 DEF OwnDescriptor, Owned
  <2>14. Sound' => b'.blk = "open"
    BY <1>5, <2>3, <2>8
  <2> QED BY <2>6, <2>8, <2>9, <2>13, <2>14 DEF DescriptorInv, Active
<1> QED BY <1>3, <1>4, <1>5

\* close() ends one descriptor, and leaves the others.
LEMMA CloseFacts ==
  ASSUME NEW v, Server(v), NEW fd, NEW r \in lo_close(v, fd)
  PROVE  \/ SameFds(v, r.b) /\ r.b.blk # "open"
         \/ /\ Server(r.b) /\ r.b.up = v.up /\ r.b.blk = v.blk
            /\ DOMAIN r.b.fds = DOMAIN v.fds \ {fd}
            /\ \A e \in DOMAIN v.fds \ {fd} : r.b.fds[e] = v.fds[e]
<1>1. CASE r \in Failing(v)
  BY <1>1, FailingKeeps DEF Kept
<1>2. CASE r \notin Failing(v)
  <2> DEFINE fds == Restrict(v.fds, DOMAIN v.fds \ {fd})
             u == [v EXCEPT !.fds = fds]
  <2>1. r = Res(u, 0)
    BY <1>2 DEF lo_close
  <2>2. DOMAIN fds = DOMAIN v.fds \ {fd} /\ \A e \in DOMAIN v.fds \ {fd} : fds[e] = v.fds[e]
    BY DEF Restrict
  <2> HIDE DEF fds
  <2>3. u = [blk |-> v.blk, up |-> v.up, objs |-> v.objs, saved |-> v.saved, fds |-> fds]
    BY DEF Server
  <2> HIDE DEF u
  <2>4. IsFiniteSet(DOMAIN fds) /\ DOMAIN fds \subseteq Nat
    BY <2>2, FS_Subset DEF Server, Fds
  <2>5. Server(u)
    BY <2>2, <2>3, <2>4 DEF Server, Fds
  <2> QED BY <2>1, <2>2, <2>3, <2>5 DEF Res
<1> QED BY <1>1, <1>2

\* Two calls that keep the descriptors keep them together.
LEMMA SameFdsTwice ==
  ASSUME NEW v, NEW u, NEW z, SameFds(v, u), SameFds(u, z)
  PROVE  SameFds(v, z)
BY DEF SameFds

\* The destructors: whatever becomes of the put area, the descriptor that is closed
\* is the object's own.
LEMMA DestroyStep ==
  ASSUME DescriptorInv, NEW h \in Handle, Destroy(h)
  PROVE  DescriptorInv'
<1>1. PICK r \in (IF Writes(acc[h].kind) THEN sync(b, acc[h]) ELSE {Seen(b, acc[h], 0)}) :
      \E q \in (IF Writes(r.a.kind) THEN sync(r.b, r.a) ELSE {r}) :
      \E z \in close(q.b, q.a) :
        /\ Called(z.b, FALSE, r.res = EoF \/ (b.blk = "open" /\ z.b.blk # "open"), ideal)
        /\ acc' = [acc EXCEPT ![h] = z.a]
  BY DEF Destroy
<1>2. PICK q \in (IF Writes(r.a.kind) THEN sync(r.b, r.a) ELSE {r}) :
      \E z \in close(q.b, q.a) :
        /\ Called(z.b, FALSE, r.res = EoF \/ (b.blk = "open" /\ z.b.blk # "open"), ideal)
        /\ acc' = [acc EXCEPT ![h] = z.a]
  BY <1>1
<1>3. PICK z \in close(q.b, q.a) :
        /\ Called(z.b, FALSE, r.res = EoF \/ (b.blk = "open" /\ z.b.blk # "open"), ideal)
        /\ acc' = [acc EXCEPT ![h] = z.a]
  BY <1>2
<1>4. Server(b) /\ Access(acc[h])
  BY DEF DescriptorInv, Accesses
<1>5. KeptOn(b, acc[h], r)
  <2>1. CASE Writes(acc[h].kind)
    BY <1>4, <2>1, SyncKeeps
  <2>2. CASE ~Writes(acc[h].kind)
    <3>1. r = Seen(b, acc[h], 0)
      BY <2>2
    <3> QED BY <1>4, <3>1, NothingKeeps, SeenKeeps DEF SameAccess
  <2> QED BY <2>1, <2>2
<1>6. SameFds(b, r.b) /\ Server(r.b) /\ SameAccess(acc[h], r.a)
  BY <1>5 DEF KeptOn, Kept, SameFds
<1>7. SameFds(r.b, q.b) /\ SameAccess(r.a, q.a)
  <2>1. CASE Writes(r.a.kind)
    <3>1. KeptOn(r.b, r.a, q)
      BY <1>6, <2>1, SyncKeeps DEF SameAccess
    <3> QED BY <3>1 DEF KeptOn, Kept
  <2>2. CASE ~Writes(r.a.kind)
    <3>1. q = r
      BY <2>2
    <3> QED BY <1>6, <3>1 DEF SameFds, SameAccess
  <2> QED BY <2>1, <2>2
<1>8. SameFds(b, q.b) /\ Server(q.b) /\ q.a.fd = acc[h].fd
  BY <1>6, <1>7, SameFdsTwice DEF SameFds, SameAccess
<1>9. z.a = NoObject
  BY DEF close, Seen
<1>10. Server(z.b) /\ z.b.up = b.up
  <2>1. CASE q.a.fd >= 0
    <3>1. PICK y \in lo_close(q.b, q.a.fd) : z = Seen(y.b, NoObject, y.res)
      BY <2>1 DEF close
    <3>2. Server(y.b) /\ y.b.up = q.b.up
      BY <1>8, CloseFacts DEF SameFds
    <3> QED BY <1>8, <3>1, <3>2 DEF Seen, SameFds
  <2>2. CASE ~(q.a.fd >= 0)
    <3>1. z = Seen(q.b, NoObject, 0)
      BY <2>2 DEF close
    <3> QED BY <1>8, <3>1 DEF Seen, SameFds
  <2> QED BY <2>1, <2>2
<1> DEFINE mute == r.res = EoF \/ (b.blk = "open" /\ z.b.blk # "open")
<1>11. /\ b' = z.b /\ tx' = tx
       /\ told' \in BOOLEAN /\ silent' \in BOOLEAN
       /\ ~told' => ~told
       /\ ~silent' => ~silent /\ ~mute
  <2>1. mute \in BOOLEAN /\ Called(z.b, FALSE, mute, ideal)
    BY <1>3
  <2> HIDE DEF mute
  <2> QED BY <2>1 DEF Called, DescriptorInv
<1>12. /\ Accesses(acc') /\ acc'[h].kind = "none"
       /\ \A i \in Handle \ {h} : acc'[i] = acc[i]
  <2>1. Access(NoObject) /\ NoObject.kind = "none"
    BY DEF NoObject, Access, Fresh
  <2> QED BY <1>3, <1>9, <2>1 DEF DescriptorInv, Accesses
<1>13. ASSUME Sound'
       PROVE  b'.blk = "open" /\ Owned(b', acc')
  <2>1. Sound /\ ~mute
    BY <1>10, <1>11, <1>13 DEF Sound, Active
  <2>2. b.blk = "open" /\ z.b.blk = "open"
    BY <2>1 DEF DescriptorInv
  <2>3. Owned(b, acc)
    BY <2>1 DEF DescriptorInv, OwnDescriptor, Owned
  <2>4. acc[h].fd \in DOMAIN b.fds /\ acc[h].fd \in Nat
    BY <1>4, <2>3 DEF Owned, Server, Fds, Destroy
  <2>5. PICK y \in lo_close(q.b, q.a.fd) : z = Seen(y.b, NoObject, y.res)
    BY <1>8, <2>4 DEF close
  <2>6. z.b = y.b
    BY <2>5 DEF Seen
  <2>7. /\ DOMAIN y.b.fds = DOMAIN q.b.fds \ {acc[h].fd}
        /\ \A e \in DOMAIN q.b.fds \ {acc[h].fd} : y.b.fds[e] = q.b.fds[e]
    BY <1>8, <2>2, <2>6, CloseFacts
  <2>8. /\ DOMAIN z.b.fds = DOMAIN b.fds \ {acc[h].fd}
        /\ \A e \in DOMAIN b.fds \ {acc[h].fd} : z.b.fds[e].obj = b.fds[e].obj
    BY <1>8, <2>6, <2>7 DEF SameFds
  <2>9. \A i \in Handle : acc'[i].kind # "none" => i # h /\ acc'[i] = acc[i]
    BY <1>12
  <2>10. acc[h].kind # "none"
    BY DEF Destroy
  <2>11. \A i \in Handle : acc'[i].kind # "none" => acc[i].fd \in DOMAIN b.fds \ {acc[h].fd}
    BY <2>3, <2>9, <2>10 DEF Owned
  <2> HIDE DEF mute
  <2> QED BY <1>11, <2>2, <2>3, <2>8, <2>9, <2>11 DEF Owned
<1>14. tx' # "active" => \A i \in Handle : acc'[i].kind = "none"
  BY <1>11, <1>12 DEF DescriptorInv
<1>15. OwnDescriptor'
  BY <1>13 DEF OwnDescriptor, Owned
<1> QED BY <1>10, <1>11, <1>12, <1>13, <1>14, <1>15 DEF DescriptorInv

\* What the end of a block leaves of a server.
LEMMA EndedAs ==
  ASSUME NEW v, Server(v)
  PROVE  /\ RolledBack(v) = [blk |-> "none", up |-> v.up, objs |-> v.saved, saved |-> v.saved,
                             fds |-> <<>>]
         /\ Durable(v) = [blk |-> "none", up |-> v.up, objs |-> v.objs, saved |-> v.objs,
                          fds |-> <<>>]
<1>1. RolledBack(v) = [blk |-> "none", up |-> v.up, objs |-> v.saved, saved |-> v.saved, fds |-> <<>>]
  <2>1. RolledBack(v) = [[[v EXCEPT !.blk = "none"] EXCEPT !.objs = v.saved] EXCEPT !.fds = <<>>]
    BY DEF RolledBack
  <2> DEFINE y == [v EXCEPT !.blk = "none"]
             x == [y EXCEPT !.objs = v.saved]
  <2>2. y = [blk |-> "none", up |-> v.up, objs |-> v.objs, saved |-> v.saved, fds |-> v.fds]
    BY DEF Server
  <2>3. RolledBack(v) = [x EXCEPT !.fds = <<>>]
    BY <2>1
  <2> HIDE DEF y
  <2>4. x = [blk |-> "none", up |-> v.up, objs |-> v.saved, saved |-> v.saved, fds |-> v.fds]
    BY <2>2
  <2> HIDE DEF x
  <2> QED BY <2>3, <2>4
<1>2. Durable(v) = [blk |-> "none", up |-> v.up, objs |-> v.objs, saved |-> v.objs, fds |-> <<>>]
  <2>1. Durable(v) = [[[v EXCEPT !.blk = "none"] EXCEPT !.saved = v.objs] EXCEPT !.fds = <<>>]
    BY DEF Durable
  <2> DEFINE y == [v EXCEPT !.blk = "none"]
             x == [y EXCEPT !.saved = v.objs]
  <2>2. y = [blk |-> "none", up |-> v.up, objs |-> v.objs, saved |-> v.saved, fds |-> v.fds]
    BY DEF Server
  <2>3. Durable(v) = [x EXCEPT !.fds = <<>>]
    BY <2>1
  <2> HIDE DEF y
  <2>4. x = [blk |-> "none", up |-> v.up, objs |-> v.objs, saved |-> v.objs, fds |-> v.fds]
    BY <2>2
  <2> HIDE DEF x
  <2> QED BY <2>3, <2>4
<1> QED BY <1>1, <1>2

\* The end of a block, and of a session, closes all descriptors.
LEMMA EndedServer ==
  ASSUME NEW v, Server(v), NEW up
  PROVE  /\ Server(RolledBack(v)) /\ Server([RolledBack(v) EXCEPT !.up = up])
         /\ Server(Durable(v)) /\ Server([Durable(v) EXCEPT !.up = up])
         /\ ~[RolledBack(v) EXCEPT !.up = FALSE].up
<1>1. /\ RolledBack(v) = [blk |-> "none", up |-> v.up, objs |-> v.saved, saved |-> v.saved,
                          fds |-> <<>>]
      /\ Durable(v) = [blk |-> "none", up |-> v.up, objs |-> v.objs, saved |-> v.objs,
                       fds |-> <<>>]
  BY EndedAs
<1>3. \A y : y.fds = <<>> /\ y = [blk |-> y.blk, up |-> y.up, objs |-> y.objs, saved |-> y.saved,
                                  fds |-> y.fds] => Server(y)
  BY FS_EmptySet DEF Server, Fds
<1> DEFINE R == RolledBack(v)
           D == Durable(v)
<1>4. [R EXCEPT !.up = up] = [blk |-> "none", up |-> up, objs |-> v.saved, saved |-> v.saved,
                              fds |-> <<>>]
  BY <1>1
<1>5. [D EXCEPT !.up = up] = [blk |-> "none", up |-> up, objs |-> v.objs, saved |-> v.objs,
                              fds |-> <<>>]
  BY <1>1
<1>6. ~[R EXCEPT !.up = FALSE].up
  BY <1>1
<1> QED BY <1>1, <1>3, <1>4, <1>5, <1>6

\* A transaction begins without accesses.
LEMMA BeginStep ==
  ASSUME DescriptorInv, Begin
  PROVE  DescriptorInv'
<1>1. b' = [blk |-> "open", up |-> TRUE, objs |-> b.objs, saved |-> b.saved, fds |-> b.fds]
  BY DEF Begin, DescriptorInv, Server
<1>2. Server(b')
  BY <1>1 DEF DescriptorInv, Server, Fds
<1>3. /\ acc' = acc /\ told' = FALSE /\ silent' = FALSE /\ tx' = "active"
      /\ \A h \in Handle : acc[h].kind = "none"
  BY DEF Begin, DescriptorInv
<1>4. OwnDescriptor'
  BY <1>3 DEF OwnDescriptor
<1>5. Accesses(acc')
  BY <1>3 DEF DescriptorInv
<1> QED BY <1>1, <1>2, <1>3, <1>4, <1>5 DEF DescriptorInv

\* A client that gives up its accesses first ends a transaction without any.
LEMMA EndStep ==
  ASSUME DescriptorInv, "outlive" \notin Careless, MayEnd, NEW v, Server(v),
         NEW returned, NEW next, next # "active", Ended(v, returned, next)
  PROVE  DescriptorInv'
<1>1. /\ b' = v /\ tx' = next /\ acc' = acc /\ told' = FALSE /\ silent' = FALSE
      /\ \A h \in Handle : acc[h].kind = "none"
  BY DEF Ended, MayEnd
<1>2. ~Sound'
  BY <1>1 DEF Sound, Active
<1>3. Server(b') /\ Accesses(acc')
  BY <1>1 DEF DescriptorInv
<1> QED BY <1>1, <1>2, <1>3 DEF DescriptorInv, OwnDescriptor

\* commit(), however it ends
LEMMA CommitStep ==
  ASSUME DescriptorInv, "outlive" \notin Careless, Commit
  PROVE  DescriptorInv'
<1>1. MayEnd /\ Server(b)
  BY DEF Commit, DescriptorInv
<1>2. /\ Server(RolledBack(b)) /\ Server(Durable(b))
      /\ Server([Durable(b) EXCEPT !.up = FALSE])
  BY <1>1, EndedServer
<1>3. PICK v \in {RolledBack(b), Durable(b), b, [Durable(b) EXCEPT !.up = FALSE]},
           returned \in BOOLEAN, next \in {"none", "dead"} : Ended(v, returned, next)
  BY DEF Commit
<1>4. Server(v)
  BY <1>1, <1>2
<1> QED BY <1>1, <1>3, <1>4, EndStep

\* abort(), and the transaction's destructor
LEMMA AbortStep ==
  ASSUME DescriptorInv, "outlive" \notin Careless, Abort
  PROVE  DescriptorInv'
<1>1. PICK up \in {b.up, TRUE} : Ended([RolledBack(b) EXCEPT !.up = up], FALSE, "none")
  BY DEF Abort
<1>2. MayEnd /\ Server(b)
  BY DEF Abort, DescriptorInv
<1>3. Server([RolledBack(b) EXCEPT !.up = up])
  BY <1>2, EndedServer
<1> QED BY <1>1, <1>2, <1>3, EndStep

\* A lost session has no descriptors; the client is not sound any more.
LEMMA LinkLostStep ==
  ASSUME DescriptorInv, LinkLost
  PROVE  DescriptorInv'
<1> DEFINE v == [RolledBack(b) EXCEPT !.up = FALSE]
<1>1. Server(v) /\ ~v.up
  BY EndedServer DEF DescriptorInv
<1>2. b' = v /\ acc' = acc /\ tx' = tx /\ told' = told /\ silent' = silent
  BY DEF LinkLost
<1> HIDE DEF v
<1>3. ~Sound'
  BY <1>1, <1>2 DEF Sound
<1>4. Server(b') /\ Accesses(acc')
  BY <1>1, <1>2 DEF DescriptorInv
<1> QED BY <1>2, <1>3, <1>4 DEF DescriptorInv, OwnDescriptor

\* At first there is nothing.
LEMMA DescriptorInit ==
  ASSUME Init
  PROVE  DescriptorInv
<1>1. Server(b)
  BY FS_EmptySet DEF Init, Server, Fds
<1>2. Access(NoObject) /\ NoObject.kind = "none"
  BY DEF NoObject, Access, Fresh
<1>3. acc = [h \in Handle |-> NoObject] /\ tx = "none" /\ told = FALSE /\ silent = FALSE
  BY DEF Init
<1>4. Accesses(acc) /\ \A h \in Handle : acc[h].kind = "none"
  BY <1>2, <1>3 DEF Accesses
<1>5. ~Sound
  BY <1>3 DEF Sound, Active
<1> QED BY <1>1, <1>3, <1>4, <1>5 DEF DescriptorInv, OwnDescriptor

\* Every step preserves the invariant.
LEMMA DescriptorNext ==
  ASSUME DescriptorInv, "outlive" \notin Careless, [Next]_vars
  PROVE  DescriptorInv'
<1>1. CASE UNCHANGED vars
  BY <1>1 DEF vars, DescriptorInv, Server, Fds, Accesses, OwnDescriptor, Sound, Active
<1>2. ASSUME NEW o \in Oid, Create(o, <<>>) \/ Create(o, file) \/ Remove(o) \/ ToFile(o)
      PROVE  DescriptorInv'
  BY <1>2, CreateStep, RemoveStep, ToFileStep
<1>3. ASSUME NEW h \in Handle, NEW o \in Oid, NEW kind \in Kinds[h], Open(h, kind, o)
      PROVE  DescriptorInv'
  BY <1>3, OpenStep
<1>4. ASSUME NEW h \in Handle, NEW c \in Char, Put(h, c) \/ Write(h, <<c>>)
      PROVE  DescriptorInv'
  BY <1>4, PutStep, WriteStep
<1>5. ASSUME NEW h \in Handle, NEW x \in Offsets, Seek(h, x[1], x[2])
      PROVE  DescriptorInv'
  BY <1>5, SeekStep
<1>6. ASSUME NEW h \in Handle,
             Flush(h) \/ Get(h) \/ Clear(h) \/ Read(h, BufSize) \/ Destroy(h)
      PROVE  DescriptorInv'
  BY <1>6, FlushStep, GetStep, ClearStep, ReadStep, DestroyStep
<1>7. CASE Begin \/ Commit \/ Abort \/ LinkLost
  BY <1>7, BeginStep, CommitStep, AbortStep, LinkLostStep
<1> QED BY <1>1, <1>2, <1>3, <1>4, <1>5, <1>6, <1>7 DEF Next

\* largeobjectaccess::open and close: for any number of accesses, streams and objects
\* and with buffers of any size, each works with a descriptor of its own that is open
\* on its object, until a failure has been reported.  The client destroys its
\* accesses before their transaction ends.
THEOREM OwnDescriptorHolds ==
  ASSUME "outlive" \notin Careless
  PROVE  Spec => []OwnDescriptor
<1>1. Init => DescriptorInv
  BY DescriptorInit
<1>2. DescriptorInv /\ [Next]_vars => DescriptorInv'
  BY DescriptorNext
<1>3. DescriptorInv => OwnDescriptor
  BY DEF DescriptorInv
<1> QED BY <1>1, <1>2, <1>3, PTL DEF Spec

----------------------------------------------------------------------------
(* Texts: parts of them, and one put over another.                         *)

\* A text of at most n characters.
Fits(t, n) == t \in Seq(Char) /\ Len(t) <= n

\* The length and the characters of a text.
LEMMA TextFacts ==
  ASSUME NEW t \in Seq(Char)
  PROVE  Len(t) \in Nat /\ DOMAIN t = 1..Len(t) /\ \A i \in 1..Len(t) : t[i] \in Char
<1>1. Len(t) \in Nat /\ DOMAIN t = 1..Len(t) /\ t \in [1..Len(t) -> Char] BY LenProperties
<1> QED BY <1>1

\* The texts that TypeOK speaks of.
LEMMA FitsIsText ==
  ASSUME NEW n \in Nat, NEW t
  PROVE  Fits(t, n) <=> t \in Text(n)
<1>1. ASSUME Fits(t, n) PROVE t \in Text(n)
  <2>1. Len(t) \in 0..n /\ t \in [1..Len(t) -> Char] BY <1>1, LenProperties DEF Fits
  <2> QED BY <2>1 DEF Text
<1>2. ASSUME t \in Text(n) PROVE Fits(t, n)
  <2>1. PICK m \in 0..n : t \in [1..m -> Char] BY <1>2 DEF Text
  <2>2. t \in Seq(Char) BY <2>1, SeqDef
  <2>3. Len(t) \in Nat /\ DOMAIN t = 1..Len(t) BY <2>2, TextFacts
  <2>4. 1..Len(t) = 1..m BY <2>1, <2>3
  <2>5. \A i, j \in Nat : 1..i = 1..j => i = j
    <3> SUFFICES ASSUME NEW i \in Nat, NEW j \in Nat, 1..i = 1..j, i < j PROVE FALSE
      OBVIOUS
    <3>1. j \in 1..j /\ j \notin 1..i OBVIOUS
    <3> QED BY <3>1
  <2>6. Len(t) = m
    <3>1. m \in Nat OBVIOUS
    <3> QED BY <2>3, <2>4, <2>5, <3>1
  <2> QED BY <2>1, <2>2, <2>6 DEF Fits
<1> QED BY <1>1, <1>2

\* A part of a text.
LEMMA PartFacts ==
  ASSUME NEW t \in Seq(Char), NEW m \in Nat, NEW n \in Nat, n <= Len(t)
  PROVE  /\ SubSeq(t, m + 1, n) \in Seq(Char)
         /\ Len(SubSeq(t, m + 1, n)) = IF m < n THEN n - m ELSE 0
         /\ \A i \in 1..n - m : SubSeq(t, m + 1, n)[i] = t[m + i]
<1>1. m + 1 \in Int /\ n \in Int /\ \A i \in m + 1..n : t[i] \in Char BY TextFacts
<1> DEFINE s == SubSeq(t, m + 1, n)
<1>2. /\ s \in Seq(Char) /\ Len(s) = IF m + 1 <= n THEN n - (m + 1) + 1 ELSE 0
      /\ \A i \in 1..n - (m + 1) + 1 : s[i] = t[m + 1 + i - 1]
  BY <1>1, SubSeqProperties
<1> HIDE DEF s
<1>3. \A i \in 1..n - m : s[i] = t[m + i]
  <2> SUFFICES ASSUME NEW i \in 1..n - m PROVE s[i] = t[m + i] OBVIOUS
  <2>1. i \in 1..n - (m + 1) + 1 /\ m + 1 + i - 1 = m + i OBVIOUS
  <2> QED BY <1>2, <2>1
<1>4. Len(s) = IF m < n THEN n - m ELSE 0 BY <1>2
<1> QED BY <1>2, <1>3, <1>4 DEF s

\* Writing at a position within a text, or at its end.
LEMMA PlaceFacts ==
  ASSUME NEW t \in Seq(Char), NEW k \in Nat, k <= Len(t), NEW p \in Seq(Char)
  PROVE  LET z == Place(t, k, p)
         IN  /\ z \in Seq(Char)
             /\ Len(z) = IF k + Len(p) <= Len(t) THEN Len(t) ELSE k + Len(p)
             /\ \A i \in 1..Len(z) :
                  z[i] = IF i > k /\ i <= k + Len(p) THEN p[i - k] ELSE t[i]
<1>1. Len(t) \in Nat /\ Len(p) \in Nat BY TextFacts
<1> DEFINE n == k + Len(p)
           a == SubSeq(t, 1, k)
           c == SubSeq(t, n + 1, Len(t))
           z == Place(t, k, p)
<1>2. a \in Seq(Char) /\ Len(a) = k /\ \A i \in 1..k : a[i] = t[i]
  <2>1. 0 \in Nat /\ 0 + 1 = 1 /\ k - 0 = k /\ (IF 0 < k THEN k - 0 ELSE 0) = k OBVIOUS
  <2>2. /\ SubSeq(t, 0 + 1, k) \in Seq(Char)
        /\ Len(SubSeq(t, 0 + 1, k)) = IF 0 < k THEN k - 0 ELSE 0
        /\ \A i \in 1..k - 0 : SubSeq(t, 0 + 1, k)[i] = t[0 + i]
    BY <2>1, PartFacts
  <2>3. \A i \in 1..k : 0 + i = i OBVIOUS
  <2> QED BY <2>1, <2>2, <2>3
<1>3. /\ c \in Seq(Char) /\ Len(c) = IF n < Len(t) THEN Len(t) - n ELSE 0
      /\ \A i \in 1..Len(t) - n : c[i] = t[n + i]
  <2>1. n \in Nat BY <1>1
  <2> HIDE DEF n
  <2> QED BY <1>1, <2>1, PartFacts
<1>4. z = a \o p \o c BY DEF Place
<1> HIDE DEF a, c, z
<1> DEFINE s == a \o p
<1>5. /\ s \in Seq(Char) /\ Len(s) = n
      /\ \A i \in 1..n : s[i] = IF i <= k THEN a[i] ELSE p[i - k]
  <2>1. /\ s \in Seq(Char) /\ Len(s) = Len(a) + Len(p)
        /\ \A i \in 1..Len(a) + Len(p) : s[i] = IF i <= Len(a) THEN a[i] ELSE p[i - Len(a)]
    BY <1>2, ConcatProperties
  <2> QED BY <1>2, <2>1
<1>6. z = s \o c BY <1>4
<1> HIDE DEF s
<1>7. /\ z \in Seq(Char) /\ Len(z) = n + Len(c)
      /\ \A i \in 1..n + Len(c) : z[i] = IF i <= n THEN s[i] ELSE c[i - n]
  <2>1. /\ s \o c \in Seq(Char) /\ Len(s \o c) = Len(s) + Len(c)
        /\ \A i \in 1..Len(s) + Len(c) : (s \o c)[i] = IF i <= Len(s) THEN s[i] ELSE c[i - Len(s)]
    BY <1>3, <1>5, ConcatProperties
  <2> HIDE DEF n
  <2> QED BY <1>5, <1>6, <2>1
<1>8. Len(z) = IF n <= Len(t) THEN Len(t) ELSE n
  <2>1. n \in Nat BY <1>1
  <2> HIDE DEF n
  <2> QED BY <1>1, <1>3, <1>7, <2>1
<1>9. ASSUME NEW i \in 1..Len(z)
      PROVE  z[i] = IF i > k /\ i <= n THEN p[i - k] ELSE t[i]
  <2>1. CASE i <= k
    <3>1. i \in 1..k /\ i \in 1..n /\ i <= n /\ ~(i > k) BY <1>1, <2>1
    <3>2. i \in 1..n + Len(c) BY <1>7, <1>9
    <3> HIDE DEF n
    <3> QED BY <1>2, <1>5, <1>7, <2>1, <3>1, <3>2
  <2>2. CASE i > k /\ i <= n
    <3>1. i \in 1..n /\ ~(i <= k) BY <1>1, <2>2
    <3>2. i \in 1..n + Len(c) BY <1>7, <1>9
    <3> HIDE DEF n
    <3> QED BY <1>5, <1>7, <2>2, <3>1, <3>2
  <2>3. CASE i > n
    <3>1. i - n \in 1..Len(t) - n /\ n + (i - n) = i /\ ~(i <= n) BY <1>1, <1>8, <1>9, <2>3
    <3>2. i \in 1..n + Len(c) BY <1>7, <1>9
    <3> HIDE DEF n
    <3> QED BY <1>3, <1>7, <3>1, <3>2
  <2>4. i <= k \/ (i > k /\ i <= n) \/ i > n BY <1>1
  <2> QED BY <2>1, <2>2, <2>3, <2>4
<1> QED BY <1>7, <1>8, <1>9 DEF z

\* Writing nothing, and writing on where writing has ended.
LEMMA PlaceNothing ==
  ASSUME NEW t \in Seq(Char), NEW k \in Nat, k <= Len(t)
  PROVE  Place(t, k, <<>>) = t
<1>1. <<>> \in Seq(Char) /\ Len(<<>>) = 0 BY EmptySeq
<1> DEFINE e == <<>>
           z == Place(t, k, e)
<1> SUFFICES z = t OBVIOUS
<1>2. e \in Seq(Char) /\ Len(e) = 0 BY <1>1
<1> HIDE DEF e
<1>3. /\ z \in Seq(Char)
      /\ Len(z) = IF k + Len(e) <= Len(t) THEN Len(t) ELSE k + Len(e)
      /\ \A i \in 1..Len(z) :
           z[i] = IF i > k /\ i <= k + Len(e) THEN e[i - k] ELSE t[i]
  BY <1>2, PlaceFacts
<1> HIDE DEF z
<1>4. Len(t) \in Nat BY TextFacts
<1>5. Len(z) = Len(t) BY <1>2, <1>3, <1>4
<1>6. \A i \in 1..Len(z) : z[i] = t[i] BY <1>2, <1>3, <1>4, <1>5
<1> QED BY <1>3, <1>5, <1>6, SeqEqual

\* Two texts that are put one after the other.
LEMMA PlaceOn ==
  ASSUME NEW t \in Seq(Char), NEW k \in Nat, k <= Len(t), NEW p \in Seq(Char),
         NEW q \in Seq(Char)
  PROVE  Place(Place(t, k, p), k + Len(p), q) = Place(t, k, p \o q)
<1> DEFINE n == k + Len(p)
           y == Place(t, k, p)
           z == Place(y, n, q)
           s == p \o q
           x == Place(t, k, s)
<1>1. Len(t) \in Nat /\ Len(p) \in Nat /\ Len(q) \in Nat /\ n \in Nat BY TextFacts
<1>2. /\ s \in Seq(Char) /\ Len(s) = Len(p) + Len(q)
      /\ \A i \in 1..Len(p) + Len(q) : s[i] = IF i <= Len(p) THEN p[i] ELSE q[i - Len(p)]
  BY ConcatProperties
<1> HIDE DEF s
<1>3. /\ y \in Seq(Char) /\ Len(y) = IF k + Len(p) <= Len(t) THEN Len(t) ELSE k + Len(p)
      /\ \A i \in 1..Len(y) :
           y[i] = IF i > k /\ i <= k + Len(p) THEN p[i - k] ELSE t[i]
  BY PlaceFacts
<1> HIDE DEF y
<1>4. n <= Len(y) BY <1>1, <1>3
<1>5. /\ z \in Seq(Char) /\ Len(z) = IF n + Len(q) <= Len(y) THEN Len(y) ELSE n + Len(q)
      /\ \A i \in 1..Len(z) :
           z[i] = IF i > n /\ i <= n + Len(q) THEN q[i - n] ELSE y[i]
  <2> HIDE DEF n
  <2> QED BY <1>1, <1>3, <1>4, PlaceFacts
<1>6. /\ x \in Seq(Char) /\ Len(x) = IF k + Len(s) <= Len(t) THEN Len(t) ELSE k + Len(s)
      /\ \A i \in 1..Len(x) :
           x[i] = IF i > k /\ i <= k + Len(s) THEN s[i - k] ELSE t[i]
  BY <1>2, PlaceFacts
<1> HIDE DEF x, z
<1>7. Len(x) = Len(z)
  <2>1. k + Len(s) = n + Len(q) BY <1>1, <1>2
  <2>2. CASE n <= Len(t)
    <3>1. Len(y) = Len(t) BY <1>3, <2>2
    <3> QED BY <1>5, <1>6, <2>1, <3>1
  <2>3. CASE ~(n <= Len(t))
    <3>1. Len(y) = n BY <1>3, <2>3
    <3>2. ~(n + Len(q) <= Len(t)) BY <1>1, <2>3
    <3>3. Len(x) = k + Len(s) BY <1>6, <2>1, <3>2
    <3>4. Len(z) = n + Len(q)
      <4>1. Len(q) = 0 => n = n + Len(q) BY <1>1
      <4>2. Len(q) # 0 => ~(n + Len(q) <= n) BY <1>1
      <4> HIDE DEF n
      <4> QED BY <1>5, <3>1, <4>1, <4>2
    <3> QED BY <2>1, <3>3, <3>4
  <2> QED BY <2>2, <2>3
<1>8. ASSUME NEW i \in 1..Len(z) PROVE z[i] = x[i]
  <2>1. CASE i > n /\ i <= n + Len(q)
    <3>1. i > k /\ i <= k + Len(s) /\ i - k \in 1..Len(p) + Len(q) /\ ~(i - k <= Len(p))
          /\ i - k - Len(p) = i - n
      BY <1>1, <1>2, <2>1
    <3>2. x[i] = s[i - k] /\ s[i - k] = q[i - k - Len(p)] BY <1>2, <1>6, <1>7, <3>1
    <3> HIDE DEF n
    <3> QED BY <1>5, <2>1, <3>1, <3>2
  <2>2. CASE i <= n
    <3>1. i \in 1..Len(y) /\ ~(i > n) BY <1>1, <1>4, <2>2
    <3>2. z[i] = y[i] BY <1>5, <3>1
    <3>3. CASE i > k
      <4>1. i <= k + Len(s) /\ i - k \in 1..Len(p) + Len(q) /\ i - k <= Len(p)
        BY <1>1, <1>2, <2>2, <3>3
      <4>2. x[i] = s[i - k] /\ s[i - k] = p[i - k] BY <1>2, <1>6, <1>7, <3>3, <4>1
      <4> QED BY <1>3, <2>2, <3>1, <3>2, <3>3, <4>2
    <3>4. CASE ~(i > k)
      <4>1. x[i] = t[i] BY <1>6, <1>7, <3>4
      <4> QED BY <1>3, <3>1, <3>2, <3>4, <4>1
    <3> QED BY <3>3, <3>4
  <2>3. CASE i > n + Len(q)
    <3>1. ~(i > n /\ i <= n + Len(q)) /\ ~(i <= k + Len(s)) /\ ~(i <= k + Len(p))
      BY <1>1, <1>2, <2>3
    <3>2. i \in 1..Len(y) BY <1>1, <1>5, <2>3
    <3>3. z[i] = y[i] BY <1>5, <3>1
    <3>4. y[i] = t[i] BY <1>3, <3>1, <3>2
    <3>5. x[i] = t[i] BY <1>6, <1>7, <3>1
    <3> QED BY <3>3, <3>4, <3>5
  <2>4. i <= n \/ (i > n /\ i <= n + Len(q)) \/ i > n + Len(q) BY <1>1
  <2> QED BY <2>1, <2>2, <2>3, <2>4
<1>9. z = x BY <1>5, <1>6, <1>7, <1>8, SeqEqual
<1> QED BY <1>9 DEF z, x, y, s

----------------------------------------------------------------------------
(* The server's objects and descriptors.                                   *)

\* Objects, of which each has a text within its bound.
Stored(f) ==
  /\ f = [o \in DOMAIN f |-> f[o]] /\ DOMAIN f \subseteq Oid
  /\ \A o \in DOMAIN f : Fits(f[o], MaxLen[o])

\* Descriptor d is at a place where its object can have text.
Placed(d) == d.obj \in Oid /\ d.pos \in Nat /\ d.write \in BOOLEAN /\ d.pos <= MaxLen[d.obj]

\* A server with its objects and descriptors in order.
Sane(v) ==
  /\ Server(v)
  /\ v.blk \in {"none", "open", "failed"} /\ v.up \in BOOLEAN /\ (~v.up => v.blk = "none")
  /\ Stored(v.objs) /\ Stored(v.saved) /\ (v.blk = "none" => v.objs = v.saved)
  /\ \A fd \in DOMAIN v.fds : Placed(v.fds[fd])

\* From v to u nothing changes but object o, descriptor fd and the block.
Touches(v, u, o, fd) ==
  /\ Sane(u) /\ u.up = v.up /\ u.saved = v.saved
  /\ u.blk = v.blk \/ (v.blk = "open" /\ u.blk = "failed")
  /\ DOMAIN u.objs = DOMAIN v.objs /\ \A i \in DOMAIN v.objs \ {o} : u.objs[i] = v.objs[i]
  /\ DOMAIN u.fds = DOMAIN v.fds /\ \A i \in DOMAIN v.fds \ {fd} : u.fds[i] = v.fds[i]
  /\ fd \in DOMAIN v.fds => u.fds[fd].obj = v.fds[fd].obj

\* A call with descriptor fd of object o has been refused.
Refused(v, u, o, fd) == Touches(v, u, o, fd) /\ u.blk # "open"

\* It has left the text t in the object, and the descriptor at k.
Moved(v, u, o, fd, t, k) ==
  /\ Touches(v, u, o, fd) /\ u.blk = "open"
  /\ o \in DOMAIN u.objs /\ u.objs[o] = t /\ fd \in DOMAIN u.fds /\ u.fds[fd].pos = k

\* Failing() changes nothing but the block.
LEMMA FailingTouches ==
  ASSUME NEW v, Sane(v), NEW r \in Failing(v), NEW o, NEW fd
  PROVE  Refused(v, r.b, o, fd) /\ r.res = -1 /\ r.b.objs = v.objs /\ r.b.fds = v.fds
<1>1. Server(v) BY DEF Sane
<1>2. r.res = -1 /\ Server(r.b) /\ r.b.blk # "open" BY <1>1, FailingKeeps DEF Kept, SameFds
<1>3. /\ r.b.objs = v.objs /\ r.b.fds = v.fds /\ r.b.up = v.up /\ r.b.saved = v.saved
      /\ r.b.blk = v.blk \/ (v.blk = "open" /\ r.b.blk = "failed")
  BY <1>1 DEF Failing, Res, Server
<1>4. r.b.blk \in {"none", "open", "failed"} /\ (~r.b.up => r.b.blk = "none")
  BY <1>3 DEF Sane
<1>5. Sane(r.b) BY <1>2, <1>3, <1>4 DEF Sane
<1> QED BY <1>2, <1>3, <1>5 DEF Refused, Touches

\* A call that goes through in an open block.
LEMMA MovedFacts ==
  ASSUME NEW v, Sane(v), v.blk = "open", NEW o \in DOMAIN v.objs, NEW fd \in DOMAIN v.fds,
         v.fds[fd].obj = o, NEW t, Fits(t, MaxLen[o]), NEW k \in Nat, k <= MaxLen[o],
         NEW u, u.blk = v.blk, u.up = v.up, u.saved = v.saved,
         u = [blk |-> u.blk, up |-> u.up, objs |-> u.objs, saved |-> u.saved, fds |-> u.fds],
         u.objs = [v.objs EXCEPT ![o] = t],
         u.fds = [v.fds EXCEPT ![fd] = [v.fds[fd] EXCEPT !.pos = k]]
  PROVE  Moved(v, u, o, fd, t, k)
<1>1. Server(v) /\ Stored(v.objs) /\ Stored(v.saved) /\ Placed(v.fds[fd]) BY DEF Sane
<1>2. Kept(v, Res(u, 0)) BY <1>1, MovedKeeps
<1>3. Server(u) /\ DOMAIN u.fds = DOMAIN v.fds BY <1>2 DEF Kept, SameFds, Res
<1>4. /\ DOMAIN u.objs = DOMAIN v.objs /\ u.objs[o] = t
      /\ \A i \in DOMAIN v.objs \ {o} : u.objs[i] = v.objs[i]
      /\ u.objs = [i \in DOMAIN u.objs |-> u.objs[i]]
  BY <1>1 DEF Stored
<1>5. Stored(u.objs)
  <2> SUFFICES ASSUME NEW i \in DOMAIN u.objs PROVE Fits(u.objs[i], MaxLen[i])
    BY <1>1, <1>4 DEF Stored
  <2> QED BY <1>1, <1>4 DEF Stored
<1> DEFINE d == [v.fds[fd] EXCEPT !.pos = k]
<1>6. d.obj = o /\ d.pos = k /\ d.write = v.fds[fd].write
  BY <1>1 DEF Server, Descriptor
<1>7. u.fds = [v.fds EXCEPT ![fd] = d] OBVIOUS
<1> HIDE DEF d
<1>8. u.fds[fd] = d /\ \A i \in DOMAIN v.fds \ {fd} : u.fds[i] = v.fds[i] BY <1>7
<1>9. Placed(d) BY <1>1, <1>6 DEF Placed
<1>10. \A i \in DOMAIN u.fds : Placed(u.fds[i]) BY <1>3, <1>8, <1>9 DEF Sane
<1>11. Sane(u) BY <1>1, <1>3, <1>5, <1>10 DEF Sane
<1> QED BY <1>3, <1>4, <1>6, <1>8, <1>11 DEF Moved, Touches

----------------------------------------------------------------------------
(* Accesses, and the calls of the backend that they make.                  *)

\* The states of a stream, and where a seek starts from.
Iostates == {"good", "eof", "bad"}
Directions == {"beg", "cur", "end"}

\* The areas of a stream hold no more than fits, and only those that it has.
Sized(a) ==
  /\ Access(a) /\ a.state \in Iostates
  /\ Fits(a.g, BufSize) /\ Fits(a.p, BufSize) /\ a.gp \in 0..Len(a.g)
  /\ (~Reads(a.kind) => a.g = <<>>) /\ (~Writes(a.kind) => a.p = <<>>)

\* No more than one of them is in use.
Areas(a) == Sized(a) /\ (a.p = <<>> \/ Taken(a))

\* Access a has its descriptor, within its object, and what is left to write fits.
Owns(v, a) ==
  /\ a.fd \in DOMAIN v.fds /\ v.fds[a.fd].obj = a.id /\ a.id \in DOMAIN v.objs
  /\ v.fds[a.fd].pos <= Len(v.objs[a.id])
  /\ v.fds[a.fd].pos + Len(a.p) <= MaxLen[a.id]

\* In an open block it does.
Ready(v, a) == Sane(v) /\ (v.blk = "open" => Owns(v, a))

\* The object with what is in the put area laid over it, and where that ends.
Whole(v, a) == Place(v.objs[a.id], v.fds[a.fd].pos, a.p)

Mark(v, a) == v.fds[a.fd].pos + Len(a.p)

\* What the facts about an access in an open block say of its object.
LEMMA OwnsFacts ==
  ASSUME NEW v, Sane(v), NEW a, Owns(v, a)
  PROVE  /\ a.id \in Oid /\ MaxLen[a.id] \in Nat
         /\ v.objs[a.id] \in Seq(Char) /\ Len(v.objs[a.id]) \in Nat
         /\ Len(v.objs[a.id]) <= MaxLen[a.id]
         /\ v.fds[a.fd].pos \in Nat /\ v.fds[a.fd].pos <= Len(v.objs[a.id])
<1>1. Stored(v.objs) /\ Placed(v.fds[a.fd]) BY DEF Sane, Owns
<1>2. a.id \in Oid /\ Fits(v.objs[a.id], MaxLen[a.id]) BY <1>1 DEF Stored, Owns
<1>3. MaxLen[a.id] \in Nat BY <1>2, ConstantsAssumption
<1>4. Len(v.objs[a.id]) \in Nat BY <1>2, TextFacts DEF Fits
<1> QED BY <1>1, <1>2, <1>3, <1>4 DEF Owns, Placed, Fits

\* lo_write() puts the text in its place, or the call is refused.
LEMMA WriteCall ==
  ASSUME NEW v, NEW a, Ready(v, a), NEW data \in Seq(Char),
         v.blk = "open" => v.fds[a.fd].pos + Len(data) <= MaxLen[a.id],
         NEW r \in lo_write(v, a.fd, data)
  PROVE  \/ r.res = -1 /\ Refused(v, r.b, a.id, a.fd)
         \/ /\ r.res = Len(data) /\ v.blk = "open"
            /\ Moved(v, r.b, a.id, a.fd, Place(v.objs[a.id], v.fds[a.fd].pos, data),
                     v.fds[a.fd].pos + Len(data))
<1>1. CASE r \in Failing(v)
  BY <1>1, FailingTouches DEF Ready
<1>2. CASE ~(r \in Failing(v))
  <2> DEFINE fd == a.fd
             o == v.fds[fd].obj
             t == Place(v.objs[o], v.fds[fd].pos, data)
             k == v.fds[fd].pos + Len(data)
             u == [v EXCEPT !.objs[o] = t, !.fds[fd].pos = k]
  <2>1. v.blk = "open" /\ r = Res(u, Len(data))
    BY <1>2 DEF lo_write, LoCall, Usable
  <2>2. Owns(v, a) /\ Sane(v) /\ Server(v) BY <2>1 DEF Ready, Sane
  <2>3. o = a.id /\ fd \in DOMAIN v.fds BY <2>2 DEF Owns
  <2>4. /\ o \in Oid /\ MaxLen[o] \in Nat
        /\ v.objs[o] \in Seq(Char) /\ Len(v.objs[o]) \in Nat /\ Len(v.objs[o]) <= MaxLen[o]
        /\ v.fds[fd].pos \in Nat /\ v.fds[fd].pos <= Len(v.objs[o])
    BY <2>2, <2>3, OwnsFacts
  <2>5. Len(data) \in Nat BY TextFacts
  <2>6. k \in Nat /\ k <= MaxLen[o] BY <2>1, <2>3, <2>4, <2>5
  <2>7. t \in Seq(Char) /\ (Len(t) = Len(v.objs[o]) \/ Len(t) = k)
    BY <2>4, PlaceFacts
  <2>8. Fits(t, MaxLen[o]) BY <2>4, <2>6, <2>7 DEF Fits
  <2> HIDE DEF o, t, k
  <2>9. u = [blk |-> v.blk, up |-> v.up, objs |-> [v.objs EXCEPT ![o] = t],
             saved |-> v.saved, fds |-> [v.fds EXCEPT ![fd] = [v.fds[fd] EXCEPT !.pos = k]]]
    <3> DEFINE y == [v EXCEPT !.objs[o] = t]
    <3>1. y = [blk |-> v.blk, up |-> v.up, objs |-> [v.objs EXCEPT ![o] = t],
               saved |-> v.saved, fds |-> v.fds]
      BY <2>2 DEF Server
    <3>2. u = [y EXCEPT !.fds = [v.fds EXCEPT ![fd] = [v.fds[fd] EXCEPT !.pos = k]]]
      BY <2>2, <2>3 DEF Server
    <3> HIDE DEF y, u
    <3> QED BY <3>1, <3>2
  <2> HIDE DEF u
  <2>10. o \in DOMAIN v.objs /\ v.fds[fd].obj = o BY <2>2, <2>3 DEF Owns
  <2>11. Moved(v, u, o, fd, t, k)
    <3>1. /\ u.blk = v.blk /\ u.up = v.up /\ u.saved = v.saved
          /\ u = [blk |-> u.blk, up |-> u.up, objs |-> u.objs, saved |-> u.saved, fds |-> u.fds]
          /\ u.objs = [v.objs EXCEPT ![o] = t]
          /\ u.fds = [v.fds EXCEPT ![fd] = [v.fds[fd] EXCEPT !.pos = k]]
      BY <2>9
    <3> QED BY <2>1, <2>2, <2>3, <2>6, <2>8, <2>10, <3>1, MovedFacts
  <2>12. r.b = u /\ r.res = Len(data) BY <2>1 DEF Res
  <2> QED BY <2>1, <2>3, <2>11, <2>12 DEF o, t, k
<1> QED BY <1>1, <1>2

\* d is the text of t from k on, at most n characters of it.
Follows(d, t, k, n) ==
  /\ d \in Seq(Char) /\ Len(d) = IF k + n <= Len(t) THEN n ELSE Len(t) - k
  /\ d = SubSeq(t, k + 1, Min({k + n, Len(t)}))
  /\ \A i \in 1..Len(d) : d[i] = t[k + i]

\* What there is of a text from a position on.
LEMMA FollowsFacts ==
  ASSUME NEW t \in Seq(Char), NEW k \in Nat, k <= Len(t), NEW n \in Nat, NEW d,
         d = SubSeq(t, k + 1, Min({k + n, Len(t)}))
  PROVE  Follows(d, t, k, n)
<1> DEFINE m == IF k + n <= Len(t) THEN k + n ELSE Len(t)
<1>1. Len(t) \in Nat BY TextFacts
<1>2. Min({k + n, Len(t)}) = m
  <2>1. m \in {k + n, Len(t)} /\ \A j \in {k + n, Len(t)} : m <= j BY <1>1
  <2>2. \A i \in {k + n, Len(t)} : (\A j \in {k + n, Len(t)} : i <= j) => i = m
    BY <1>1
  <2> HIDE DEF m
  <2>3. Min({k + n, Len(t)}) = CHOOSE i \in {k + n, Len(t)} : \A j \in {k + n, Len(t)} : i <= j
    BY DEF Min
  <2> QED BY <2>1, <2>2, <2>3
<1>3. m \in Nat /\ m <= Len(t) /\ k <= m BY <1>1
<1>4. m - k = IF k + n <= Len(t) THEN n ELSE Len(t) - k BY <1>1
<1> HIDE DEF m
<1>5. /\ SubSeq(t, k + 1, m) \in Seq(Char)
      /\ Len(SubSeq(t, k + 1, m)) = IF k < m THEN m - k ELSE 0
      /\ \A i \in 1..m - k : SubSeq(t, k + 1, m)[i] = t[k + i]
  BY <1>3, PartFacts
<1>6. d \in Seq(Char) /\ Len(d) = m - k /\ \A i \in 1..m - k : d[i] = t[k + i]
  <2>1. d = SubSeq(t, k + 1, m) BY <1>2
  <2>2. (IF k < m THEN m - k ELSE 0) = m - k BY <1>1, <1>3
  <2> QED BY <1>5, <2>1, <2>2
<1> QED BY <1>4, <1>6 DEF Follows

\* What a read of n bytes finds: the text from the descriptor's position on.
LEMMA AheadFacts ==
  ASSUME NEW v, Sane(v), NEW a, Owns(v, a), NEW n \in Nat
  PROVE  Follows(Ahead(v, a.fd, n), v.objs[a.id], v.fds[a.fd].pos, n)
<1> DEFINE t == v.objs[a.id]
           k == v.fds[a.fd].pos
           d == Ahead(v, a.fd, n)
<1>1. t \in Seq(Char) /\ k \in Nat /\ k <= Len(t) BY OwnsFacts
<1>2. d = SubSeq(t, k + 1, Min({k + n, Len(t)})) BY DEF Ahead, Owns
<1> HIDE DEF t, k, d
<1>3. Follows(d, t, k, n) BY <1>1, <1>2, FollowsFacts
<1> QED BY <1>3 DEF t, k, d

\* lo_read() leaves the object, and its descriptor behind what was found.
LEMMA ReadCall ==
  ASSUME NEW v, NEW a, Ready(v, a), NEW n \in Nat, NEW r \in lo_read(v, a.fd, n)
  PROVE  \/ r.res = -1 /\ Refused(v, r.b, a.id, a.fd)
         \/ /\ v.blk = "open" /\ r.res = Len(Ahead(v, a.fd, n))
            /\ Moved(v, r.b, a.id, a.fd, v.objs[a.id],
                     v.fds[a.fd].pos + Len(Ahead(v, a.fd, n)))
<1>1. CASE r \in Failing(v)
  BY <1>1, FailingTouches DEF Ready
<1>2. CASE ~(r \in Failing(v))
  <2> DEFINE fd == a.fd
             o == a.id
             t == v.objs[o]
             z == Len(Ahead(v, fd, n))
             k == v.fds[fd].pos + z
             u == [v EXCEPT !.fds[fd].pos = @ + z]
  <2>1. v.blk = "open" /\ r = Res(u, z)
    BY <1>2 DEF lo_read, LoCall, Usable
  <2>2. Owns(v, a) /\ Sane(v) /\ Server(v) BY <2>1 DEF Ready, Sane
  <2>3. o \in DOMAIN v.objs /\ fd \in DOMAIN v.fds /\ v.fds[fd].obj = o BY <2>2 DEF Owns
  <2>4. /\ o \in Oid /\ MaxLen[o] \in Nat
        /\ t \in Seq(Char) /\ Len(t) \in Nat /\ Len(t) <= MaxLen[o]
        /\ v.fds[fd].pos \in Nat /\ v.fds[fd].pos <= Len(t)
    BY <2>2, OwnsFacts
  <2>5. z = IF v.fds[fd].pos + n <= Len(t) THEN n ELSE Len(t) - v.fds[fd].pos
    BY <2>2, AheadFacts DEF Follows
  <2> HIDE DEF z, t
  <2>6. k \in Nat /\ k <= MaxLen[o] BY <2>4, <2>5
  <2>7. Fits(t, MaxLen[o]) BY <2>4 DEF Fits
  <2>8. u = [blk |-> v.blk, up |-> v.up, objs |-> v.objs, saved |-> v.saved,
             fds |-> [v.fds EXCEPT ![fd] = [v.fds[fd] EXCEPT !.pos = k]]]
    BY <2>2, <2>3 DEF Server
  <2> HIDE DEF u, k
  <2>9. v.objs = [v.objs EXCEPT ![o] = t] BY <2>2, <2>3 DEF t, Sane, Stored
  <2>10. Moved(v, u, o, fd, t, k)
    <3>1. /\ u.blk = v.blk /\ u.up = v.up /\ u.saved = v.saved
          /\ u = [blk |-> u.blk, up |-> u.up, objs |-> u.objs, saved |-> u.saved, fds |-> u.fds]
          /\ u.objs = v.objs
          /\ u.fds = [v.fds EXCEPT ![fd] = [v.fds[fd] EXCEPT !.pos = k]]
      BY <2>8
    <3>2. u.objs = [v.objs EXCEPT ![o] = t] BY <2>9, <3>1
    <3> QED BY <2>1, <2>2, <2>3, <2>6, <2>7, <3>1, <3>2, MovedFacts
  <2>11. r.b = u /\ r.res = z BY <2>1 DEF Res
  <2> QED BY <2>1, <2>10, <2>11 DEF t, z, k
<1> QED BY <1>1, <1>2

\* lo_lseek() leaves the object, and its descriptor at the target.
LEMMA SeekCall ==
  ASSUME NEW v, NEW a, Ready(v, a), NEW off \in Int, NEW dir \in Directions,
         v.blk = "open" => Target(v.fds[a.fd].pos, Len(v.objs[a.id]), off, dir)
                             <= Len(v.objs[a.id]),
         NEW r \in lo_lseek(v, a.fd, off, dir)
  PROVE  \/ r.res = -1 /\ Refused(v, r.b, a.id, a.fd)
         \/ /\ v.blk = "open" /\ r.res \in Nat
            /\ r.res = Target(v.fds[a.fd].pos, Len(v.objs[a.id]), off, dir)
            /\ Moved(v, r.b, a.id, a.fd, v.objs[a.id], r.res)
<1>1. CASE r \in Failing(v)
  BY <1>1, FailingTouches DEF Ready
<1>2. CASE ~(r \in Failing(v))
  <2> DEFINE fd == a.fd
             o == a.id
             t == v.objs[o]
             k == Target(v.fds[fd].pos, Len(v.objs[v.fds[fd].obj]), off, dir)
             u == [v EXCEPT !.fds[fd].pos = k]
  <2>1. v.blk = "open" /\ r = Res(u, k) /\ ~(k < 0)
    BY <1>2 DEF lo_lseek, Usable
  <2>2. Owns(v, a) /\ Sane(v) /\ Server(v) BY <2>1 DEF Ready, Sane
  <2>3. o \in DOMAIN v.objs /\ fd \in DOMAIN v.fds /\ v.fds[fd].obj = o BY <2>2 DEF Owns
  <2>4. /\ o \in Oid /\ MaxLen[o] \in Nat
        /\ t \in Seq(Char) /\ Len(t) \in Nat /\ Len(t) <= MaxLen[o]
        /\ v.fds[fd].pos \in Nat /\ v.fds[fd].pos <= Len(t)
    BY <2>2, OwnsFacts
  <2>5. k = Target(v.fds[fd].pos, Len(t), off, dir) BY <2>3
  <2>6. k \in Int
    <3>1. \A x, y \in Nat : Target(x, y, off, dir) \in Int
      <4>1. CASE dir = "beg" BY <4>1 DEF Target
      <4>2. CASE dir = "cur" BY <4>2 DEF Target
      <4>3. CASE dir = "end" BY <4>3 DEF Target
      <4> QED BY <4>1, <4>2, <4>3 DEF Directions
    <3> HIDE DEF k, t
    <3> QED BY <2>4, <2>5, <3>1
  <2>7. k <= Len(t) BY <2>1, <2>5
  <2> HIDE DEF t, k
  <2>8. k \in Nat /\ k <= MaxLen[o] BY <2>1, <2>4, <2>6, <2>7
  <2>9. Fits(t, MaxLen[o]) BY <2>4 DEF Fits
  <2>10. u = [blk |-> v.blk, up |-> v.up, objs |-> v.objs, saved |-> v.saved,
             fds |-> [v.fds EXCEPT ![fd] = [v.fds[fd] EXCEPT !.pos = k]]]
    BY <2>2, <2>3 DEF Server
  <2> HIDE DEF u
  <2>11. v.objs = [v.objs EXCEPT ![o] = t] BY <2>2, <2>3 DEF t, Sane, Stored
  <2>12. Moved(v, u, o, fd, t, k)
    <3>1. /\ u.blk = v.blk /\ u.up = v.up /\ u.saved = v.saved
          /\ u = [blk |-> u.blk, up |-> u.up, objs |-> u.objs, saved |-> u.saved, fds |-> u.fds]
          /\ u.objs = v.objs
          /\ u.fds = [v.fds EXCEPT ![fd] = [v.fds[fd] EXCEPT !.pos = k]]
      BY <2>10
    <3>2. u.objs = [v.objs EXCEPT ![o] = t] BY <2>11, <3>1
    <3> QED BY <2>1, <2>2, <2>3, <2>8, <2>9, <3>1, <3>2, MovedFacts
  <2>13. r.b = u /\ r.res = k BY <2>1 DEF Res
  <2> QED BY <2>1, <2>5, <2>8, <2>12, <2>13 DEF t
<1> QED BY <1>1, <1>2

----------------------------------------------------------------------------
(* The stream buffer: what it holds and what is stored, together.          *)

\* Calls on a have led from server v to u, and the access is now e.
Works(v, a, u, e) ==
  /\ Touches(v, u, a.id, a.fd) /\ SameAccess(a, e) /\ Areas(e)
  /\ (u.blk = "open" => Owns(u, e))

\* Nothing was done to the server.
LEMMA NothingTouches ==
  ASSUME NEW v, Sane(v), NEW o, NEW fd
  PROVE  Touches(v, v, o, fd)
BY DEF Touches

\* A call that was refused leaves a block that is not open.
LEMMA RefusedWorks ==
  ASSUME NEW v, NEW a, NEW u, NEW e, Refused(v, u, a.id, a.fd), SameAccess(a, e), Areas(e)
  PROVE  Works(v, a, u, e) /\ u.blk # "open"
BY DEF Refused, Works

\* A call that was not leaves the access with its descriptor.
LEMMA MovedWorks ==
  ASSUME NEW v, NEW a, Ready(v, a), v.blk = "open", NEW u, NEW t, NEW k,
         Moved(v, u, a.id, a.fd, t, k), NEW e, SameAccess(a, e), Areas(e),
         k <= Len(t), k + Len(e.p) <= MaxLen[a.id]
  PROVE  Works(v, a, u, e) /\ u.blk = "open" /\ u.objs[a.id] = t /\ u.fds[a.fd].pos = k
<1>1. Owns(v, a) BY DEF Ready
<1>2. Owns(u, e) BY <1>1 DEF Moved, Touches, Owns, SameAccess
<1> QED BY <1>2 DEF Works, Moved

\* The same, where nothing is called.
LEMMA StillWorks ==
  ASSUME NEW v, NEW a, Ready(v, a), NEW e, SameAccess(a, e), Areas(e),
         v.blk = "open" => Mark(v, e) <= MaxLen[a.id]
  PROVE  Works(v, a, v, e)
<1>1. Touches(v, v, a.id, a.fd) BY NothingTouches DEF Ready
<1>2. ASSUME v.blk = "open" PROVE Owns(v, e)
  <2>1. Owns(v, a) BY <1>2 DEF Ready
  <2> QED BY <1>2, <2>1 DEF Owns, SameAccess, Mark
<1> QED BY <1>1, <1>2 DEF Works

\* An area, changed on its own, leaves the others.
LEMMA SizedFacts ==
  ASSUME NEW a, Sized(a), NEW c
  PROVE  /\ Access(a) /\ SameAccess(a, a)
         /\ Fits(c, BufSize) /\ Writes(a.kind) =>
              LET e == [a EXCEPT !.p = c]
              IN  /\ Sized(e) /\ SameAccess(a, e) /\ e.p = c /\ e.g = a.g /\ e.gp = a.gp
                  /\ e.state = a.state
         /\ c \in 0..Len(a.g) =>
              LET e == [a EXCEPT !.gp = c]
              IN  /\ Sized(e) /\ SameAccess(a, e) /\ e.p = a.p /\ e.g = a.g /\ e.gp = c
                  /\ e.state = a.state
         /\ Fits(c, BufSize) /\ Reads(a.kind) =>
              LET e == [a EXCEPT !.g = c, !.gp = 0]
              IN  /\ Sized(e) /\ SameAccess(a, e) /\ e.p = a.p /\ e.g = c /\ e.gp = 0
                  /\ e.state = a.state
<1>1. Access(a) /\ SameAccess(a, a) BY DEF Sized, SameAccess
<1>2. /\ Len(a.g) \in Nat /\ (Fits(c, BufSize) => 0 \in 0..Len(c))
  BY TextFacts DEF Sized, Fits
<1>3. ASSUME Fits(c, BufSize), Writes(a.kind)
      PROVE  LET e == [a EXCEPT !.p = c]
             IN  /\ Sized(e) /\ SameAccess(a, e) /\ e.p = c /\ e.g = a.g /\ e.gp = a.gp
                 /\ e.state = a.state
  <2> DEFINE e == [a EXCEPT !.p = c]
  <2>1. e = [kind |-> a.kind, id |-> a.id, fd |-> a.fd, g |-> a.g, gp |-> a.gp, p |-> c,
             state |-> a.state]
    BY <1>1 DEF Access
  <2> HIDE DEF e
  <2>2. SameAccess(a, e) /\ e.p = c /\ e.g = a.g /\ e.gp = a.gp /\ e.state = a.state
    BY <2>1 DEF SameAccess, Access
  <2>3. Sized(e) BY <1>3, <2>2 DEF Sized, SameAccess
  <2> QED BY <2>2, <2>3 DEF e
<1>4. ASSUME c \in 0..Len(a.g)
      PROVE  LET e == [a EXCEPT !.gp = c]
             IN  /\ Sized(e) /\ SameAccess(a, e) /\ e.p = a.p /\ e.g = a.g /\ e.gp = c
                 /\ e.state = a.state
  <2> DEFINE e == [a EXCEPT !.gp = c]
  <2>1. e = [kind |-> a.kind, id |-> a.id, fd |-> a.fd, g |-> a.g, gp |-> c, p |-> a.p,
             state |-> a.state]
    BY <1>1 DEF Access
  <2> HIDE DEF e
  <2>2. SameAccess(a, e) /\ e.p = a.p /\ e.g = a.g /\ e.gp = c /\ e.state = a.state
    BY <2>1 DEF SameAccess, Access
  <2>3. Sized(e) BY <1>4, <2>2 DEF Sized, SameAccess
  <2> QED BY <2>2, <2>3 DEF e
<1>5. ASSUME Fits(c, BufSize), Reads(a.kind)
      PROVE  LET e == [a EXCEPT !.g = c, !.gp = 0]
             IN  /\ Sized(e) /\ SameAccess(a, e) /\ e.p = a.p /\ e.g = c /\ e.gp = 0
                 /\ e.state = a.state
  <2> DEFINE y == [a EXCEPT !.g = c]
             e == [a EXCEPT !.g = c, !.gp = 0]
  <2>1. y = [kind |-> a.kind, id |-> a.id, fd |-> a.fd, g |-> c, gp |-> a.gp, p |-> a.p,
             state |-> a.state]
    BY <1>1 DEF Access
  <2>2. e = [y EXCEPT !.gp = 0] BY <1>1 DEF Access
  <2> HIDE DEF y, e
  <2>3. e = [kind |-> a.kind, id |-> a.id, fd |-> a.fd, g |-> c, gp |-> 0, p |-> a.p,
             state |-> a.state]
    BY <2>1, <2>2
  <2>4. SameAccess(a, e) /\ e.p = a.p /\ e.g = c /\ e.gp = 0 /\ e.state = a.state
    BY <2>3 DEF SameAccess, Access
  <2>5. Sized(e) BY <1>2, <1>5, <2>4 DEF Sized, SameAccess
  <2> QED BY <2>4, <2>5 DEF e
<1> QED BY <1>1, <1>3, <1>4, <1>5

\* Nor does the iostate touch the areas.
LEMMA IostateFacts ==
  ASSUME NEW a, Sized(a), NEW c \in Iostates
  PROVE  LET e == [a EXCEPT !.state = c]
         IN  /\ Sized(e) /\ SameAccess(a, e) /\ e.p = a.p /\ e.g = a.g /\ e.gp = a.gp
             /\ e.state = c
<1> DEFINE e == [a EXCEPT !.state = c]
<1>1. e = [kind |-> a.kind, id |-> a.id, fd |-> a.fd, g |-> a.g, gp |-> a.gp, p |-> a.p,
           state |-> c]
  BY DEF Sized, Access
<1> HIDE DEF e
<1>2. SameAccess(a, e) /\ e.p = a.p /\ e.g = a.g /\ e.gp = a.gp /\ e.state = c
  BY <1>1 DEF SameAccess, Access
<1>3. Sized(e) BY <1>2 DEF Sized, SameAccess
<1> QED BY <1>2, <1>3 DEF e

\* The empty text and that of one character.
LEMMA ShortTexts ==
  /\ <<>> \in Seq(Char) /\ Len(<<>>) = 0 /\ Fits(<<>>, BufSize)
  /\ \A c \in Char : <<c>> \in Seq(Char) /\ Len(<<c>>) = 1 /\ Fits(<<c>>, BufSize)
                     /\ <<c>>[1] = c
<1>1. BufSize \in Nat /\ BufSize >= 1 BY ConstantsAssumption
<1>2. <<>> \in Seq(Char) /\ Len(<<>>) = 0 BY EmptySeq
<1>3. \A c \in Char : <<c>> \in Seq(Char) /\ Len(<<c>>) = 1 /\ <<c>>[1] = c OBVIOUS
<1> QED BY <1>1, <1>2, <1>3 DEF Fits

\* overflow(): what the put area held is in its place, or the call was refused.
LEMMA OverflowWorks ==
  ASSUME NEW v, NEW a, Ready(v, a), Sized(a), Writes(a.kind),
         NEW ch, Fits(ch, BufSize), ch = <<>> \/ Taken(a),
         v.blk = "open" => Mark(v, a) + Len(ch) <= MaxLen[a.id],
         NEW r \in overflow(v, a, ch)
  PROVE  /\ Works(v, a, r.b, r.a)
         /\ r.a.p = ch /\ r.a.g = a.g /\ r.a.gp = a.gp /\ r.a.state = a.state
         /\ v.blk = "open" /\ r.res # -1 => r.b.blk = "open"
         /\ r.b.blk = "open" =>
              /\ v.blk = "open" /\ r.b.objs[a.id] = Whole(v, a)
              /\ r.b.fds[a.fd].pos = Mark(v, a)
<1> DEFINE e == [a EXCEPT !.p = ch]
<1>1. /\ Sized(e) /\ SameAccess(a, e) /\ e.p = ch /\ e.g = a.g /\ e.gp = a.gp
      /\ e.state = a.state
  BY SizedFacts
<1>2. PICK q \in IF a.p = <<>> THEN {Res(v, 0)} ELSE cwrite(v, a, a.p) : r = Seen(q.b, e, q.res)
  BY DEF overflow
<1> HIDE DEF e
<1>3. r.b = q.b /\ r.a = e /\ r.res = q.res BY <1>2 DEF Seen
<1>4. Areas(e) BY <1>1 DEF Areas, Taken
<1>5. a.p \in Seq(Char) /\ Len(a.p) \in Nat BY TextFacts DEF Sized, Fits
<1>6. v.blk = "open" =>
        /\ Owns(v, a) /\ v.objs[a.id] \in Seq(Char) /\ Len(v.objs[a.id]) \in Nat
        /\ v.fds[a.fd].pos \in Nat /\ v.fds[a.fd].pos <= Len(v.objs[a.id])
        /\ Mark(v, a) \in Nat
  <2> SUFFICES ASSUME v.blk = "open"
               PROVE  /\ Owns(v, a) /\ v.objs[a.id] \in Seq(Char) /\ Len(v.objs[a.id]) \in Nat
                      /\ v.fds[a.fd].pos \in Nat /\ v.fds[a.fd].pos <= Len(v.objs[a.id])
                      /\ Mark(v, a) \in Nat
    OBVIOUS
  <2>1. Owns(v, a) /\ Sane(v) BY DEF Ready
  <2> QED BY <1>5, <2>1, OwnsFacts DEF Mark
<1>7. CASE a.p = <<>>
  <2>1. q.b = v /\ q.res = 0 BY <1>2, <1>7 DEF Res
  <2>2. Len(a.p) = 0 BY <1>7, EmptySeq
  <2>3. v.blk = "open" => Mark(v, e) <= MaxLen[a.id]
    <3> SUFFICES ASSUME v.blk = "open" PROVE Mark(v, e) <= MaxLen[a.id] OBVIOUS
    <3>1. Mark(v, a) = v.fds[a.fd].pos BY <1>6, <2>2 DEF Mark
    <3>2. Mark(v, e) = v.fds[a.fd].pos + Len(ch) BY <1>1 DEF Mark, SameAccess
    <3> QED BY <3>1, <3>2
  <2>4. Works(v, a, v, e) BY <1>1, <1>4, <2>3, StillWorks
  <2>5. v.blk = "open" => v.objs[a.id] = Whole(v, a) /\ v.fds[a.fd].pos = Mark(v, a)
    <3> SUFFICES ASSUME v.blk = "open"
                 PROVE  v.objs[a.id] = Whole(v, a) /\ v.fds[a.fd].pos = Mark(v, a)
      OBVIOUS
    <3>1. Place(v.objs[a.id], v.fds[a.fd].pos, <<>>) = v.objs[a.id] BY <1>6, PlaceNothing
    <3>2. Whole(v, a) = v.objs[a.id] BY <1>7, <3>1 DEF Whole
    <3> QED BY <1>6, <2>2, <3>2 DEF Mark
  <2> QED BY <1>1, <1>3, <2>1, <2>4, <2>5
<1>8. CASE a.p # <<>>
  <2>1. q \in lo_write(v, a.fd, a.p) BY <1>2, <1>8 DEF cwrite
  <2>2. v.blk = "open" => v.fds[a.fd].pos + Len(a.p) <= MaxLen[a.id] BY <1>6 DEF Owns
  <2>3. \/ q.res = -1 /\ Refused(v, q.b, a.id, a.fd)
        \/ /\ q.res = Len(a.p) /\ v.blk = "open"
           /\ Moved(v, q.b, a.id, a.fd, Whole(v, a), Mark(v, a))
    BY <1>5, <2>1, <2>2, WriteCall DEF Whole, Mark
  <2>4. CASE q.res = -1 /\ Refused(v, q.b, a.id, a.fd)
    <3>1. Works(v, a, q.b, e) /\ q.b.blk # "open" BY <1>1, <1>4, <2>4, RefusedWorks
    <3> QED BY <1>1, <1>3, <2>4, <3>1
  <2>5. CASE v.blk = "open" /\ Moved(v, q.b, a.id, a.fd, Whole(v, a), Mark(v, a))
    <3>1. Mark(v, a) <= Len(Whole(v, a))
      <4> DEFINE t == v.objs[a.id]
                 k == v.fds[a.fd].pos
                 p == a.p
      <4>1. t \in Seq(Char) /\ Len(t) \in Nat /\ k \in Nat /\ k <= Len(t) /\ p \in Seq(Char)
            /\ Len(p) \in Nat
        BY <1>5, <1>6, <2>5
      <4> HIDE DEF t, k, p
      <4>2. Len(Place(t, k, p)) = IF k + Len(p) <= Len(t) THEN Len(t) ELSE k + Len(p)
        BY <4>1, PlaceFacts
      <4>3. k + Len(p) <= Len(Place(t, k, p)) BY <4>1, <4>2
      <4> QED BY <4>3 DEF Whole, Mark, t, k, p
    <3>2. Mark(v, a) + Len(e.p) <= MaxLen[a.id] BY <1>1, <2>5
    <3>3. /\ Works(v, a, q.b, e) /\ q.b.blk = "open" /\ q.b.objs[a.id] = Whole(v, a)
          /\ q.b.fds[a.fd].pos = Mark(v, a)
      <4> DEFINE t == Whole(v, a)
                 k == Mark(v, a)
                 u == q.b
      <4>1. Moved(v, u, a.id, a.fd, t, k) /\ k <= Len(t) /\ k + Len(e.p) <= MaxLen[a.id]
        BY <2>5, <3>1, <3>2
      <4>2. v.blk = "open" /\ SameAccess(a, e) /\ Areas(e) BY <1>1, <1>4, <2>5
      <4> HIDE DEF t, k, u
      <4>3. Works(v, a, u, e) /\ u.blk = "open" /\ u.objs[a.id] = t /\ u.fds[a.fd].pos = k
        BY <4>1, <4>2, MovedWorks
      <4> QED BY <4>3 DEF t, k, u
    <3> QED BY <1>1, <1>3, <2>5, <3>3
  <2> QED BY <2>3, <2>4, <2>5
<1> QED BY <1>7, <1>8

\* What the descriptor is to hold does not depend on the get area.
LEMMA SamePlace ==
  ASSUME NEW v, NEW a, NEW e, SameAccess(a, e), e.p = a.p
  PROVE  /\ Ready(v, a) => Ready(v, e)
         /\ Owns(v, a) => Owns(v, e)
         /\ Whole(v, e) = Whole(v, a) /\ Mark(v, e) = Mark(v, a)
BY DEF Ready, Owns, Whole, Mark, SameAccess

\* With an empty put area the object is whole as it is.
LEMMA WholeAsIs ==
  ASSUME NEW v, Sane(v), NEW a, Owns(v, a), a.p = <<>>
  PROVE  Whole(v, a) = v.objs[a.id] /\ Mark(v, a) = v.fds[a.fd].pos
<1>1. /\ v.objs[a.id] \in Seq(Char) /\ v.fds[a.fd].pos \in Nat
      /\ v.fds[a.fd].pos <= Len(v.objs[a.id])
  BY OwnsFacts
<1>2. Place(v.objs[a.id], v.fds[a.fd].pos, <<>>) = v.objs[a.id] BY <1>1, PlaceNothing
<1>3. Len(<<>>) = 0 BY EmptySeq
<1> QED BY <1>1, <1>2, <1>3 DEF Whole, Mark

\* What fits in the object from where the put area ends.
LEMMA MarkFacts ==
  ASSUME NEW v, Sane(v), NEW a, Owns(v, a), Fits(a.p, BufSize)
  PROVE  /\ Mark(v, a) \in Nat /\ Mark(v, a) <= MaxLen[a.id]
         /\ Whole(v, a) \in Seq(Char) /\ Mark(v, a) <= Len(Whole(v, a))
         /\ Len(Whole(v, a)) <= MaxLen[a.id]
<1> DEFINE t == v.objs[a.id]
           k == v.fds[a.fd].pos
           p == a.p
<1>1. t \in Seq(Char) /\ Len(t) \in Nat /\ k \in Nat /\ k <= Len(t) /\ Len(t) <= MaxLen[a.id]
      /\ MaxLen[a.id] \in Nat
  BY OwnsFacts
<1>2. p \in Seq(Char) /\ Len(p) \in Nat BY TextFacts DEF Fits
<1>3. k + Len(p) <= MaxLen[a.id] BY DEF Owns
<1> HIDE DEF t, k, p
<1>4. /\ Place(t, k, p) \in Seq(Char)
      /\ Len(Place(t, k, p)) = IF k + Len(p) <= Len(t) THEN Len(t) ELSE k + Len(p)
  BY <1>1, <1>2, PlaceFacts
<1>5. /\ k + Len(p) \in Nat /\ k + Len(p) <= Len(Place(t, k, p))
      /\ Len(Place(t, k, p)) <= MaxLen[a.id]
  BY <1>1, <1>2, <1>3, <1>4
<1> QED BY <1>3, <1>4, <1>5 DEF Whole, Mark, t, k, p

\* sync(): the same as overflow() for the put area, and the get area starts over.
LEMMA SyncWorks ==
  ASSUME NEW v, NEW a, Ready(v, a), Sized(a), NEW r \in sync(v, a)
  PROVE  /\ Works(v, a, r.b, r.a)
         /\ r.a.p = <<>> /\ r.a.g = a.g /\ r.a.gp = 0 /\ r.a.state = a.state
         /\ v.blk = "open" /\ r.res # -1 => r.b.blk = "open"
         /\ r.b.blk = "open" =>
              /\ v.blk = "open" /\ r.b.objs[a.id] = Whole(v, a)
              /\ r.b.fds[a.fd].pos = Mark(v, a)
         /\ Reads(a.kind) /\ ~Writes(a.kind) => r.res = -1
<1> DEFINE e == [a EXCEPT !.gp = 0]
<1>1. Len(a.g) \in Nat /\ 0 \in 0..Len(a.g) BY TextFacts DEF Sized, Fits
<1>2. /\ Sized(e) /\ SameAccess(a, e) /\ e.p = a.p /\ e.g = a.g /\ e.gp = 0
      /\ e.state = a.state
  BY <1>1, SizedFacts
<1>3. r \in overflow(v, e, <<>>) BY DEF sync
<1> HIDE DEF e
<1>4. Ready(v, e) /\ Whole(v, e) = Whole(v, a) /\ Mark(v, e) = Mark(v, a) BY <1>2, SamePlace
<1>5. e.id = a.id /\ e.fd = a.fd /\ e.kind = a.kind BY <1>2 DEF SameAccess
<1>6. Len(<<>>) = 0 /\ Fits(<<>>, BufSize) BY ShortTexts
<1>7. v.blk = "open" =>
        /\ Owns(v, e) /\ Sane(v) /\ Mark(v, e) \in Nat /\ Mark(v, e) <= MaxLen[e.id]
  BY <1>2, <1>4, MarkFacts DEF Ready, Sized
<1>8. CASE Writes(a.kind)
  <2> DEFINE ch == <<>>
  <2>1. v.blk = "open" => Mark(v, e) + Len(ch) <= MaxLen[e.id] BY <1>6, <1>7
  <2>2. Fits(ch, BufSize) /\ r \in overflow(v, e, ch) /\ ch = <<>> BY <1>3, <1>6
  <2> HIDE DEF ch
  <2>3. /\ Works(v, e, r.b, r.a)
        /\ r.a.p = ch /\ r.a.g = e.g /\ r.a.gp = e.gp /\ r.a.state = e.state
        /\ v.blk = "open" /\ r.res # -1 => r.b.blk = "open"
        /\ r.b.blk = "open" =>
             /\ v.blk = "open" /\ r.b.objs[e.id] = Whole(v, e)
             /\ r.b.fds[e.fd].pos = Mark(v, e)
    BY <1>2, <1>4, <1>5, <1>8, <2>1, <2>2, OverflowWorks
  <2>4. Works(v, a, r.b, r.a) BY <1>5, <2>3 DEF Works, SameAccess
  <2> QED BY <1>2, <1>4, <1>5, <1>8, <2>2, <2>3, <2>4
<1>9. CASE ~Writes(a.kind)
  <2>1. r = Seen(v, e, EoF) BY <1>3, <1>5, <1>9 DEF overflow
  <2>2. r.b = v /\ r.a = e /\ r.res = -1 BY <2>1 DEF Seen, EoF
  <2>3. e.p = <<>> /\ a.p = <<>> /\ Areas(e) BY <1>2, <1>9 DEF Areas, Sized
  <2>4. Works(v, a, v, e) BY <1>2, <1>5, <1>7, <2>3, StillWorks
  <2>5. v.blk = "open" => v.objs[a.id] = Whole(v, a) /\ v.fds[a.fd].pos = Mark(v, a)
    BY <2>3, WholeAsIs DEF Ready
  <2> QED BY <1>2, <2>2, <2>3, <2>4, <2>5
<1> QED BY <1>8, <1>9

\* sputc(): the character comes to where the put area ends.
LEMMA PutWorks ==
  ASSUME NEW v, NEW a, Ready(v, a), Sized(a), Writes(a.kind), Taken(a), NEW c \in Char,
         v.blk = "open" => Mark(v, a) + 1 <= MaxLen[a.id],
         NEW r \in sputc(v, a, c)
  PROVE  /\ Works(v, a, r.b, r.a)
         /\ r.a.g = a.g /\ r.a.gp = a.gp /\ r.a.state = a.state
         /\ v.blk = "open" /\ r.res # -1 => r.b.blk = "open"
         /\ r.b.blk = "open" =>
              /\ v.blk = "open" /\ Whole(r.b, r.a) = Place(Whole(v, a), Mark(v, a), <<c>>)
              /\ Mark(r.b, r.a) = Mark(v, a) + 1
<1>1. <<c>> \in Seq(Char) /\ Len(<<c>>) = 1 /\ Fits(<<c>>, BufSize) BY ShortTexts
<1>2. a.p \in Seq(Char) /\ Len(a.p) \in Nat BY TextFacts DEF Sized, Fits
<1>3. v.blk = "open" =>
        /\ Owns(v, a) /\ Sane(v) /\ v.objs[a.id] \in Seq(Char) /\ Len(v.objs[a.id]) \in Nat
        /\ v.fds[a.fd].pos \in Nat /\ v.fds[a.fd].pos <= Len(v.objs[a.id])
        /\ Mark(v, a) \in Nat
  <2> SUFFICES ASSUME v.blk = "open"
               PROVE  /\ Owns(v, a) /\ Sane(v)
                      /\ v.objs[a.id] \in Seq(Char) /\ Len(v.objs[a.id]) \in Nat
                      /\ v.fds[a.fd].pos \in Nat /\ v.fds[a.fd].pos <= Len(v.objs[a.id])
                      /\ Mark(v, a) \in Nat
    OBVIOUS
  <2>1. Owns(v, a) /\ Sane(v) BY DEF Ready
  <2> QED BY <1>2, <2>1, OwnsFacts DEF Mark
<1>4. CASE Len(a.p) < BufSize
  <2> DEFINE p == Append(a.p, c)
             e == [a EXCEPT !.p = p]
  <2>1. r = Seen(v, e, 0) BY <1>4 DEF sputc
  <2>2. p \in Seq(Char) /\ Len(p) = Len(a.p) + 1 BY <1>2, AppendProperties
  <2>3. BufSize \in Nat BY ConstantsAssumption
  <2>4. p = a.p \o <<c>> BY <1>2, AppendIsConcat
  <2> HIDE DEF p
  <2>5. Fits(p, BufSize) BY <1>2, <1>4, <2>2, <2>3 DEF Fits
  <2>6. /\ Sized(e) /\ SameAccess(a, e) /\ e.p = p /\ e.g = a.g /\ e.gp = a.gp
        /\ e.state = a.state
    BY <2>5, SizedFacts
  <2> HIDE DEF e
  <2>7. r.b = v /\ r.a = e BY <2>1 DEF Seen
  <2>8. Areas(e) BY <2>6 DEF Areas, Taken
  <2>9. e.id = a.id /\ e.fd = a.fd BY <2>6 DEF SameAccess
  <2>10. v.blk = "open" => Mark(v, e) = Mark(v, a) + 1
    <3>1. Mark(v, e) = v.fds[a.fd].pos + Len(p) /\ Mark(v, a) = v.fds[a.fd].pos + Len(a.p)
      BY <2>6, <2>9 DEF Mark
    <3> SUFFICES ASSUME v.blk = "open" PROVE Mark(v, e) = Mark(v, a) + 1 OBVIOUS
    <3> DEFINE x == v.fds[a.fd].pos
               y == Len(a.p)
    <3>2. x \in Nat /\ y \in Nat BY <1>2, <1>3
    <3>3. Mark(v, e) = x + (y + 1) /\ Mark(v, a) = x + y BY <2>2, <3>1
    <3> HIDE DEF x, y
    <3> QED BY <3>2, <3>3
  <2>11. v.blk = "open" => Mark(v, e) <= MaxLen[a.id] BY <2>10
  <2>12. Works(v, a, v, e) BY <2>6, <2>8, <2>11, StillWorks
  <2>13. ASSUME v.blk = "open" PROVE Whole(v, e) = Place(Whole(v, a), Mark(v, a), <<c>>)
    <3> DEFINE t == v.objs[a.id]
               k == v.fds[a.fd].pos
               q == a.p
               s == <<c>>
    <3>1. /\ t \in Seq(Char) /\ k \in Nat /\ k <= Len(t) /\ q \in Seq(Char) /\ s \in Seq(Char)
          /\ p = q \o s
      BY <1>1, <1>2, <1>3, <2>4, <2>13
    <3> HIDE DEF t, k, q, s
    <3>2. Place(Place(t, k, q), k + Len(q), s) = Place(t, k, q \o s) BY <3>1, PlaceOn
    <3>3. Whole(v, e) = Place(t, k, p) BY <2>6, <2>9 DEF Whole, t, k
    <3>4. Whole(v, a) = Place(t, k, q) /\ Mark(v, a) = k + Len(q) BY DEF Whole, Mark, t, k, q
    <3> QED BY <3>1, <3>2, <3>3, <3>4 DEF s
  <2> QED BY <2>6, <2>7, <2>10, <2>12, <2>13
<1>5. CASE ~(Len(a.p) < BufSize)
  <2> DEFINE ch == <<c>>
  <2>1. Fits(ch, BufSize) /\ Len(ch) = 1 BY <1>1
  <2>7. r \in overflow(v, a, ch) BY <1>5 DEF sputc
  <2> HIDE DEF ch
  <2>5. v.blk = "open" => Mark(v, a) + Len(ch) <= MaxLen[a.id] BY <2>1
  <2>6. ch = <<>> \/ Taken(a) OBVIOUS
  <2>2. /\ Works(v, a, r.b, r.a)
        /\ r.a.p = ch /\ r.a.g = a.g /\ r.a.gp = a.gp /\ r.a.state = a.state
        /\ v.blk = "open" /\ r.res # -1 => r.b.blk = "open"
        /\ r.b.blk = "open" =>
             /\ v.blk = "open" /\ r.b.objs[a.id] = Whole(v, a)
             /\ r.b.fds[a.fd].pos = Mark(v, a)
    <3>1. Fits(ch, BufSize) BY <2>1
    <3> QED BY <2>5, <2>6, <2>7, <3>1, OverflowWorks
  <2>3. r.a.id = a.id /\ r.a.fd = a.fd BY <2>2 DEF Works, SameAccess
  <2>4. r.b.blk = "open" => /\ Whole(r.b, r.a) = Place(Whole(v, a), Mark(v, a), ch)
                            /\ Mark(r.b, r.a) = Mark(v, a) + 1
    <3>1. Whole(r.b, r.a) = Place(r.b.objs[a.id], r.b.fds[a.fd].pos, ch)
      BY <2>2, <2>3 DEF Whole
    <3>2. Mark(r.b, r.a) = r.b.fds[a.fd].pos + 1 BY <2>1, <2>2, <2>3 DEF Mark
    <3> QED BY <2>2, <3>1, <3>2
  <2> QED BY <2>2, <2>4 DEF ch
<1> QED BY <1>4, <1>5

\* Without a buffer, the object would be t and the access at k: what is read ahead is
\* the text from there to the descriptor.
Matches(v, a, k, t) ==
  /\ t = Whole(v, a) /\ k + (Len(a.g) - a.gp) = Mark(v, a)
  /\ \A i \in 1..Len(a.g) - a.gp : a.g[a.gp + i] = t[k + i]

\* underflow(): the get area holds what comes next, or nothing if the call was refused.
LEMMA UnderflowWorks ==
  ASSUME NEW v, NEW a, Ready(v, a), Sized(a), Reads(a.kind), a.p = <<>>,
         NEW r \in underflow(v, a)
  PROVE  /\ Works(v, a, r.b, r.a) /\ r.a.p = <<>> /\ r.a.gp = 0 /\ r.a.state = a.state
         /\ r.a.g \in Seq(Char) /\ r = Seen(r.b, r.a, r.res)
         /\ r.res = IF r.a.g = <<>> \/ r.a.g[1] = EofByte THEN EoF ELSE 0
         /\ r.b.blk # "open" => r.res = EoF
         /\ r.b.blk = "open" =>
              /\ v.blk = "open" /\ r.b.objs[a.id] = v.objs[a.id]
              /\ r.a.g = Ahead(v, a.fd, BufSize)
              /\ r.b.fds[a.fd].pos = v.fds[a.fd].pos + Len(r.a.g)
<1>1. PICK q \in cread(v, a, BufSize) :
        r = LET g == IF q.res < 0 THEN <<>> ELSE Ahead(v, a.fd, BufSize)
            IN Seen(q.b, [a EXCEPT !.g = g, !.gp = 0],
                    IF g = <<>> \/ g[1] = EofByte THEN EoF ELSE 0)
  BY DEF underflow
<1> DEFINE load == IF q.res < 0 THEN <<>> ELSE Ahead(v, a.fd, BufSize)
           e == [a EXCEPT !.g = load, !.gp = 0]
           x == IF load = <<>> \/ load[1] = EofByte THEN EoF ELSE 0
<1>2. r = Seen(q.b, e, x) BY <1>1
<1>3. BufSize \in Nat BY ConstantsAssumption
<1>4. \/ q.res = -1 /\ Refused(v, q.b, a.id, a.fd)
      \/ /\ v.blk = "open" /\ q.res = Len(Ahead(v, a.fd, BufSize))
         /\ Moved(v, q.b, a.id, a.fd, v.objs[a.id],
                  v.fds[a.fd].pos + Len(Ahead(v, a.fd, BufSize)))
  BY <1>1, <1>3, ReadCall DEF cread
<1>5. CASE q.res = -1 /\ Refused(v, q.b, a.id, a.fd)
  <2>1. load = <<>> BY <1>5
  <2> HIDE DEF load
  <2>2. Fits(load, BufSize) /\ load \in Seq(Char) BY <2>1, ShortTexts
  <2>3. /\ Sized(e) /\ SameAccess(a, e) /\ e.p = a.p /\ e.g = load /\ e.gp = 0
        /\ e.state = a.state
    BY <2>2, SizedFacts
  <2>4. x = EoF BY <2>1
  <2> HIDE DEF e, x
  <2>5. Areas(e) BY <2>3 DEF Areas
  <2>6. Works(v, a, q.b, e) /\ q.b.blk # "open" BY <1>5, <2>3, <2>5, RefusedWorks
  <2>7. r.b = q.b /\ r.a = e /\ r.res = x BY <1>2 DEF Seen
  <2> QED BY <1>2, <2>1, <2>2, <2>3, <2>4, <2>6, <2>7
<1>6. CASE /\ v.blk = "open" /\ q.res = Len(Ahead(v, a.fd, BufSize))
           /\ Moved(v, q.b, a.id, a.fd, v.objs[a.id],
                    v.fds[a.fd].pos + Len(Ahead(v, a.fd, BufSize)))
  <2> DEFINE t == v.objs[a.id]
             k == v.fds[a.fd].pos
             d == Ahead(v, a.fd, BufSize)
             j == k + Len(d)
             u == q.b
  <2>1. Owns(v, a) /\ Sane(v) BY <1>6 DEF Ready
  <2>2. /\ d \in Seq(Char) /\ Len(d) = IF k + BufSize <= Len(t) THEN BufSize ELSE Len(t) - k
    BY <1>3, <2>1, AheadFacts DEF Follows
  <2>3. /\ t \in Seq(Char) /\ Len(t) \in Nat /\ k \in Nat /\ k <= Len(t)
        /\ Len(t) <= MaxLen[a.id] /\ MaxLen[a.id] \in Nat
    BY <2>1, OwnsFacts
  <2> HIDE DEF t, k, d
  <2>4. Len(d) \in Nat /\ Len(d) <= BufSize BY <1>3, <2>2, <2>3
  <2>5. j \in Nat /\ j <= Len(t) /\ j <= MaxLen[a.id] BY <1>3, <2>2, <2>3
  <2>6. load = d BY <1>6, <2>4 DEF d
  <2> HIDE DEF load
  <2>7. Fits(load, BufSize) BY <2>2, <2>4, <2>6 DEF Fits
  <2>8. /\ Sized(e) /\ SameAccess(a, e) /\ e.p = a.p /\ e.g = load /\ e.gp = 0
        /\ e.state = a.state
    BY <2>7, SizedFacts
  <2>9. x = IF d = <<>> \/ d[1] = EofByte THEN EoF ELSE 0 BY <2>6
  <2>10. Moved(v, u, a.id, a.fd, t, j) BY <1>6 DEF t, k, d
  <2> HIDE DEF e, x, j, u
  <2>11. Areas(e) BY <2>8 DEF Areas
  <2>12. Len(e.p) = 0 BY <2>8, EmptySeq
  <2>13. j + Len(e.p) <= MaxLen[a.id] BY <2>5, <2>12
  <2>14. Works(v, a, u, e) /\ u.blk = "open" /\ u.objs[a.id] = t /\ u.fds[a.fd].pos = j
    <3>1. v.blk = "open" /\ SameAccess(a, e) /\ j <= Len(t) BY <1>6, <2>5, <2>8
    <3> QED BY <2>10, <2>11, <2>13, <3>1, MovedWorks
  <2>15. r.b = u /\ r.a = e /\ r.res = x BY <1>2 DEF Seen, u
  <2>16. r = Seen(r.b, r.a, r.res) BY <1>2, <2>15 DEF u
  <2> QED BY <1>6, <2>2, <2>6, <2>8, <2>9, <2>14, <2>15, <2>16 DEF t, k, d, j
<1> QED BY <1>4, <1>5, <1>6

\* sbumpc(): the next character, or the end, or the first of a load that looks like it.
LEMMA BumpWorks ==
  ASSUME NEW v, NEW a, Ready(v, a), Areas(a), Reads(a.kind), a.p = <<>>,
         NEW k \in Nat, NEW t, v.blk = "open" => Matches(v, a, k, t),
         NEW r \in sbumpc(v, a)
  PROVE  /\ Works(v, a, r.b, r.a) /\ r.a.state = a.state
         /\ r.b.blk = "open" =>
              /\ v.blk = "open"
              /\ \/ /\ r.res = EoF /\ Matches(r.b, r.a, k, t)
                    /\ k = Len(t) \/ (k < Len(t) /\ t[k + 1] = EofByte)
                 \/ /\ r.res # EoF /\ Matches(r.b, r.a, k + 1, t)
                    /\ k < Len(t) /\ r.a.g[r.a.gp] = t[k + 1]
<1>1. /\ Sized(a) /\ a.g \in Seq(Char) /\ Len(a.g) \in Nat /\ a.gp \in 0..Len(a.g)
      /\ Len(a.p) = 0 /\ Fits(a.p, BufSize)
  BY ShortTexts, TextFacts DEF Areas, Sized, Fits
<1>2. v.blk = "open" =>
        /\ Owns(v, a) /\ Sane(v) /\ Matches(v, a, k, t) /\ t = v.objs[a.id]
        /\ v.fds[a.fd].pos \in Nat /\ t \in Seq(Char) /\ Len(t) \in Nat
        /\ k + (Len(a.g) - a.gp) = v.fds[a.fd].pos /\ v.fds[a.fd].pos <= Len(t)
  <2> SUFFICES ASSUME v.blk = "open"
               PROVE  /\ Owns(v, a) /\ Sane(v) /\ Matches(v, a, k, t) /\ t = v.objs[a.id]
                      /\ v.fds[a.fd].pos \in Nat /\ t \in Seq(Char) /\ Len(t) \in Nat
                      /\ k + (Len(a.g) - a.gp) = v.fds[a.fd].pos /\ v.fds[a.fd].pos <= Len(t)
    OBVIOUS
  <2>1. Owns(v, a) /\ Sane(v) /\ Matches(v, a, k, t) BY DEF Ready
  <2>2. Whole(v, a) = v.objs[a.id] /\ Mark(v, a) = v.fds[a.fd].pos BY <2>1, WholeAsIs
  <2> QED BY <2>1, <2>2, OwnsFacts DEF Matches
<1>3. CASE a.gp < Len(a.g)
  <2> DEFINE e == [a EXCEPT !.gp = a.gp + 1]
  <2>1. r = Seen(v, e, 0) BY <1>3 DEF sbumpc
  <2>2. a.gp + 1 \in 0..Len(a.g) BY <1>1, <1>3
  <2>3. /\ Sized(e) /\ SameAccess(a, e) /\ e.p = a.p /\ e.g = a.g /\ e.gp = a.gp + 1
        /\ e.state = a.state
    BY <1>1, <2>2, SizedFacts
  <2> HIDE DEF e
  <2>4. r.b = v /\ r.a = e /\ r.res # EoF BY <2>1 DEF Seen, EoF
  <2>5. Areas(e) BY <2>3 DEF Areas
  <2>6. Whole(v, e) = Whole(v, a) /\ Mark(v, e) = Mark(v, a) BY <2>3, SamePlace
  <2>7. v.blk = "open" => Mark(v, a) <= MaxLen[a.id] BY <1>1, <1>2, MarkFacts
  <2>8. Works(v, a, v, e) BY <2>3, <2>5, <2>6, <2>7, StillWorks
  <2>9. ASSUME v.blk = "open"
        PROVE  Matches(v, e, k + 1, t) /\ k < Len(t) /\ e.g[e.gp] = t[k + 1]
    <3>1. Matches(v, a, k, t) BY <2>9
    <3>2. k < Len(t)
      <4> DEFINE x == Len(a.g)
                 y == a.gp
                 z == v.fds[a.fd].pos
      <4>1. x \in Nat /\ y \in Nat /\ y < x /\ z \in Nat /\ k + (x - y) = z /\ z <= Len(t)
            /\ Len(t) \in Nat
        BY <1>1, <1>2, <1>3, <2>9
      <4> HIDE DEF x, y, z
      <4> QED BY <4>1
    <3>3. k + 1 + (Len(e.g) - e.gp) = Mark(v, e)
      <4>1. k + (Len(a.g) - a.gp) = Mark(v, a) BY <3>1 DEF Matches
      <4>2. k + 1 + (Len(a.g) - (a.gp + 1)) = k + (Len(a.g) - a.gp)
        <5>1. \A x, y \in Nat : k + 1 + (x - (y + 1)) = k + (x - y) OBVIOUS
        <5>2. Len(a.g) \in Nat /\ a.gp \in Nat BY <1>1
        <5> QED BY <5>1, <5>2
      <4> QED BY <2>3, <2>6, <4>1, <4>2
    <3>4. \A i \in 1..Len(a.g) - a.gp : a.g[a.gp + i] = t[k + i] BY <3>1 DEF Matches
    <3>5. ASSUME NEW i \in 1..Len(e.g) - e.gp PROVE e.g[e.gp + i] = t[k + 1 + i]
      <4>1. i + 1 \in 1..Len(a.g) - a.gp BY <1>1, <2>3
      <4>2. a.g[a.gp + (i + 1)] = t[k + (i + 1)] BY <3>4, <4>1
      <4>3. a.gp + (i + 1) = e.gp + i /\ k + (i + 1) = k + 1 + i BY <1>1, <2>3
      <4> QED BY <2>3, <4>2, <4>3
    <3>6. a.g[a.gp + 1] = t[k + 1]
      <4>1. 1 \in 1..Len(a.g) - a.gp BY <1>1, <1>3
      <4> QED BY <3>4, <4>1
    <3>7. t = Whole(v, e) BY <2>6, <3>1 DEF Matches
    <3>8. Matches(v, e, k + 1, t) BY <3>3, <3>5, <3>7 DEF Matches
    <3> QED BY <2>3, <3>2, <3>6, <3>8
  <2> QED BY <2>3, <2>4, <2>8, <2>9
<1>4. CASE ~(a.gp < Len(a.g))
  <2>1. PICK q \in underflow(v, a) : r = IF q.res = EoF THEN q ELSE [q EXCEPT !.a.gp = 1]
    BY <1>4 DEF sbumpc
  <2>2. a.gp = Len(a.g) BY <1>1, <1>4
  <2>3. /\ Works(v, a, q.b, q.a) /\ q.a.p = <<>> /\ q.a.gp = 0 /\ q.a.state = a.state
        /\ q.a.g \in Seq(Char) /\ q = Seen(q.b, q.a, q.res)
        /\ q.res = IF q.a.g = <<>> \/ q.a.g[1] = EofByte THEN EoF ELSE 0
        /\ q.b.blk # "open" => q.res = EoF
        /\ q.b.blk = "open" =>
             /\ v.blk = "open" /\ q.b.objs[a.id] = v.objs[a.id]
             /\ q.a.g = Ahead(v, a.fd, BufSize)
             /\ q.b.fds[a.fd].pos = v.fds[a.fd].pos + Len(q.a.g)
    BY <1>1, UnderflowWorks
  <2> DEFINE g == q.a.g
  <2>4. Len(g) \in Nat BY <2>3, TextFacts
  <2>5. BufSize \in Nat \ {0} BY ConstantsAssumption
  <2>6. ASSUME q.b.blk = "open"
        PROVE  /\ v.fds[a.fd].pos = k
               /\ Len(g) = IF k + BufSize <= Len(t) THEN BufSize ELSE Len(t) - k
               /\ k <= Len(t) /\ \A i \in 1..Len(g) : g[i] = t[k + i]
               /\ Whole(q.b, q.a) = t /\ Mark(q.b, q.a) = k + Len(g)
    <3>1. v.blk = "open" /\ v.fds[a.fd].pos = k /\ t = v.objs[a.id] /\ k <= Len(t)
      BY <1>1, <1>2, <2>2, <2>3, <2>6
    <3>2. /\ Len(g) = IF k + BufSize <= Len(t) THEN BufSize ELSE Len(t) - k
          /\ \A i \in 1..Len(g) : g[i] = t[k + i]
      <4>1. Owns(v, a) /\ Sane(v) /\ BufSize \in Nat BY <1>2, <2>5, <3>1
      <4>2. Follows(Ahead(v, a.fd, BufSize), v.objs[a.id], v.fds[a.fd].pos, BufSize)
        BY <4>1, AheadFacts
      <4>3. g = Ahead(v, a.fd, BufSize) BY <2>3, <2>6
      <4> HIDE DEF g
      <4>4. Follows(g, t, k, BufSize) BY <3>1, <4>2, <4>3
      <4> QED BY <4>4 DEF Follows
    <3>3. Owns(q.b, q.a) /\ Sane(q.b) /\ q.a.id = a.id /\ q.a.fd = a.fd
      <4>1. Works(v, a, q.b, q.a) BY <2>3
      <4> QED BY <2>6, <4>1 DEF Works, Touches, SameAccess
    <3>4. Whole(q.b, q.a) = q.b.objs[q.a.id] /\ Mark(q.b, q.a) = q.b.fds[q.a.fd].pos
      BY <2>3, <3>3, WholeAsIs
    <3> QED BY <2>3, <2>6, <3>1, <3>2, <3>3, <3>4
  <2>7. CASE q.res = EoF
    <3>1. r = q BY <2>1, <2>7
    <3>2. ASSUME q.b.blk = "open"
          PROVE  /\ Matches(q.b, q.a, k, t)
                 /\ k = Len(t) \/ (k < Len(t) /\ t[k + 1] = EofByte)
      <4>1. k + (Len(g) - 0) = k + Len(g) /\ \A i \in 1..Len(g) - 0 : g[0 + i] = t[k + i]
        <5>1. Len(g) - 0 = Len(g) /\ \A i \in 1..Len(g) : 0 + i = i BY <2>4
        <5> HIDE DEF g
        <5> QED BY <2>6, <3>2, <5>1
      <4>2. Matches(q.b, q.a, k, t) BY <2>3, <2>6, <3>2, <4>1 DEF Matches
      <4>3. g = <<>> \/ g[1] = EofByte BY <2>3, <2>7 DEF EoF
      <4>4. CASE g = <<>>
        <5>1. Len(g) = 0 BY <4>4, EmptySeq
        <5>2. Len(t) \in Nat BY <1>2, <2>3, <3>2
        <5> HIDE DEF g
        <5>3. k = Len(t) BY <2>5, <2>6, <3>2, <5>1, <5>2
        <5> QED BY <4>2, <5>3
      <4>5. CASE g # <<>> /\ g[1] = EofByte
        <5>1. Len(g) # 0 BY <2>3, <4>5, EmptySeq
        <5>2. Len(t) \in Nat BY <1>2, <2>3, <3>2
        <5> HIDE DEF g
        <5>3. 1 \in 1..Len(g) BY <2>4, <5>1
        <5>4. g[1] = t[k + 1] BY <2>6, <3>2, <5>3
        <5>5. k < Len(t) BY <2>4, <2>5, <2>6, <3>2, <5>1, <5>2
        <5> QED BY <4>2, <4>5, <5>4, <5>5
      <4> QED BY <4>3, <4>4, <4>5
    <3> QED BY <2>3, <2>7, <3>1, <3>2
  <2>8. CASE q.res # EoF
    <3> DEFINE e == [q.a EXCEPT !.gp = 1]
    <3>1. r = Seen(q.b, e, q.res)
      <4>1. r = [q EXCEPT !.a.gp = 1] BY <2>1, <2>8
      <4>2. q = Seen(q.b, q.a, q.res) BY <2>3
      <4> QED BY <4>1, <4>2 DEF Seen
    <3>2. r.b = q.b /\ r.a = e /\ r.res = q.res BY <3>1 DEF Seen
    <3>3. g # <<>> /\ q.b.blk = "open" BY <2>3, <2>8
    <3>4. Len(g) # 0 BY <2>3, <3>3, EmptySeq
    <3>5. 1 \in 0..Len(g) /\ 1 \in 1..Len(g) BY <2>4, <3>4
    <3>6. Sized(q.a) BY <2>3 DEF Works, Areas
    <3>7. /\ Sized(e) /\ SameAccess(q.a, e) /\ e.p = q.a.p /\ e.g = g /\ e.gp = 1
          /\ e.state = q.a.state
      BY <3>5, <3>6, SizedFacts
    <3> HIDE DEF e
    <3>8. Areas(e) BY <2>3, <3>7 DEF Areas
    <3>9. Owns(q.b, e) /\ Whole(q.b, e) = Whole(q.b, q.a) /\ Mark(q.b, e) = Mark(q.b, q.a)
      BY <2>3, <3>3, <3>7, SamePlace DEF Works
    <3>10. Works(v, a, q.b, e) BY <2>3, <3>7, <3>8, <3>9 DEF Works, SameAccess
    <3> HIDE DEF g
    <3>11. Matches(q.b, e, k + 1, t)
      <4>1. k + 1 + (Len(g) - 1) = k + Len(g) BY <2>4
      <4>2. ASSUME NEW i \in 1..Len(g) - 1 PROVE g[1 + i] = t[k + 1 + i]
        <5>1. 1 + i \in 1..Len(g) /\ k + (1 + i) = k + 1 + i BY <2>4
        <5> QED BY <2>6, <3>3, <5>1
      <4> QED BY <2>6, <3>3, <3>7, <3>9, <4>1, <4>2 DEF Matches
    <3>12. g[1] = t[k + 1] BY <2>6, <3>3, <3>5
    <3>13. k < Len(t)
      <4>1. Len(t) \in Nat BY <1>2, <2>3, <3>3
      <4> QED BY <2>4, <2>5, <2>6, <3>3, <3>4, <4>1
    <3> QED BY <2>3, <2>8, <3>2, <3>3, <3>7, <3>10, <3>11, <3>12, <3>13
  <2> QED BY <2>7, <2>8
<1> QED BY <1>3, <1>4

----------------------------------------------------------------------------
(* seekoff(), and an access without a buffer.                              *)

\* With nothing read ahead and nothing left to write, the descriptor is where the
\* access would be without a buffer.
LEMMA MatchesFlat ==
  ASSUME NEW v, Sane(v), NEW a, Owns(v, a), Areas(a), a.p = <<>>, Taken(a), NEW k \in Nat, NEW t
  PROVE  Matches(v, a, k, t) <=> t = v.objs[a.id] /\ k = v.fds[a.fd].pos
<1>1. Whole(v, a) = v.objs[a.id] /\ Mark(v, a) = v.fds[a.fd].pos BY WholeAsIs
<1>2. Len(a.g) \in Nat /\ a.gp = Len(a.g) BY TextFacts DEF Areas, Sized, Fits, Taken
<1>3. Len(a.g) - a.gp = 0 /\ k + (Len(a.g) - a.gp) = k BY <1>2
<1>4. 1..Len(a.g) - a.gp = {} BY <1>3
<1> QED BY <1>1, <1>3, <1>4 DEF Matches

\* seekoff(): a descriptor without anything in the areas goes to its target.
LEMMA SeekWorks ==
  ASSUME NEW v, NEW a, Ready(v, a), Areas(a), a.p = <<>>, Taken(a), NEW k \in Nat, NEW t,
         NEW off \in Int, NEW dir \in Directions,
         v.blk = "open" => Matches(v, a, k, t) /\ Target(k, Len(t), off, dir) <= Len(t),
         NEW r \in seekoff(v, a, off, dir)
  PROVE  /\ r.a = a /\ Works(v, a, r.b, a)
         /\ \/ r.res = EoF /\ r.b.blk # "open"
            \/ /\ v.blk = "open" /\ r.b.blk = "open" /\ r.res \in Nat
               /\ r.res = Target(k, Len(t), off, dir) /\ r.res <= Len(t)
               /\ Matches(r.b, a, r.res, t)
<1>1. PICK q \in lo_lseek(v, a.fd, off, dir) : r = Seen(q.b, a, q.res)
  BY DEF seekoff, cseek
<1>2. r.b = q.b /\ r.a = a /\ r.res = q.res BY <1>1 DEF Seen
<1>3. v.blk = "open" => Owns(v, a) /\ Sane(v) /\ t = v.objs[a.id] /\ k = v.fds[a.fd].pos
  <2> SUFFICES ASSUME v.blk = "open"
               PROVE  Owns(v, a) /\ Sane(v) /\ t = v.objs[a.id] /\ k = v.fds[a.fd].pos
    OBVIOUS
  <2>1. Owns(v, a) /\ Sane(v) /\ Matches(v, a, k, t) BY DEF Ready
  <2> QED BY <2>1, MatchesFlat
<1>4. v.blk = "open" => Target(v.fds[a.fd].pos, Len(v.objs[a.id]), off, dir)
                          <= Len(v.objs[a.id])
  BY <1>3
<1>5. \/ q.res = -1 /\ Refused(v, q.b, a.id, a.fd)
      \/ /\ v.blk = "open" /\ q.res \in Nat
         /\ q.res = Target(v.fds[a.fd].pos, Len(v.objs[a.id]), off, dir)
         /\ Moved(v, q.b, a.id, a.fd, v.objs[a.id], q.res)
  BY <1>4, SeekCall
<1>6. SameAccess(a, a) BY SizedFacts DEF Areas
<1>7. CASE q.res = -1 /\ Refused(v, q.b, a.id, a.fd)
  BY <1>2, <1>6, <1>7, RefusedWorks DEF EoF
<1>8. CASE /\ v.blk = "open" /\ q.res \in Nat
           /\ q.res = Target(v.fds[a.fd].pos, Len(v.objs[a.id]), off, dir)
           /\ Moved(v, q.b, a.id, a.fd, v.objs[a.id], q.res)
  <2> DEFINE u == q.b
             j == q.res
  <2>1. Moved(v, u, a.id, a.fd, t, j) /\ j \in Nat /\ j = Target(k, Len(t), off, dir)
    BY <1>3, <1>8
  <2>2. v.blk = "open" /\ j <= Len(t) BY <1>8, <2>1
  <2>3. Len(t) <= MaxLen[a.id] /\ MaxLen[a.id] \in Nat /\ Len(t) \in Nat BY <1>3, <2>2, OwnsFacts
  <2>4. Len(a.p) = 0 BY EmptySeq
  <2> HIDE DEF u, j
  <2>5. j + Len(a.p) <= MaxLen[a.id] BY <2>1, <2>2, <2>3, <2>4
  <2>6. Works(v, a, u, a) /\ u.blk = "open" /\ u.objs[a.id] = t /\ u.fds[a.fd].pos = j
    <3>1. Owns(v, a) BY <1>3, <2>2
    <3>2. Owns(u, a) BY <2>1, <2>2, <2>5, <3>1 DEF Moved, Touches, Owns
    <3> QED BY <1>6, <2>1, <3>2 DEF Works, Moved
  <2>7. Sane(u) /\ Owns(u, a) BY <2>6 DEF Works, Touches
  <2>8. Matches(u, a, j, t) BY <2>1, <2>6, <2>7, MatchesFlat
  <2> QED BY <1>2, <2>1, <2>2, <2>6, <2>8 DEF u, j
<1> QED BY <1>5, <1>7, <1>8

\* write() of an access: all of the text is in its place, or the call was refused.
LEMMA AccessWrites ==
  ASSUME NEW v, NEW a, Ready(v, a), Areas(a), a.p = <<>>, Taken(a), NEW k \in Nat, NEW t,
         NEW data \in Seq(Char),
         v.blk = "open" => Matches(v, a, k, t) /\ k + Len(data) <= MaxLen[a.id],
         NEW r \in cwrite(v, a, data)
  PROVE  /\ Works(v, a, r.b, a)
         /\ \/ r.res = -1 /\ r.b.blk # "open"
            \/ /\ v.blk = "open" /\ r.b.blk = "open" /\ r.res = Len(data)
               /\ Matches(r.b, a, k + Len(data), Place(t, k, data))
<1>1. v.blk = "open" => /\ Owns(v, a) /\ Sane(v) /\ t = v.objs[a.id] /\ k = v.fds[a.fd].pos
                        /\ k + Len(data) <= MaxLen[a.id]
  <2> SUFFICES ASSUME v.blk = "open"
               PROVE  /\ Owns(v, a) /\ Sane(v) /\ t = v.objs[a.id] /\ k = v.fds[a.fd].pos
                      /\ k + Len(data) <= MaxLen[a.id]
    OBVIOUS
  <2>1. Owns(v, a) /\ Sane(v) /\ Matches(v, a, k, t) BY DEF Ready
  <2> QED BY <2>1, MatchesFlat
<1>2. v.blk = "open" => v.fds[a.fd].pos + Len(data) <= MaxLen[a.id] BY <1>1
<1>3. r \in lo_write(v, a.fd, data) BY DEF cwrite
<1>4. \/ r.res = -1 /\ Refused(v, r.b, a.id, a.fd)
      \/ /\ r.res = Len(data) /\ v.blk = "open"
         /\ Moved(v, r.b, a.id, a.fd, Place(v.objs[a.id], v.fds[a.fd].pos, data),
                  v.fds[a.fd].pos + Len(data))
  BY <1>2, <1>3, WriteCall
<1>5. SameAccess(a, a) BY SizedFacts DEF Areas
<1>6. CASE r.res = -1 /\ Refused(v, r.b, a.id, a.fd)
  BY <1>5, <1>6, RefusedWorks
<1>7. CASE /\ r.res = Len(data) /\ v.blk = "open"
           /\ Moved(v, r.b, a.id, a.fd, Place(v.objs[a.id], v.fds[a.fd].pos, data),
                    v.fds[a.fd].pos + Len(data))
  <2> DEFINE z == Place(t, k, data)
             j == k + Len(data)
             u == r.b
  <2>1. Moved(v, u, a.id, a.fd, z, j) BY <1>1, <1>7
  <2>2. t \in Seq(Char) /\ Len(t) \in Nat /\ k <= Len(t) /\ MaxLen[a.id] \in Nat
    BY <1>1, <1>7, OwnsFacts
  <2>3. Len(data) \in Nat /\ Len(a.p) = 0 BY TextFacts, EmptySeq
  <2>4. Len(z) = IF k + Len(data) <= Len(t) THEN Len(t) ELSE k + Len(data) BY <2>2, PlaceFacts
  <2>5. j \in Nat /\ j <= Len(z) /\ j <= MaxLen[a.id] BY <1>1, <1>7, <2>2, <2>3, <2>4
  <2> HIDE DEF z, j, u
  <2>6. j + Len(a.p) <= MaxLen[a.id] /\ v.blk = "open" BY <1>7, <2>2, <2>3, <2>5
  <2>7. Works(v, a, u, a) /\ u.blk = "open" /\ u.objs[a.id] = z /\ u.fds[a.fd].pos = j
    BY <1>5, <2>1, <2>5, <2>6, MovedWorks
  <2>8. Sane(u) /\ Owns(u, a) BY <2>7 DEF Works, Touches
  <2>9. Matches(u, a, j, z) BY <2>5, <2>7, <2>8, MatchesFlat
  <2> QED BY <1>7, <2>7, <2>9 DEF u, j, z
<1> QED BY <1>4, <1>6, <1>7

\* read() of an access: the text from its position on, or the call was refused.
LEMMA AccessReads ==
  ASSUME NEW v, NEW a, Ready(v, a), Areas(a), a.p = <<>>, Taken(a), NEW k \in Nat, NEW t,
         NEW n \in Nat, v.blk = "open" => Matches(v, a, k, t),
         NEW r \in cread(v, a, n)
  PROVE  /\ Works(v, a, r.b, a)
         /\ \/ r.res = -1 /\ r.b.blk # "open"
            \/ /\ v.blk = "open" /\ r.b.blk = "open" /\ r.res \in Nat
               /\ Follows(Ahead(v, a.fd, n), t, k, n) /\ k <= Len(t) /\ Len(t) \in Nat
               /\ k + Len(Ahead(v, a.fd, n)) \in Nat /\ k + Len(Ahead(v, a.fd, n)) <= Len(t)
               /\ Matches(r.b, a, k + Len(Ahead(v, a.fd, n)), t)
<1>1. v.blk = "open" => Owns(v, a) /\ Sane(v) /\ t = v.objs[a.id] /\ k = v.fds[a.fd].pos
  <2> SUFFICES ASSUME v.blk = "open"
               PROVE  Owns(v, a) /\ Sane(v) /\ t = v.objs[a.id] /\ k = v.fds[a.fd].pos
    OBVIOUS
  <2>1. Owns(v, a) /\ Sane(v) /\ Matches(v, a, k, t) BY DEF Ready
  <2> QED BY <2>1, MatchesFlat
<1>2. r \in lo_read(v, a.fd, n) BY DEF cread
<1>3. \/ r.res = -1 /\ Refused(v, r.b, a.id, a.fd)
      \/ /\ v.blk = "open" /\ r.res = Len(Ahead(v, a.fd, n))
         /\ Moved(v, r.b, a.id, a.fd, v.objs[a.id],
                  v.fds[a.fd].pos + Len(Ahead(v, a.fd, n)))
  BY <1>2, ReadCall
<1>4. SameAccess(a, a) BY SizedFacts DEF Areas
<1>5. CASE r.res = -1 /\ Refused(v, r.b, a.id, a.fd)
  BY <1>4, <1>5, RefusedWorks
<1>6. CASE /\ v.blk = "open" /\ r.res = Len(Ahead(v, a.fd, n))
           /\ Moved(v, r.b, a.id, a.fd, v.objs[a.id],
                    v.fds[a.fd].pos + Len(Ahead(v, a.fd, n)))
  <2> DEFINE d == Ahead(v, a.fd, n)
             j == k + Len(d)
             u == r.b
  <2>1. Moved(v, u, a.id, a.fd, t, j) BY <1>1, <1>6
  <2>2. /\ t \in Seq(Char) /\ Len(t) \in Nat /\ k <= Len(t) /\ MaxLen[a.id] \in Nat
        /\ Len(t) <= MaxLen[a.id]
    BY <1>1, <1>6, OwnsFacts
  <2>3. Follows(d, t, k, n) BY <1>1, <1>6, AheadFacts
  <2> HIDE DEF d
  <2>4. Len(d) = IF k + n <= Len(t) THEN n ELSE Len(t) - k BY <2>3 DEF Follows
  <2>5. j \in Nat /\ j <= Len(t) /\ j <= MaxLen[a.id] /\ Len(d) \in Nat BY <2>2, <2>4
  <2>6. Len(a.p) = 0 BY EmptySeq
  <2> HIDE DEF j, u
  <2>7. j + Len(a.p) <= MaxLen[a.id] /\ v.blk = "open" BY <1>6, <2>2, <2>5, <2>6
  <2>8. Works(v, a, u, a) /\ u.blk = "open" /\ u.objs[a.id] = t /\ u.fds[a.fd].pos = j
    BY <1>4, <2>1, <2>5, <2>7, MovedWorks
  <2>9. Sane(u) /\ Owns(u, a) BY <2>8 DEF Works, Touches
  <2>10. Matches(u, a, j, t) BY <2>5, <2>8, <2>9, MatchesFlat
  <2>11. Len(d) = r.res /\ r.res \in Nat BY <1>6, <2>5 DEF d
  <2>12. /\ Works(v, a, r.b, a) /\ r.b.blk = "open" /\ v.blk = "open"
         /\ k + Len(d) \in Nat /\ k + Len(d) <= Len(t) /\ Matches(r.b, a, k + Len(d), t)
    BY <2>5, <2>7, <2>8, <2>10 DEF u, j
  <2>13. /\ Works(v, a, r.b, a) /\ v.blk = "open" /\ r.b.blk = "open" /\ r.res \in Nat
         /\ Follows(d, t, k, n) /\ k <= Len(t) /\ Len(t) \in Nat
         /\ k + Len(d) \in Nat /\ k + Len(d) <= Len(t) /\ Matches(r.b, a, k + Len(d), t)
    BY <2>2, <2>3, <2>11, <2>12
  <2> QED BY <2>13 DEF d
<1> QED BY <1>3, <1>5, <1>6

\* The iostate does not matter for what is stored and read.
LEMMA StateWorks ==
  ASSUME NEW v, NEW a, NEW u, NEW e, Works(v, a, u, e), NEW c \in Iostates
  PROVE  LET f == [e EXCEPT !.state = c]
         IN  /\ Works(v, a, u, f) /\ f.state = c
             /\ f.g = e.g /\ f.gp = e.gp /\ f.p = e.p
             /\ Whole(u, f) = Whole(u, e) /\ Mark(u, f) = Mark(u, e)
<1> DEFINE f == [e EXCEPT !.state = c]
<1>1. Areas(e) /\ Sized(e) BY DEF Works, Areas
<1>2. Sized(f) /\ SameAccess(e, f) /\ f.p = e.p /\ f.g = e.g /\ f.gp = e.gp /\ f.state = c
  BY <1>1, IostateFacts
<1> HIDE DEF f
<1>3. Areas(f) BY <1>1, <1>2 DEF Areas, Taken
<1>4. Owns(u, e) => Owns(u, f) BY <1>2, SamePlace
<1>5. Whole(u, f) = Whole(u, e) /\ Mark(u, f) = Mark(u, e) BY <1>2, SamePlace
<1>6. Works(v, a, u, f) BY <1>2, <1>3, <1>4 DEF Works, SameAccess
<1> QED BY <1>2, <1>5, <1>6 DEF f

----------------------------------------------------------------------------
(* The inductive invariant, and a step of one access.                      *)

\* The accesses and streams that the client has.
Live == {h \in Handle : acc[h].kind # "none"}

\* The client has not been told of a failure: the objects without a buffer are known.
Exact == Active /\ ~told /\ ~silent

\* An access of one of the kinds, or none.
Proper(a, kinds) ==
  /\ Areas(a) /\ a.kind \in {"none"} \cup kinds
  /\ a.kind = "none" => a.state = "good"

\* Every part of the state is in order by itself.
PartsInOrder ==
  /\ Sane(b) /\ Stored(ideal) /\ Fits(file, MaxFile)
  /\ acc = [h \in Handle |-> acc[h]]
  /\ \A h \in Handle : Proper(acc[h], Kinds[h])
  /\ at \in [Handle -> Nat] /\ told \in BOOLEAN /\ silent \in BOOLEAN
  /\ tx \in {"none", "active", "dead"} /\ begun \in 0..MaxBegin

\* Between transactions nobody has an access, and after them the objects are as wanted.
IdleInOrder ==
  /\ tx # "active" => b.blk = "none" /\ Live = {}
  /\ tx = "none" => b.objs = ideal

\* In an open block every access has an object and a descriptor of its own.
AccessesApart ==
  /\ silent => b.blk # "open"
  /\ Sound => b.blk = "open"
  /\ \A h, i \in Live : h # i => acc[h].id # acc[i].id
  /\ b.blk = "open" =>
       /\ \A h \in Live : Owns(b, acc[h])
       /\ \A h, i \in Live : h # i => acc[h].fd # acc[i].fd

\* Where each access would be without a buffer, and what its object would hold.
ContentsKnown ==
  /\ Exact => \A h \in Live : acc[h].id \in DOMAIN ideal /\ at[h] <= Len(ideal[acc[h].id])
  /\ Sound =>
       /\ DOMAIN b.objs = DOMAIN ideal
       /\ \A h \in Live : Matches(b, acc[h], at[h], ideal[acc[h].id])
       /\ \A o \in DOMAIN b.objs : ~Shared(o) => b.objs[o] = ideal[o]

ContentsInv == PartsInOrder /\ IdleInOrder /\ AccessesApart /\ ContentsKnown

\* What would be without a buffer, after calls on h that have led to u and e.
Wanted(h, u, e, k, want) ==
  /\ Stored(want) /\ DOMAIN want = DOMAIN ideal
  /\ \A o \in DOMAIN ideal \ {acc[h].id} : want[o] = ideal[o]
  /\ acc[h].id \in DOMAIN want /\ k <= Len(want[acc[h].id])
  /\ b.up => Matches(u, e, k, want[acc[h].id])

\* Another access is not affected by calls on h.
LEMMA OthersMatch ==
  ASSUME NEW v, NEW u, NEW o, NEW fd, Touches(v, u, o, fd), NEW a, a.id # o, a.fd # fd,
         Owns(v, a)
  PROVE  /\ Owns(u, a) /\ Whole(u, a) = Whole(v, a) /\ Mark(u, a) = Mark(v, a)
<1>1. u.objs[a.id] = v.objs[a.id] /\ a.id \in DOMAIN u.objs BY DEF Touches, Owns
<1>2. u.fds[a.fd] = v.fds[a.fd] /\ a.fd \in DOMAIN u.fds BY DEF Touches, Owns
<1> QED BY <1>1, <1>2 DEF Owns, Whole, Mark

\* Calls of the client on its access h keep everything in order, if what they tell it
\* is right.
LEMMA StepContents ==
  ASSUME ContentsInv, NEW h \in Live, NEW u, NEW e, Works(b, acc[h], u, e),
         NEW failed \in BOOLEAN, NEW want, Called(u, failed, FALSE, want),
         acc' = [acc EXCEPT ![h] = e], NEW k \in Nat, at' = [at EXCEPT ![h] = k],
         file' = file,
         b.blk = "open" /\ ~failed => u.blk = "open",
         ~told /\ ~silent /\ ~failed => Wanted(h, u, e, k, want)
  PROVE  ContentsInv'
<1>1. h \in Handle /\ acc[h].kind # "none" BY DEF Live
<1>2. /\ b' = u /\ tx' = tx /\ begun' = begun /\ told' = (told \/ failed) /\ silent' = silent
      /\ ideal' = IF told' \/ silent' THEN u.objs ELSE want
  BY DEF Called, ContentsInv, PartsInOrder
<1>3. /\ acc'[h] = e /\ \A i \in Handle \ {h} : acc'[i] = acc[i]
      /\ acc' = [i \in Handle |-> acc'[i]]
  BY <1>1 DEF ContentsInv, PartsInOrder
<1>4. /\ at'[h] = k /\ (\A i \in Handle \ {h} : at'[i] = at[i]) /\ at' \in [Handle -> Nat]
  BY <1>1 DEF ContentsInv, PartsInOrder
<1>5. /\ e.kind = acc[h].kind /\ e.id = acc[h].id /\ e.fd = acc[h].fd /\ Areas(e)
      /\ Touches(b, u, acc[h].id, acc[h].fd) /\ Sane(u) /\ u.up = b.up
      /\ (u.blk = "open" => Owns(u, e) /\ b.blk = "open")
  BY DEF Works, SameAccess, Touches
<1>6. Live' = Live BY <1>1, <1>3, <1>5 DEF Live
<1>7. \A i \in Handle : acc'[i].id = acc[i].id /\ acc'[i].fd = acc[i].fd
                        /\ acc'[i].kind = acc[i].kind
  BY <1>3, <1>5
<1>8. tx = "active" /\ Active BY DEF ContentsInv, IdleInOrder, Active
<1>9. PartsInOrder'
  <2>1. Stored(ideal')
    <3>1. Stored(u.objs) BY <1>5 DEF Sane
    <3>2. ~told' /\ ~silent' => Stored(want) BY <1>2 DEF Wanted
    <3> QED BY <1>2, <3>1, <3>2
  <2>2. \A i \in Handle : Proper(acc'[i], Kinds[i])
    <3>1. \A i \in Handle : Proper(acc[i], Kinds[i]) BY DEF ContentsInv, PartsInOrder
    <3>2. Proper(e, Kinds[h]) BY <1>1, <1>5, <3>1 DEF Proper
    <3> QED BY <1>3, <3>1, <3>2
  <2>3. Sane(b') /\ Fits(file', MaxFile) BY <1>2, <1>5 DEF ContentsInv, PartsInOrder
  <2>4. told' \in BOOLEAN /\ silent' \in BOOLEAN BY <1>2 DEF ContentsInv, PartsInOrder
  <2> QED BY <1>2, <1>3, <1>4, <2>1, <2>2, <2>3, <2>4 DEF ContentsInv, PartsInOrder
<1>10. IdleInOrder' BY <1>2, <1>8 DEF IdleInOrder
<1>11. Sound' => Sound /\ ~failed /\ Exact /\ b.up BY <1>2, <1>5, <1>8 DEF Sound, Active, Exact
<1>12. Exact' => Exact /\ ~failed BY <1>2, <1>8 DEF Exact
<1>13. b'.blk = "open" => b.blk = "open" BY <1>2, <1>5
<1>14. \A i \in Live \ {h} : i \in Handle /\ acc[i].id # acc[h].id
  BY DEF ContentsInv, AccessesApart, Live
<1>15. b.blk = "open" => \A i \in Live : Owns(b, acc[i]) /\ (i # h => acc[i].fd # acc[h].fd)
  BY DEF ContentsInv, AccessesApart
<1>16. b.blk = "open" => \A i \in Live \ {h} : /\ Owns(u, acc[i])
                                               /\ Whole(u, acc[i]) = Whole(b, acc[i])
                                               /\ Mark(u, acc[i]) = Mark(b, acc[i])
  BY <1>5, <1>14, <1>15, OthersMatch
<1>17. AccessesApart'
  <2>1. silent' => b'.blk # "open" BY <1>2, <1>13 DEF ContentsInv, AccessesApart
  <2>2. Sound' => b'.blk = "open" BY <1>2, <1>11 DEF ContentsInv, AccessesApart
  <2>3. \A i, j \in Live' : i # j => acc'[i].id # acc'[j].id
    BY <1>6, <1>7 DEF ContentsInv, AccessesApart, Live
  <2>4. b'.blk = "open" => \A i, j \in Live' : i # j => acc'[i].fd # acc'[j].fd
    BY <1>6, <1>7, <1>13 DEF ContentsInv, AccessesApart, Live
  <2>5. b'.blk = "open" => \A i \in Live' : Owns(b', acc'[i])
    BY <1>2, <1>3, <1>5, <1>6, <1>14, <1>16
  <2> QED BY <2>1, <2>2, <2>3, <2>4, <2>5 DEF AccessesApart
<1>18. ASSUME Exact'
       PROVE  /\ ideal' = want /\ Wanted(h, u, e, k, want)
              /\ \A i \in Live' : acc'[i].id \in DOMAIN ideal' /\ at'[i] <= Len(ideal'[acc'[i].id])
  <2>1. Exact /\ ~failed /\ ideal' = want /\ Wanted(h, u, e, k, want)
    BY <1>2, <1>12, <1>18 DEF Exact
  <2>2. ASSUME NEW i \in Live'
        PROVE  acc'[i].id \in DOMAIN ideal' /\ at'[i] <= Len(ideal'[acc'[i].id])
    <3>1. CASE i = h
      BY <1>3, <1>4, <1>5, <2>1, <3>1 DEF Wanted
    <3>2. CASE i # h
      <4>1. i \in Handle /\ acc[i].id # acc[h].id /\ i \in Live BY <1>6, <1>14, <3>2
      <4>2. acc[i].id \in DOMAIN ideal /\ at[i] <= Len(ideal[acc[i].id])
        BY <2>1, <4>1 DEF ContentsInv, ContentsKnown
      <4> QED BY <1>3, <1>4, <2>1, <3>2, <4>1, <4>2 DEF Wanted
    <3> QED BY <3>1, <3>2
  <2> QED BY <2>1, <2>2
<1>19. ASSUME Sound'
       PROVE  /\ DOMAIN b'.objs = DOMAIN ideal'
              /\ \A i \in Live' : Matches(b', acc'[i], at'[i], ideal'[acc'[i].id])
              /\ \A o \in DOMAIN b'.objs : ~Shared(o)' => b'.objs[o] = ideal'[o]
  <2>1. Sound /\ Exact' /\ b.up /\ b.blk = "open"
    BY <1>11, <1>19 DEF Sound, Exact, ContentsInv, AccessesApart
  <2>2. ideal' = want /\ Wanted(h, u, e, k, want) BY <1>18, <2>1
  <2>3. /\ DOMAIN b.objs = DOMAIN ideal
        /\ \A i \in Live : Matches(b, acc[i], at[i], ideal[acc[i].id])
        /\ \A o \in DOMAIN b.objs : ~Shared(o) => b.objs[o] = ideal[o]
    BY <2>1 DEF ContentsInv, ContentsKnown
  <2>4. DOMAIN b'.objs = DOMAIN ideal' BY <1>2, <1>5, <2>2, <2>3 DEF Touches, Wanted
  <2>5. ASSUME NEW i \in Live'
        PROVE  Matches(b', acc'[i], at'[i], ideal'[acc'[i].id])
    <3>1. CASE i = h
      BY <1>2, <1>3, <1>4, <1>5, <2>1, <2>2, <3>1 DEF Wanted
    <3>2. CASE i # h
      <4>1. i \in Handle /\ acc[i].id # acc[h].id /\ i \in Live BY <1>6, <1>14, <3>2
      <4>2. Matches(b, acc[i], at[i], ideal[acc[i].id]) BY <2>3, <4>1
      <4>3. Whole(u, acc[i]) = Whole(b, acc[i]) /\ Mark(u, acc[i]) = Mark(b, acc[i])
        BY <1>16, <2>1, <3>2, <4>1
      <4>4. Matches(u, acc[i], at[i], ideal[acc[i].id]) BY <4>2, <4>3 DEF Matches
      <4>5. want[acc[i].id] = ideal[acc[i].id]
        <5>1. acc[i].id \in DOMAIN ideal BY <2>1, <1>12, <4>1 DEF ContentsInv, ContentsKnown
        <5> QED BY <2>2, <4>1, <5>1 DEF Wanted
      <4> QED BY <1>2, <1>3, <1>4, <2>2, <3>2, <4>1, <4>4, <4>5
    <3> QED BY <3>1, <3>2
  <2>6. ASSUME NEW o \in DOMAIN b'.objs, ~Shared(o)' PROVE b'.objs[o] = ideal'[o]
    <3>1. ~Shared(o) /\ o # acc[h].id BY <1>1, <1>7, <2>6 DEF Shared
    <3>2. o \in DOMAIN b.objs /\ u.objs[o] = b.objs[o] BY <1>2, <1>5, <3>1 DEF Touches
    <3>3. want[o] = ideal[o] BY <2>2, <2>3, <3>1, <3>2 DEF Wanted
    <3> QED BY <1>2, <2>2, <2>3, <3>1, <3>2, <3>3
  <2> QED BY <2>4, <2>5, <2>6
<1>20. ContentsKnown' BY <1>18, <1>19 DEF ContentsKnown
<1> QED BY <1>9, <1>10, <1>17, <1>20 DEF ContentsInv

----------------------------------------------------------------------------
(* Writing to a stream, and bringing it up to date.                        *)

\* What is known of an access that the client has.
LEMMA LiveFacts ==
  ASSUME ContentsInv, NEW h \in Live
  PROVE  /\ h \in Handle /\ acc[h].kind # "none" /\ Active
         /\ Ready(b, acc[h]) /\ Areas(acc[h]) /\ Sized(acc[h]) /\ at[h] \in Nat
         /\ Exact => /\ acc[h].id \in DOMAIN ideal /\ ideal[acc[h].id] \in Seq(Char)
                     /\ Len(ideal[acc[h].id]) \in Nat
                     /\ Len(ideal[acc[h].id]) <= MaxLen[acc[h].id]
                     /\ MaxLen[acc[h].id] \in Nat /\ at[h] <= Len(ideal[acc[h].id])
         /\ Exact /\ b.up => Sound
         /\ Sound => b.blk = "open" /\ Exact /\ Matches(b, acc[h], at[h], ideal[acc[h].id])
         /\ ~told /\ b.blk = "open" => Sound
<1>1. h \in Handle /\ acc[h].kind # "none" BY DEF Live
<1>2. Active BY DEF ContentsInv, IdleInOrder, Active
<1>3. Ready(b, acc[h]) BY DEF ContentsInv, PartsInOrder, AccessesApart, Ready
<1>4. Areas(acc[h]) /\ at[h] \in Nat
  <2>1. PartsInOrder BY DEF ContentsInv
  <2>2. at \in [Handle -> Nat] BY <2>1 DEF PartsInOrder
  <2>3. Areas(acc[h]) BY <1>1, <2>1 DEF PartsInOrder, Proper
  <2> QED BY <1>1, <2>2, <2>3
<1>5. ASSUME Exact
      PROVE  /\ acc[h].id \in DOMAIN ideal /\ ideal[acc[h].id] \in Seq(Char)
             /\ Len(ideal[acc[h].id]) \in Nat
             /\ Len(ideal[acc[h].id]) <= MaxLen[acc[h].id]
             /\ MaxLen[acc[h].id] \in Nat /\ at[h] <= Len(ideal[acc[h].id])
  <2>1. acc[h].id \in DOMAIN ideal /\ at[h] <= Len(ideal[acc[h].id])
    BY <1>5 DEF ContentsInv, ContentsKnown
  <2>2. Stored(ideal) BY DEF ContentsInv, PartsInOrder
  <2>3. acc[h].id \in Oid /\ Fits(ideal[acc[h].id], MaxLen[acc[h].id]) BY <2>1, <2>2 DEF Stored
  <2>4. MaxLen[acc[h].id] \in Nat BY <2>3, ConstantsAssumption
  <2> QED BY <2>1, <2>3, <2>4, TextFacts DEF Fits
<1>6. Exact /\ b.up => Sound BY DEF Exact, Sound
<1>7. Sound => b.blk = "open" /\ Exact /\ Matches(b, acc[h], at[h], ideal[acc[h].id])
  BY DEF ContentsInv, AccessesApart, ContentsKnown, Exact, Sound
<1>8. ~told /\ b.blk = "open" => Sound
  BY <1>2 DEF ContentsInv, PartsInOrder, AccessesApart, Sane, Sound
<1> QED BY <1>1, <1>2, <1>3, <1>4, <1>5, <1>6, <1>7, <1>8 DEF Areas

\* Without a buffer, text that the client puts is in its place.
LEMMA IdeallyFacts ==
  ASSUME ContentsInv, NEW h \in Live, Exact, NEW data \in Seq(Char), Room(h, Len(data)),
         NEW want, want = Ideally(h, data)
  PROVE  /\ Stored(want) /\ DOMAIN want = DOMAIN ideal
         /\ \A o \in DOMAIN ideal \ {acc[h].id} : want[o] = ideal[o]
         /\ acc[h].id \in DOMAIN want
         /\ want[acc[h].id] = Place(ideal[acc[h].id], at[h], data)
         /\ at[h] + Len(data) \in Nat /\ at[h] + Len(data) <= Len(want[acc[h].id])
<1> DEFINE o == acc[h].id
           t == ideal[o]
           k == at[h]
           z == Place(t, k, data)
<1>1. /\ o \in DOMAIN ideal /\ t \in Seq(Char) /\ Len(t) \in Nat /\ Len(t) <= MaxLen[o]
      /\ MaxLen[o] \in Nat /\ k \in Nat /\ k <= Len(t)
  BY LiveFacts
<1>2. Stored(ideal) BY DEF ContentsInv, PartsInOrder
<1>3. k + Len(data) <= MaxLen[o] BY DEF Room
<1>4. Len(data) \in Nat BY TextFacts
<1>5. want = [ideal EXCEPT ![o] = z] BY <1>1 DEF Ideally
<1> HIDE DEF o, t, k
<1>6. z \in Seq(Char) /\ Len(z) = IF k + Len(data) <= Len(t) THEN Len(t) ELSE k + Len(data)
  BY <1>1, PlaceFacts
<1> HIDE DEF z
<1>7. Len(z) <= MaxLen[o] /\ k + Len(data) \in Nat /\ k + Len(data) <= Len(z)
  BY <1>1, <1>3, <1>4, <1>6
<1>8. Fits(z, MaxLen[o]) BY <1>6, <1>7 DEF Fits
<1>9. /\ DOMAIN want = DOMAIN ideal /\ want[o] = z
      /\ \A i \in DOMAIN ideal \ {o} : want[i] = ideal[i]
      /\ want = [i \in DOMAIN want |-> want[i]]
  BY <1>1, <1>5
<1>10. Stored(want)
  <2>1. DOMAIN want \subseteq Oid BY <1>2, <1>9 DEF Stored
  <2>2. \A i \in DOMAIN want : Fits(want[i], MaxLen[i]) BY <1>2, <1>8, <1>9 DEF Stored
  <2> QED BY <1>9, <2>1, <2>2 DEF Stored
<1> QED BY <1>1, <1>7, <1>9, <1>10 DEF o, t, k, z

\* A call that puts nothing leaves what would be without a buffer.
LEMMA StaysWanted ==
  ASSUME ContentsInv, NEW h \in Live, Exact, NEW u, NEW e, NEW k,
         k <= Len(ideal[acc[h].id]), b.up => Matches(u, e, k, ideal[acc[h].id])
  PROVE  Wanted(h, u, e, k, ideal)
<1>1. acc[h].id \in DOMAIN ideal BY LiveFacts
<1>2. Stored(ideal) BY DEF ContentsInv, PartsInOrder
<1> QED BY <1>1, <1>2 DEF Wanted

\* The access keeps its place, with another iostate.
LEMMA StateMatches ==
  ASSUME NEW v, NEW a, NEW u, NEW e, Works(v, a, u, e), NEW c \in Iostates,
         NEW k, NEW t, Matches(u, e, k, t)
  PROVE  Matches(u, [e EXCEPT !.state = c], k, t)
<1> DEFINE f == [e EXCEPT !.state = c]
<1>1. /\ f.g = e.g /\ f.gp = e.gp /\ Whole(u, f) = Whole(u, e) /\ Mark(u, f) = Mark(u, e)
  BY StateWorks
<1> HIDE DEF f
<1>2. Matches(u, f, k, t) BY <1>1 DEF Matches
<1> QED BY <1>2 DEF f

\* ostream::put()
LEMMA PutContents ==
  ASSUME ContentsInv, Careless = {}, NEW h \in Handle, NEW c \in Char, Put(h, c)
  PROVE  ContentsInv'
<1> DEFINE a == acc[h]
           data == <<c>>
           want == Ideally(h, data)
<1>1. /\ ~told /\ a.kind \in {"olo", "lo"} /\ Taken(a) /\ Room(h, 1)
  BY DEF Put, Good, Free
<1>2. PICK r \in sputc(b, a, c) :
        /\ Called(r.b, r.res = EoF, FALSE, want)
        /\ acc' = [acc EXCEPT ![h] = State(r, "bad")]
  BY DEF Put
<1>3. h \in Live /\ Writes(a.kind) BY <1>1 DEF Live, Writes, Mode
<1>4. data \in Seq(Char) /\ Len(data) = 1 BY ShortTexts
<1>5. /\ Ready(b, a) /\ Sized(a) /\ at[h] \in Nat
      /\ (b.blk = "open" => Sound)
      /\ (Sound => b.blk = "open" /\ Exact /\ Matches(b, a, at[h], ideal[a.id]))
      /\ (Exact => a.id \in DOMAIN ideal) /\ (Exact /\ b.up => Sound)
  BY <1>1, <1>3, LiveFacts
<1>6. Len(a.g) \in Nat /\ Len(a.g) - a.gp = 0 /\ at[h] + (Len(a.g) - a.gp) = at[h]
  BY <1>1, <1>5, TextFacts DEF Sized, Fits, Taken
<1>7. Matches(b, a, at[h], ideal[a.id]) => Whole(b, a) = ideal[a.id] /\ Mark(b, a) = at[h]
  BY <1>6 DEF Matches
<1>8. b.blk = "open" => Mark(b, a) + 1 <= MaxLen[a.id] BY <1>1, <1>5, <1>7 DEF Room
<1> HIDE DEF data, want
<1>9. /\ Works(b, a, r.b, r.a)
      /\ r.a.g = a.g /\ r.a.gp = a.gp /\ r.a.state = a.state
      /\ b.blk = "open" /\ r.res # -1 => r.b.blk = "open"
      /\ r.b.blk = "open" =>
           /\ b.blk = "open" /\ Whole(r.b, r.a) = Place(Whole(b, a), Mark(b, a), data)
           /\ Mark(r.b, r.a) = Mark(b, a) + 1
  BY <1>1, <1>3, <1>5, <1>8, PutWorks DEF data
<1> DEFINE st == IF r.res = EoF THEN "bad" ELSE r.a.state
           e == [r.a EXCEPT !.state = st]
           u == r.b
           failed == r.res = EoF
           k == at[h] + 1
<1>10. st \in Iostates BY <1>5, <1>9 DEF Sized, Iostates
<1>11. acc' = [acc EXCEPT ![h] = e] BY <1>2 DEF State
<1> HIDE DEF st
<1>12. Works(b, a, u, e) BY <1>9, <1>10, StateWorks
<1>13. at' = [at EXCEPT ![h] = k] /\ k \in Nat /\ file' = file BY <1>5 DEF Put
<1>14. b.blk = "open" /\ ~failed => u.blk = "open" BY <1>9 DEF EoF
<1>15. ASSUME ~told, ~silent, ~failed PROVE Wanted(h, u, e, k, want)
  <2>1. Exact BY <1>3, <1>15, LiveFacts DEF Exact
  <2>2. Room(h, Len(data)) BY <1>1, <1>4
  <2>3. /\ Stored(want) /\ DOMAIN want = DOMAIN ideal
        /\ \A o \in DOMAIN ideal \ {acc[h].id} : want[o] = ideal[o]
        /\ acc[h].id \in DOMAIN want
        /\ want[acc[h].id] = Place(ideal[acc[h].id], at[h], data)
        /\ at[h] + Len(data) \in Nat /\ at[h] + Len(data) <= Len(want[acc[h].id])
    BY <1>3, <1>4, <2>1, <2>2, IdeallyFacts DEF want
  <2>4. ASSUME b.up PROVE Matches(u, e, k, want[a.id])
    <3>1. Matches(b, a, at[h], ideal[a.id]) /\ u.blk = "open" BY <1>5, <1>14, <1>15, <2>1, <2>4
    <3>2. Whole(u, r.a) = want[a.id] /\ Mark(u, r.a) = k BY <1>7, <1>9, <2>3, <3>1
    <3>3. Len(r.a.g) - r.a.gp = 0 /\ k + (Len(r.a.g) - r.a.gp) = k
      BY <1>6, <1>9, <1>13
    <3>4. 1..Len(r.a.g) - r.a.gp = {} BY <3>3
    <3>5. Matches(u, r.a, k, want[a.id]) BY <3>2, <3>3, <3>4 DEF Matches
    <3> QED BY <1>9, <1>10, <3>5, StateMatches
  <2> QED BY <1>4, <2>3, <2>4 DEF Wanted
<1>16. Called(u, failed, FALSE, want) /\ failed \in BOOLEAN BY <1>2
<1> HIDE DEF e, u, k, failed, a
<1>17. Works(b, acc[h], u, e) BY <1>12 DEF a
<1> QED BY <1>3, <1>11, <1>13, <1>14, <1>15, <1>16, <1>17, StepContents

\* A call on a stream keeps everything in order, whatever iostate it leaves.
LEMMA StreamContents ==
  ASSUME ContentsInv, NEW h \in Live, NEW r, Works(b, acc[h], r.b, r.a),
         NEW failed \in BOOLEAN, NEW want, Called(r.b, failed, FALSE, want),
         NEW c \in Iostates, acc' = [acc EXCEPT ![h] = [r.a EXCEPT !.state = c]],
         NEW k \in Nat, at' = [at EXCEPT ![h] = k], file' = file,
         b.blk = "open" /\ ~failed => r.b.blk = "open",
         ~told /\ ~silent /\ ~failed => Wanted(h, r.b, r.a, k, want)
  PROVE  ContentsInv'
<1> DEFINE u == r.b
           e == [r.a EXCEPT !.state = c]
<1>1. Works(b, acc[h], u, e) BY StateWorks
<1>2. ~told /\ ~silent /\ ~failed => Wanted(h, u, e, k, want)
  <2> SUFFICES ASSUME ~told, ~silent, ~failed PROVE Wanted(h, u, e, k, want) OBVIOUS
  <2>1. Wanted(h, u, r.a, k, want) OBVIOUS
  <2>2. Matches(u, r.a, k, want[acc[h].id]) => Matches(u, e, k, want[acc[h].id])
    BY StateMatches
  <2> HIDE DEF e, u
  <2> QED BY <2>1, <2>2 DEF Wanted
<1>3. /\ Called(u, failed, FALSE, want) /\ acc' = [acc EXCEPT ![h] = e]
      /\ b.blk = "open" /\ ~failed => u.blk = "open"
  OBVIOUS
<1> HIDE DEF e, u
<1> QED BY <1>1, <1>2, <1>3, StepContents

\* The same text and the same mark, with the get area as it was.
LEMMA MatchesSame ==
  ASSUME NEW v, NEW a, NEW u, NEW e, NEW k, NEW t, Matches(v, a, k, t), e.g = a.g, e.gp = a.gp,
         Whole(u, e) = Whole(v, a), Mark(u, e) = Mark(v, a)
  PROVE  Matches(u, e, k, t)
BY DEF Matches

\* ostream::flush(), istream::sync()
LEMMA FlushContents ==
  ASSUME ContentsInv, Careless = {}, NEW h \in Handle, Flush(h)
  PROVE  ContentsInv'
<1> DEFINE a == acc[h]
           k == at[h]
           t == ideal[a.id]
<1>1. ~told /\ a.kind \in {"ilo", "olo", "lo"} /\ a.g = <<>>
  BY DEF Flush, Good, Free
<1>2. PICK r \in sync(b, a) :
        /\ Called(r.b, r.res = EoF, FALSE, ideal)
        /\ acc' = [acc EXCEPT ![h] = State(r, "bad")]
  BY DEF Flush
<1>3. h \in Live BY <1>1 DEF Live
<1>4. /\ Ready(b, a) /\ Sized(a) /\ k \in Nat
      /\ (Sound => b.blk = "open" /\ Exact /\ Matches(b, a, k, t))
      /\ (Exact => k <= Len(t)) /\ (Exact /\ b.up => Sound) /\ Active
  BY <1>3, LiveFacts
<1>5. /\ Works(b, a, r.b, r.a)
      /\ r.a.p = <<>> /\ r.a.g = a.g /\ r.a.gp = 0 /\ r.a.state = a.state
      /\ b.blk = "open" /\ r.res # -1 => r.b.blk = "open"
      /\ r.b.blk = "open" =>
           /\ b.blk = "open" /\ r.b.objs[a.id] = Whole(b, a)
           /\ r.b.fds[a.fd].pos = Mark(b, a)
  BY <1>4, SyncWorks
<1>6. a.gp = 0 BY <1>1, <1>4, EmptySeq DEF Sized
<1> DEFINE st == IF r.res = EoF THEN "bad" ELSE r.a.state
           failed == r.res = EoF
<1>7. st \in Iostates BY <1>4, <1>5 DEF Sized, Iostates
<1>8. acc' = [acc EXCEPT ![h] = [r.a EXCEPT !.state = st]] BY <1>2 DEF State
<1>9. at' = [at EXCEPT ![h] = k] /\ file' = file
  BY DEF Flush, ContentsInv, PartsInOrder
<1>10. b.blk = "open" /\ ~failed => r.b.blk = "open" BY <1>5 DEF EoF
<1>11. ASSUME ~told, ~silent, ~failed PROVE Wanted(h, r.b, r.a, k, ideal)
  <2>1. Exact BY <1>4, <1>11 DEF Exact
  <2>2. ASSUME b.up PROVE Matches(r.b, r.a, k, t)
    <3>1. Matches(b, a, k, t) /\ r.b.blk = "open" BY <1>4, <1>10, <1>11, <2>1, <2>2
    <3>2. Sane(r.b) /\ Owns(r.b, r.a) /\ r.a.id = a.id /\ r.a.fd = a.fd
      BY <1>5, <3>1 DEF Works, Touches, SameAccess
    <3>3. Whole(r.b, r.a) = Whole(b, a) /\ Mark(r.b, r.a) = Mark(b, a)
      BY <1>5, <3>1, <3>2, WholeAsIs
    <3>4. r.a.g = a.g /\ r.a.gp = a.gp BY <1>5, <1>6
    <3> QED BY <3>1, <3>3, <3>4, MatchesSame
  <2> QED BY <1>3, <1>4, <2>1, <2>2, StaysWanted
<1>12. Called(r.b, failed, FALSE, ideal) /\ failed \in BOOLEAN BY <1>2
<1>13. Works(b, acc[h], r.b, r.a) BY <1>5
<1> HIDE DEF st, failed, a, k, t
<1> QED BY <1>3, <1>4, <1>7, <1>8, <1>9, <1>10, <1>11, <1>12, <1>13, StreamContents

\* ios::clear()
LEMMA ClearContents ==
  ASSUME ContentsInv, NEW h \in Handle, Clear(h)
  PROVE  ContentsInv'
<1> DEFINE a == acc[h]
           k == at[h]
           e == [a EXCEPT !.state = "good"]
           f == FALSE
<1>1. h \in Live
  <2>1. Proper(acc[h], Kinds[h]) BY DEF ContentsInv, PartsInOrder
  <2> QED BY <2>1 DEF Clear, Proper, Live
<1>2. /\ Ready(b, a) /\ Areas(a) /\ k \in Nat
      /\ (Sound => Matches(b, a, k, ideal[a.id]))
      /\ (Exact => k <= Len(ideal[a.id])) /\ (Exact /\ b.up => Sound) /\ Active
  BY <1>1, LiveFacts
<1>3. b.blk = "open" => Mark(b, a) <= MaxLen[a.id] BY <1>2, MarkFacts DEF Ready, Areas, Sized
<1>4. SameAccess(a, a) BY <1>2, SizedFacts DEF Areas
<1>5. Works(b, a, b, a) BY <1>2, <1>3, <1>4, StillWorks
<1>6. "good" \in Iostates BY DEF Iostates
<1>7. Works(b, a, b, e) BY <1>5, <1>6, StateWorks
<1>8. Matches(b, a, k, ideal[a.id]) => Matches(b, e, k, ideal[a.id])
  BY <1>5, <1>6, StateMatches
<1>9. acc' = [acc EXCEPT ![h] = e] /\ Called(b, f, FALSE, ideal) /\ file' = file
  BY DEF Clear
<1>10. at' = [at EXCEPT ![h] = k] BY DEF Clear, ContentsInv, PartsInOrder
<1> HIDE DEF e
<1>11. ASSUME ~told, ~silent PROVE Wanted(h, b, e, k, ideal)
  <2>1. Exact BY <1>2, <1>11 DEF Exact
  <2> QED BY <1>1, <1>2, <1>8, <2>1, StaysWanted
<1>12. f \in BOOLEAN /\ (b.blk = "open" /\ ~f => b.blk = "open")
       /\ (~told /\ ~silent /\ ~f => Wanted(h, b, e, k, ideal))
  BY <1>11
<1>13. Works(b, acc[h], b, e) BY <1>7
<1> HIDE DEF a, k, f
<1> QED BY <1>1, <1>2, <1>9, <1>10, <1>12, <1>13, StepContents

----------------------------------------------------------------------------
(* Reading and seeking; an access without a buffer.                        *)

\* What a read without a buffer would find.
LEMMA DueFacts ==
  ASSUME ContentsInv, NEW h \in Live, Exact, NEW n \in Nat
  PROVE  Follows(Due(h, n), ideal[acc[h].id], at[h], n)
<1> DEFINE t == ideal[acc[h].id]
           k == at[h]
           d == Due(h, n)
<1>1. t \in Seq(Char) /\ k \in Nat /\ k <= Len(t) /\ acc[h].id \in DOMAIN ideal
  BY LiveFacts
<1>2. d = SubSeq(t, k + 1, Min({k + n, Len(t)})) BY <1>1 DEF Due
<1> HIDE DEF t, k, d
<1>3. Follows(d, t, k, n) BY <1>1, <1>2, FollowsFacts
<1> QED BY <1>3 DEF t, k, d

\* One character, or none.
LEMMA FollowsOne ==
  ASSUME NEW t, Len(t) \in Nat, NEW k \in Nat, k <= Len(t), NEW d, Follows(d, t, k, 1)
  PROVE  /\ k = Len(t) => d = <<>>
         /\ k < Len(t) => d = <<t[k + 1]>>
<1>1. d \in Seq(Char) /\ Len(d) = IF k + 1 <= Len(t) THEN 1 ELSE Len(t) - k BY DEF Follows
<1>2. ASSUME k = Len(t) PROVE d = <<>>
  <2>1. Len(d) = 0 BY <1>1, <1>2
  <2> QED BY <1>1, <2>1, EmptySeq
<1>3. ASSUME k < Len(t) PROVE d = <<t[k + 1]>>
  <2>1. Len(d) = 1 BY <1>1, <1>3
  <2>2. \A i \in 1..Len(d) : d[i] = t[k + i] BY DEF Follows
  <2>3. d[1] = t[k + 1] BY <2>1, <2>2
  <2>4. d[1] \in Char BY <1>1, <2>1, TextFacts
  <2>5. <<t[k + 1]>> \in Seq(Char) /\ Len(<<t[k + 1]>>) = 1 /\ <<t[k + 1]>>[1] = t[k + 1]
    BY <2>3, <2>4, ShortTexts
  <2> DEFINE s == <<t[k + 1]>>
  <2>6. s \in Seq(Char) /\ Len(s) = Len(d) /\ s[1] = d[1] BY <2>1, <2>3, <2>5
  <2> HIDE DEF s
  <2>7. \A i \in 1..Len(d) : d[i] = s[i] BY <2>1, <2>6
  <2>8. d = s BY <1>1, <2>6, <2>7, SeqEqual
  <2> QED BY <2>8 DEF s
<1> QED BY <1>2, <1>3

\* istream::get(): what it returns is right, and everything stays in order.
LEMMA GetContents ==
  ASSUME ContentsInv, Careless = {}, NEW h \in Handle, Get(h)
  PROVE  ContentsInv' /\ ReadsTrue'
<1> DEFINE a == acc[h]
           k == at[h]
           t == ideal[a.id]
<1>1. ~told /\ a.kind \in {"ilo", "lo"} /\ (a.p = <<>> \/ ~Taken(a))
  BY DEF Get, Good, Free
<1>2. PICK r \in sbumpc(b, a) :
        /\ Called(r.b, r.b.blk # "open", FALSE, ideal)
        /\ acc' = [acc EXCEPT ![h] = State(r, "eof")]
        /\ got' = [found |-> IF r.res = EoF THEN <<>> ELSE <<r.a.g[r.a.gp]>>,
                   due |-> Due(h, 1)]
        /\ at' = [at EXCEPT ![h] = IF r.res = EoF THEN @ ELSE @ + 1]
  BY DEF Get
<1>3. h \in Live /\ Reads(a.kind) BY <1>1 DEF Live, Reads, Mode
<1>4. /\ Ready(b, a) /\ Areas(a) /\ k \in Nat
      /\ (Sound => b.blk = "open" /\ Exact /\ Matches(b, a, k, t))
      /\ (Exact => k <= Len(t) /\ Len(t) \in Nat) /\ (Exact /\ b.up => Sound) /\ Active
      /\ (~told /\ b.blk = "open" => Sound)
  BY <1>3, LiveFacts
<1>5. a.p = <<>> BY <1>1, <1>4 DEF Areas
<1>6. b.blk = "open" => Matches(b, a, k, t) BY <1>1, <1>4
<1>7. /\ Works(b, a, r.b, r.a) /\ r.a.state = a.state
      /\ r.b.blk = "open" =>
           /\ b.blk = "open"
           /\ \/ /\ r.res = EoF /\ Matches(r.b, r.a, k, t)
                 /\ k = Len(t) \/ (k < Len(t) /\ t[k + 1] = EofByte)
              \/ /\ r.res # EoF /\ Matches(r.b, r.a, k + 1, t)
                 /\ k < Len(t) /\ r.a.g[r.a.gp] = t[k + 1]
  BY <1>3, <1>4, <1>5, <1>6, BumpWorks
<1> DEFINE st == IF r.res = EoF THEN "eof" ELSE r.a.state
           failed == r.b.blk # "open"
           j == IF r.res = EoF THEN k ELSE k + 1
<1>8. st \in Iostates BY <1>4, <1>7 DEF Areas, Sized, Iostates
<1>9. acc' = [acc EXCEPT ![h] = [r.a EXCEPT !.state = st]] BY <1>2 DEF State
<1>10. at' = [at EXCEPT ![h] = j] /\ j \in Nat /\ file' = file
  <2>1. at' = [at EXCEPT ![h] = j]
    <3>1. CASE r.res = EoF
      <4>1. j = k BY <3>1
      <4> HIDE DEF j
      <4> QED BY <1>2, <3>1, <4>1
    <3>2. CASE r.res # EoF
      <4>1. j = k + 1 BY <3>2
      <4> HIDE DEF j
      <4> QED BY <1>2, <3>2, <4>1
    <3> QED BY <3>1, <3>2
  <2>2. k \in Nat BY <1>4
  <2>3. j \in Nat
    <3> HIDE DEF k
    <3> QED BY <2>2
  <2> QED BY <2>1, <2>3 DEF Get
<1>11. ASSUME r.b.blk = "open"
       PROVE  /\ Sound /\ Exact /\ Len(t) \in Nat /\ k <= Len(t)
              /\ Matches(r.b, r.a, j, t) /\ j <= Len(t)
  <2>1. Sound /\ Exact /\ Len(t) \in Nat /\ k <= Len(t) BY <1>1, <1>4, <1>7, <1>11
  <2>2. CASE r.res = EoF
    <3>1. j = k /\ Matches(r.b, r.a, k, t) BY <1>7, <1>11, <2>2
    <3> QED BY <2>1, <3>1
  <2>3. CASE r.res # EoF
    <3>1. j = k + 1 /\ Matches(r.b, r.a, k + 1, t) /\ k < Len(t) BY <1>7, <1>11, <2>3
    <3>2. j <= Len(t) BY <1>4, <2>1, <3>1
    <3> QED BY <2>1, <3>1, <3>2
  <2> QED BY <2>2, <2>3
<1>12. ASSUME ~failed PROVE Wanted(h, r.b, r.a, j, ideal)
  <2>1. Exact /\ Matches(r.b, r.a, j, t) /\ j <= Len(t) BY <1>11, <1>12
  <2> HIDE DEF j
  <2> QED BY <1>3, <2>1, StaysWanted
<1>13. Called(r.b, failed, FALSE, ideal) /\ failed \in BOOLEAN BY <1>2
<1>14. ReadsTrue'
  <2>1. CASE failed
    <3>1. told' BY <1>13, <2>1 DEF Called
    <3> QED BY <3>1 DEF ReadsTrue
  <2>2. CASE ~failed
    <3>1. Exact /\ Len(t) \in Nat /\ k <= Len(t) BY <1>11, <2>2
    <3> DEFINE d == Due(h, 1)
    <3>2. Follows(d, t, k, 1) BY <1>3, <3>1, DueFacts
    <3>3. got'.due = d /\ got'.found = IF r.res = EoF THEN <<>> ELSE <<r.a.g[r.a.gp]>> BY <1>2
    <3> HIDE DEF d, t
    <3>4. (k = Len(t) => d = <<>>) /\ (k < Len(t) => d = <<t[k + 1]>>)
      BY <1>4, <3>1, <3>2, FollowsOne
    <3>5. CASE r.res = EoF
      <4>1. k = Len(t) \/ (k < Len(t) /\ t[k + 1] = EofByte) BY <1>7, <2>2, <3>5
      <4>2. got'.found = <<>> /\ (got'.due = <<>> \/ got'.due = <<EofByte>>)
        BY <3>3, <3>4, <3>5, <4>1
      <4> QED BY <4>2 DEF ReadsTrue
    <3>6. CASE r.res # EoF
      <4>1. k < Len(t) /\ r.a.g[r.a.gp] = t[k + 1] BY <1>7, <2>2, <3>6
      <4>2. got'.found = <<t[k + 1]>> /\ got'.due = <<t[k + 1]>> BY <3>3, <3>4, <3>6, <4>1
      <4> QED BY <4>2 DEF ReadsTrue
    <3> QED BY <3>5, <3>6
  <2> QED BY <2>1, <2>2
<1>15. b.blk = "open" /\ ~failed => r.b.blk = "open" OBVIOUS
<1>16. Works(b, acc[h], r.b, r.a) BY <1>7
<1> HIDE DEF st, failed, a, k, j, t
<1>17. ContentsInv'
  BY <1>3, <1>8, <1>9, <1>10, <1>12, <1>13, <1>15, <1>16, StreamContents
<1> QED BY <1>14, <1>17

\* seekg(), seekp(), tellg(), tellp(), and seek() and tell() of an access
LEMMA SeekContents ==
  ASSUME ContentsInv, Careless = {}, NEW h \in Handle, NEW off \in Int,
         NEW dir \in Directions, Seek(h, off, dir)
  PROVE  ContentsInv' /\ ReadsTrue'
<1> DEFINE a == acc[h]
           k == at[h]
           t == ideal[a.id]
           due == Target(k, Length(h), off, dir)
<1>1. ~told /\ a.kind # "none" /\ a.p = <<>> /\ Taken(a) /\ due <= Length(h)
  BY DEF Seek, Good, Free
<1>2. PICK r \in seekoff(b, a, off, dir) :
        /\ Called(r.b, r.res = EoF, FALSE, ideal)
        /\ acc' = [acc EXCEPT ![h] = IF a.kind = "access" THEN @ ELSE State(r, "bad")]
        /\ got' = [found |-> <<r.res>>, due |-> <<due>>]
        /\ at' = [at EXCEPT ![h] = IF r.res = EoF THEN @ ELSE due]
  BY DEF Seek
<1>3. h \in Live BY <1>1 DEF Live
<1>4. /\ Ready(b, a) /\ Areas(a) /\ k \in Nat
      /\ (Sound => b.blk = "open" /\ Exact /\ Matches(b, a, k, t))
      /\ (Exact => a.id \in DOMAIN ideal) /\ (Exact /\ b.up => Sound)
      /\ (~told /\ b.blk = "open" => Sound)
  BY <1>3, LiveFacts
<1>5. Exact => Length(h) = Len(t) BY <1>4 DEF Length
<1>6. b.blk = "open" => Matches(b, a, k, t) /\ Target(k, Len(t), off, dir) <= Len(t)
  BY <1>1, <1>4, <1>5
<1>7. /\ r.a = a /\ Works(b, a, r.b, a)
      /\ \/ r.res = EoF /\ r.b.blk # "open"
         \/ /\ b.blk = "open" /\ r.b.blk = "open" /\ r.res \in Nat
            /\ r.res = Target(k, Len(t), off, dir) /\ r.res <= Len(t)
            /\ Matches(r.b, a, r.res, t)
  <2>1. /\ Ready(b, a) /\ Areas(a) /\ a.p = <<>> /\ Taken(a) /\ k \in Nat
        /\ b.blk = "open" => Matches(b, a, k, t) /\ Target(k, Len(t), off, dir) <= Len(t)
        /\ r \in seekoff(b, a, off, dir)
    BY <1>1, <1>2, <1>4, <1>6
  <2>2. off \in Int /\ dir \in Directions OBVIOUS
  <2> DEFINE v == b
             A == a
             K == k
             T == t
  <2>3. /\ Ready(v, A) /\ Areas(A) /\ A.p = <<>> /\ Taken(A) /\ K \in Nat
        /\ v.blk = "open" => Matches(v, A, K, T) /\ Target(K, Len(T), off, dir) <= Len(T)
        /\ r \in seekoff(v, A, off, dir)
    BY <2>1
  <2> HIDE DEF v, A, K, T
  <2>4. /\ r.a = A /\ Works(v, A, r.b, A)
        /\ \/ r.res = EoF /\ r.b.blk # "open"
           \/ /\ v.blk = "open" /\ r.b.blk = "open" /\ r.res \in Nat
              /\ r.res = Target(K, Len(T), off, dir) /\ r.res <= Len(T)
              /\ Matches(r.b, A, r.res, T)
    BY <2>3, SeekWorks
  <2> QED BY <2>4 DEF v, A, K, T
<1> DEFINE failed == r.res = EoF
           j == IF r.res = EoF THEN k ELSE due
           e == IF a.kind = "access" THEN a ELSE State(r, "bad")
<1>8. acc' = [acc EXCEPT ![h] = e] /\ Called(r.b, failed, FALSE, ideal) /\ failed \in BOOLEAN
      /\ file' = file /\ at' = [at EXCEPT ![h] = j]
  BY <1>2 DEF Seek
<1>9. ASSUME ~failed
      PROVE  /\ r.b.blk = "open" /\ Exact /\ due = r.res /\ j = r.res /\ j \in Nat
             /\ j <= Len(t) /\ Matches(r.b, a, j, t)
  <2>1. b.blk = "open" /\ r.b.blk = "open" /\ r.res \in Nat
        /\ r.res = Target(k, Len(t), off, dir) /\ r.res <= Len(t) /\ Matches(r.b, a, r.res, t)
    BY <1>7, <1>9
  <2>2. Exact BY <1>1, <1>4, <2>1
  <2>3. due = r.res BY <1>5, <2>1, <2>2
  <2> QED BY <1>9, <2>1, <2>2, <2>3
<1>10. j \in Nat BY <1>4, <1>9
<1>11. Works(b, a, r.b, e) /\ (Matches(r.b, a, j, t) => Matches(r.b, e, j, t))
  <2>1. CASE a.kind = "access"
    BY <1>7, <2>1
  <2>2. CASE a.kind # "access"
    <3> DEFINE st == IF r.res = EoF THEN "bad" ELSE a.state
    <3>1. e = [a EXCEPT !.state = st] BY <1>7, <2>2 DEF State
    <3>2. st \in Iostates BY <1>4 DEF Areas, Sized, Iostates
    <3> HIDE DEF st, e, j, t
    <3>3. Works(b, a, r.b, e) BY <1>7, <3>1, <3>2, StateWorks
    <3>4. Matches(r.b, a, j, t) => Matches(r.b, e, j, t) BY <1>7, <3>1, <3>2, StateMatches
    <3> QED BY <3>3, <3>4
  <2> QED BY <2>1, <2>2
<1>12. ASSUME ~failed PROVE Wanted(h, r.b, e, j, ideal)
  <2>1. Exact /\ j <= Len(t) /\ Matches(r.b, e, j, t) BY <1>9, <1>11, <1>12
  <2> HIDE DEF e, j
  <2> QED BY <1>3, <2>1, StaysWanted
<1>13. b.blk = "open" /\ ~failed => r.b.blk = "open" BY <1>9
<1>14. ReadsTrue'
  <2>1. CASE failed
    <3>1. told' BY <1>8, <2>1 DEF Called
    <3> QED BY <3>1 DEF ReadsTrue
  <2>2. CASE ~failed
    <3>1. due = r.res BY <1>9, <2>2
    <3>2. got'.found = <<r.res>> /\ got'.due = <<due>> BY <1>2
    <3> HIDE DEF due
    <3> QED BY <3>1, <3>2 DEF ReadsTrue
  <2> QED BY <2>1, <2>2
<1>15. Works(b, acc[h], r.b, e) BY <1>11
<1> DEFINE u == r.b
<1>16. /\ Called(u, failed, FALSE, ideal) /\ Works(b, acc[h], u, e)
       /\ b.blk = "open" /\ ~failed => u.blk = "open"
       /\ ~told /\ ~silent /\ ~failed => Wanted(h, u, e, j, ideal)
  BY <1>8, <1>12, <1>13, <1>15
<1> HIDE DEF failed, j, e, a, k, t, due, u
<1>17. ContentsInv' BY <1>3, <1>8, <1>10, <1>16, StepContents
<1> QED BY <1>14, <1>17

\* An access has no areas.
LEMMA AccessIsFlat ==
  ASSUME NEW a, Areas(a), a.kind = "access"
  PROVE  a.p = <<>> /\ Taken(a) /\ SameAccess(a, a)
<1>1. a.g = <<>> /\ a.p = <<>> BY DEF Areas, Sized, Reads, Writes
<1>2. a.gp = Len(a.g) BY <1>1, EmptySeq DEF Areas, Sized
<1> QED BY <1>1, <1>2, SizedFacts DEF Taken, Areas

\* write() of an access
LEMMA WriteContents ==
  ASSUME ContentsInv, Careless = {}, NEW h \in Handle, NEW c \in Char, Write(h, <<c>>)
  PROVE  ContentsInv'
<1> DEFINE a == acc[h]
           data == <<c>>
           want == Ideally(h, data)
           k == at[h]
           t == ideal[a.id]
<1>1. ~told /\ a.kind = "access" /\ Room(h, Len(data)) BY DEF Write, Good, Free
<1>2. PICK r \in cwrite(b, a, data) : Called(r.b, r.res < Len(data), FALSE, want)
  BY DEF Write
<1>3. h \in Live BY <1>1 DEF Live
<1>4. data \in Seq(Char) /\ Len(data) = 1 BY ShortTexts
<1>5. /\ Ready(b, a) /\ Areas(a) /\ k \in Nat
      /\ (Sound => b.blk = "open" /\ Exact /\ Matches(b, a, k, t))
      /\ (Exact /\ b.up => Sound) /\ Active /\ (~told /\ b.blk = "open" => Sound)
  BY <1>3, LiveFacts
<1>6. a.p = <<>> /\ Taken(a) BY <1>1, <1>5, AccessIsFlat
<1> HIDE DEF data, want
<1>7. b.blk = "open" => Matches(b, a, k, t) /\ k + Len(data) <= MaxLen[a.id]
  BY <1>1, <1>5 DEF Room
<1>8. /\ Works(b, a, r.b, a)
      /\ \/ r.res = -1 /\ r.b.blk # "open"
         \/ /\ b.blk = "open" /\ r.b.blk = "open" /\ r.res = Len(data)
            /\ Matches(r.b, a, k + Len(data), Place(t, k, data))
  BY <1>4, <1>5, <1>6, <1>7, AccessWrites
<1> DEFINE failed == r.res < Len(data)
           j == k + Len(data)
           u == r.b
<1>9. ~failed => /\ b.blk = "open" /\ u.blk = "open"
                 /\ Matches(u, a, j, Place(t, k, data))
  BY <1>4, <1>8
<1>10. Called(u, failed, FALSE, want) BY <1>2
<1>11. failed \in BOOLEAN OBVIOUS
<1>12. at' = [at EXCEPT ![h] = j] /\ j \in Nat /\ file' = file
  <2>1. at' = [at EXCEPT ![h] = j] BY DEF Write, data
  <2>2. k \in Nat BY <1>5
  <2>3. j \in Nat
    <3> HIDE DEF k
    <3> QED BY <1>4, <2>2
  <2> QED BY <2>1, <2>3 DEF Write
<1>13. acc' = [acc EXCEPT ![h] = a]
  BY DEF Write, ContentsInv, PartsInOrder
<1>14. ASSUME ~told, ~silent, ~failed PROVE Wanted(h, u, a, j, want)
  <2>1. Exact BY <1>5, <1>14 DEF Exact
  <2>2. /\ Stored(want) /\ DOMAIN want = DOMAIN ideal
        /\ \A o \in DOMAIN ideal \ {acc[h].id} : want[o] = ideal[o]
        /\ acc[h].id \in DOMAIN want
        /\ want[acc[h].id] = Place(ideal[acc[h].id], at[h], data)
        /\ at[h] + Len(data) \in Nat /\ at[h] + Len(data) <= Len(want[acc[h].id])
    BY <1>1, <1>3, <1>4, <2>1, IdeallyFacts DEF want
  <2>3. Matches(u, a, j, want[a.id]) BY <1>9, <1>14, <2>2
  <2> QED BY <2>2, <2>3 DEF Wanted
<1>15. b.blk = "open" /\ ~failed => u.blk = "open" BY <1>9
<1>16. Works(b, acc[h], u, a) BY <1>8
<1> HIDE DEF failed, j, u, a, k, t
<1> QED BY <1>3, <1>10, <1>12, <1>13, <1>14, <1>15, <1>16, <1>11, StepContents

\* read() of an access
LEMMA ReadContents ==
  ASSUME ContentsInv, Careless = {}, NEW h \in Handle, NEW n \in Nat, Read(h, n)
  PROVE  ContentsInv' /\ ReadsTrue'
<1> DEFINE a == acc[h]
           k == at[h]
           t == ideal[a.id]
<1>1. ~told /\ a.kind = "access" BY DEF Read, Good, Free
<1>2. PICK r \in cread(b, a, n) :
       LET data == IF r.res < 0 THEN <<>> ELSE Ahead(b, a.fd, n) IN
       /\ Called(r.b, r.res < 0, FALSE, ideal)
       /\ got' = [found |-> data, due |-> Due(h, n)]
       /\ at' = [at EXCEPT ![h] = @ + Len(data)]
  BY DEF Read
<1>3. h \in Live BY <1>1 DEF Live
<1>4. /\ Ready(b, a) /\ Areas(a) /\ k \in Nat
      /\ (Sound => b.blk = "open" /\ Exact /\ Matches(b, a, k, t))
      /\ (Exact /\ b.up => Sound) /\ Active /\ (~told /\ b.blk = "open" => Sound)
  BY <1>3, LiveFacts
<1>5. a.p = <<>> /\ Taken(a) BY <1>1, <1>4, AccessIsFlat
<1>6. b.blk = "open" => Matches(b, a, k, t) BY <1>1, <1>4
<1>7. /\ Works(b, a, r.b, a)
      /\ \/ r.res = -1 /\ r.b.blk # "open"
         \/ /\ b.blk = "open" /\ r.b.blk = "open" /\ r.res \in Nat
            /\ Follows(Ahead(b, a.fd, n), t, k, n) /\ k <= Len(t) /\ Len(t) \in Nat
            /\ k + Len(Ahead(b, a.fd, n)) \in Nat /\ k + Len(Ahead(b, a.fd, n)) <= Len(t)
            /\ Matches(r.b, a, k + Len(Ahead(b, a.fd, n)), t)
  BY <1>4, <1>5, <1>6, AccessReads
<1> DEFINE data == IF r.res < 0 THEN <<>> ELSE Ahead(b, a.fd, n)
           failed == r.res < 0
           j == k + Len(data)
           u == r.b
<1>8. /\ Called(u, failed, FALSE, ideal) /\ failed \in BOOLEAN
      /\ got' = [found |-> data, due |-> Due(h, n)] /\ at' = [at EXCEPT ![h] = j]
      /\ file' = file
  <2>1. Called(u, failed, FALSE, ideal) BY <1>2
  <2>2. failed \in BOOLEAN OBVIOUS
  <2>3. got' = [found |-> data, due |-> Due(h, n)] /\ at' = [at EXCEPT ![h] = j] BY <1>2
  <2>4. file' = file BY DEF Read
  <2> QED BY <2>1, <2>2, <2>3, <2>4
<1>9. acc' = [acc EXCEPT ![h] = a]
  BY DEF Read, ContentsInv, PartsInOrder
<1>10. ASSUME ~failed
       PROVE  /\ b.blk = "open" /\ u.blk = "open" /\ Exact /\ Follows(data, t, k, n)
              /\ j \in Nat /\ j <= Len(t) /\ Matches(u, a, j, t)
  <2>1. data = Ahead(b, a.fd, n) /\ r.res # -1 BY <1>10
  <2> HIDE DEF data
  <2>2. /\ b.blk = "open" /\ u.blk = "open" /\ Follows(data, t, k, n)
        /\ j \in Nat /\ j <= Len(t) /\ Matches(u, a, j, t)
    BY <1>7, <2>1
  <2>3. Exact BY <1>1, <1>4, <2>2
  <2> QED BY <2>2, <2>3
<1>11. j \in Nat
  <2>1. CASE failed
    <3>1. Len(data) = 0 BY <2>1, EmptySeq
    <3> HIDE DEF data
    <3> QED BY <1>4, <3>1
  <2> QED BY <1>10, <2>1
<1> HIDE DEF data
<1>12. ASSUME ~failed PROVE Wanted(h, u, a, j, ideal)
  <2>1. Exact /\ j <= Len(t) /\ Matches(u, a, j, t) BY <1>10, <1>12
  <2> HIDE DEF u, j
  <2> QED BY <1>3, <2>1, StaysWanted
<1>13. ReadsTrue'
  <2>1. CASE failed
    <3>1. told' BY <1>8, <2>1 DEF Called
    <3> QED BY <3>1 DEF ReadsTrue
  <2>2. CASE ~failed
    <3>1. Exact /\ Follows(data, t, k, n) BY <1>10, <2>2
    <3>2. Follows(Due(h, n), t, k, n) BY <1>3, <3>1, DueFacts
    <3>3. data = Due(h, n) BY <3>1, <3>2 DEF Follows
    <3>4. got'.found = data /\ got'.due = Due(h, n) BY <1>8
    <3> QED BY <3>3, <3>4 DEF ReadsTrue
  <2> QED BY <2>1, <2>2
<1>14. b.blk = "open" /\ ~failed => u.blk = "open" BY <1>10
<1>15. Works(b, acc[h], u, a) BY <1>7
<1> HIDE DEF failed, j, u, a, k, t
<1>16. ContentsInv' BY <1>3, <1>8, <1>9, <1>11, <1>12, <1>14, <1>15, StepContents
<1> QED BY <1>13, <1>16

----------------------------------------------------------------------------
(* Objects that nobody works with: creating and removing them.             *)

\* Objects with one more.
LEMMA StoredFacts ==
  ASSUME NEW f, Stored(f), NEW o \in Oid, NEW d, Fits(d, MaxLen[o])
  PROVE  Stored(With(f, o, d))
<1> DEFINE g == With(f, o, d)
<1>1. /\ DOMAIN g = DOMAIN f \cup {o} /\ g[o] = d /\ \A i \in DOMAIN f : i # o => g[i] = f[i]
      /\ g = [i \in DOMAIN g |-> g[i]]
  BY DEF With
<1> HIDE DEF g
<1>2. DOMAIN g \subseteq Oid BY <1>1 DEF Stored
<1>3. \A i \in DOMAIN g : Fits(g[i], MaxLen[i]) BY <1>1 DEF Stored
<1>4. Stored(g) BY <1>1, <1>2, <1>3 DEF Stored
<1> QED BY <1>4 DEF g

\* Objects with one less.
LEMMA RestrictFacts ==
  ASSUME NEW f, Stored(f), NEW o
  PROVE  LET g == Restrict(f, DOMAIN f \ {o})
         IN  /\ Stored(g) /\ DOMAIN g = DOMAIN f \ {o}
             /\ \A i \in DOMAIN f : i # o => g[i] = f[i]
<1> DEFINE g == Restrict(f, DOMAIN f \ {o})
<1>1. /\ DOMAIN g = DOMAIN f \ {o} /\ \A i \in DOMAIN f : i # o => g[i] = f[i]
      /\ g = [i \in DOMAIN g |-> g[i]]
  BY DEF Restrict
<1> HIDE DEF g
<1>2. DOMAIN g \subseteq Oid BY <1>1 DEF Stored
<1>3. \A i \in DOMAIN g : Fits(g[i], MaxLen[i]) BY <1>1 DEF Stored
<1>4. Stored(g) BY <1>1, <1>2, <1>3 DEF Stored
<1> QED BY <1>1, <1>4 DEF g

\* A call on a server that changes its objects alone.
LEMMA ObjectsSane ==
  ASSUME NEW v, Sane(v), v.blk = "open", NEW g, Stored(g), NEW u, u = [v EXCEPT !.objs = g]
  PROVE  /\ Sane(u) /\ u.objs = g /\ u.fds = v.fds /\ u.up = v.up /\ u.blk = v.blk
<1>1. Server(v) BY DEF Sane
<1>2. u = [blk |-> v.blk, up |-> v.up, objs |-> g, saved |-> v.saved, fds |-> v.fds]
  BY <1>1 DEF Server
<1>3. /\ u.objs = g /\ u.fds = v.fds /\ u.up = v.up /\ u.blk = v.blk /\ u.saved = v.saved
      /\ u = [blk |-> u.blk, up |-> u.up, objs |-> u.objs, saved |-> u.saved, fds |-> u.fds]
  BY <1>2
<1>4. Server(u) BY <1>1, <1>3 DEF Server, Fds
<1> QED BY <1>3, <1>4 DEF Sane

\* A server with the descriptors and the client's objects of another.
Beside(v, u) ==
  /\ Sane(u) /\ u.fds = v.fds /\ u.up = v.up
  /\ u.blk = v.blk \/ (v.blk = "open" /\ u.blk = "failed")
  /\ \A h \in Live : acc[h].id \in DOMAIN v.objs =>
       acc[h].id \in DOMAIN u.objs /\ u.objs[acc[h].id] = v.objs[acc[h].id]

\* What would be without a buffer after a call that concerns none of the client's objects.
WantedBeside(v, want) ==
  /\ Stored(want)
  /\ \A h \in Live : acc[h].id \in DOMAIN ideal =>
       acc[h].id \in DOMAIN want /\ want[acc[h].id] = ideal[acc[h].id]
  /\ b.up => DOMAIN v.objs = DOMAIN want
  /\ b.up => \A o \in DOMAIN v.objs : ~Shared(o) => v.objs[o] = want[o]

\* Such a call keeps everything in order.
LEMMA AsideContents ==
  ASSUME ContentsInv, Active, NEW u, Beside(b, u), NEW failed \in BOOLEAN, NEW want,
         Called(u, failed, FALSE, want), acc' = acc,
         at' \in [Handle -> Nat], \A h \in Live : at'[h] = at[h], Fits(file', MaxFile),
         b.blk = "open" /\ ~failed => u.blk = "open",
         ~told /\ ~silent /\ ~failed => WantedBeside(u, want)
  PROVE  ContentsInv'
<1>1. /\ b' = u /\ tx' = tx /\ begun' = begun /\ told' = (told \/ failed) /\ silent' = silent
      /\ ideal' = IF told' \/ silent' THEN u.objs ELSE want
  BY DEF Called, ContentsInv, PartsInOrder
<1>2. Live' = Live /\ \A h \in Live : h \in Handle /\ acc[h].kind # "none" BY DEF Live
<1>3. PartsInOrder /\ IdleInOrder /\ AccessesApart /\ ContentsKnown BY DEF ContentsInv
<1>4. PartsInOrder'
  <2>1. Stored(ideal')
    <3>1. Stored(u.objs) BY DEF Beside, Sane
    <3>2. ~told' /\ ~silent' => Stored(want) BY <1>1 DEF WantedBeside
    <3> QED BY <1>1, <3>1, <3>2
  <2>2. Sane(b') BY <1>1 DEF Beside
  <2>3. told' \in BOOLEAN /\ silent' \in BOOLEAN BY <1>1, <1>3 DEF PartsInOrder
  <2> QED BY <1>1, <1>3, <2>1, <2>2, <2>3 DEF PartsInOrder
<1>5. tx = "active" BY DEF Active
<1>6. IdleInOrder' BY <1>1, <1>5 DEF IdleInOrder
<1>7. Sound' => Sound /\ ~failed /\ Exact /\ b.up
  BY <1>1, <1>5 DEF Sound, Active, Exact, Beside
<1>8. Exact' => Exact /\ ~failed BY <1>1, <1>5 DEF Exact
<1>9. b'.blk = "open" => b.blk = "open" BY <1>1 DEF Beside
<1>10. b.blk = "open" =>
         \A h \in Live : /\ Owns(b, acc[h]) /\ Owns(u, acc[h])
                         /\ Whole(u, acc[h]) = Whole(b, acc[h])
                         /\ Mark(u, acc[h]) = Mark(b, acc[h])
  <2> SUFFICES ASSUME b.blk = "open", NEW h \in Live
               PROVE  /\ Owns(b, acc[h]) /\ Owns(u, acc[h])
                      /\ Whole(u, acc[h]) = Whole(b, acc[h])
                      /\ Mark(u, acc[h]) = Mark(b, acc[h])
    OBVIOUS
  <2>1. Owns(b, acc[h]) BY <1>3 DEF AccessesApart
  <2>2. acc[h].id \in DOMAIN u.objs /\ u.objs[acc[h].id] = b.objs[acc[h].id] /\ u.fds = b.fds
    BY <2>1 DEF Beside, Owns
  <2> QED BY <2>1, <2>2 DEF Owns, Whole, Mark
<1>11. AccessesApart'
  <2>1. silent' => b'.blk # "open" BY <1>1, <1>3, <1>9 DEF AccessesApart
  <2>2. Sound' => b'.blk = "open" BY <1>1, <1>3, <1>7 DEF AccessesApart
  <2>3. \A h, i \in Live' : h # i => acc'[h].id # acc'[i].id BY <1>2, <1>3 DEF AccessesApart
  <2>4. b'.blk = "open" => \A h, i \in Live' : h # i => acc'[h].fd # acc'[i].fd
    BY <1>2, <1>3, <1>9 DEF AccessesApart
  <2>5. b'.blk = "open" => \A h \in Live' : Owns(b', acc'[h]) BY <1>1, <1>2, <1>9, <1>10
  <2> QED BY <2>1, <2>2, <2>3, <2>4, <2>5 DEF AccessesApart
<1>12. ASSUME Exact'
       PROVE  /\ ideal' = want /\ WantedBeside(u, want)
              /\ \A h \in Live' : acc'[h].id \in DOMAIN ideal' /\ at'[h] <= Len(ideal'[acc'[h].id])
  <2>1. Exact /\ ideal' = want /\ WantedBeside(u, want) BY <1>1, <1>8, <1>12 DEF Exact
  <2>2. ASSUME NEW h \in Live
        PROVE  acc[h].id \in DOMAIN want /\ at'[h] <= Len(want[acc[h].id])
    <3>1. acc[h].id \in DOMAIN ideal /\ at[h] <= Len(ideal[acc[h].id])
      BY <1>3, <2>1 DEF ContentsKnown
    <3> QED BY <2>1, <3>1 DEF WantedBeside
  <2> QED BY <1>2, <2>1, <2>2
<1>13. ASSUME Sound'
       PROVE  /\ DOMAIN b'.objs = DOMAIN ideal'
              /\ \A h \in Live' : Matches(b', acc'[h], at'[h], ideal'[acc'[h].id])
              /\ \A o \in DOMAIN b'.objs : ~Shared(o)' => b'.objs[o] = ideal'[o]
  <2>1. Sound /\ Exact' /\ Exact /\ b.up /\ b.blk = "open"
    BY <1>3, <1>7, <1>13 DEF Sound, Exact, AccessesApart
  <2>2. ideal' = want /\ WantedBeside(u, want) BY <1>12, <2>1
  <2>3. DOMAIN b'.objs = DOMAIN ideal' BY <1>1, <2>1, <2>2 DEF WantedBeside
  <2>4. \A o \in DOMAIN b'.objs : ~Shared(o)' => b'.objs[o] = ideal'[o]
    BY <1>1, <2>1, <2>2 DEF WantedBeside, Shared
  <2>5. ASSUME NEW h \in Live PROVE Matches(u, acc[h], at'[h], want[acc[h].id])
    <3>1. Matches(b, acc[h], at[h], ideal[acc[h].id]) BY <1>3, <2>1 DEF ContentsKnown
    <3>2. acc[h].id \in DOMAIN ideal BY <1>3, <2>1 DEF ContentsKnown
    <3>3. want[acc[h].id] = ideal[acc[h].id] BY <2>2, <3>2 DEF WantedBeside
    <3>4. Matches(u, acc[h], at[h], ideal[acc[h].id]) BY <1>10, <2>1, <3>1, MatchesSame
    <3> QED BY <3>3, <3>4
  <2> QED BY <1>1, <1>2, <2>2, <2>3, <2>4, <2>5
<1>14. ContentsKnown' BY <1>12, <1>13 DEF ContentsKnown
<1> QED BY <1>4, <1>6, <1>11, <1>14 DEF ContentsInv

\* A call that was refused has changed nothing but the block.
LEMMA RefusedBeside ==
  ASSUME ContentsInv, NEW r \in Failing(b)
  PROVE  Beside(b, r.b) /\ r.res = -1 /\ r.b.blk # "open"
<1>1. Sane(b) BY DEF ContentsInv, PartsInOrder
<1>2. Refused(b, r.b, 0, 0) /\ r.res = -1 /\ r.b.objs = b.objs /\ r.b.fds = b.fds
  BY <1>1, FailingTouches
<1> QED BY <1>2 DEF Beside, Refused, Touches

\* What a step that leaves at and file leaves.
LEMMA PlacesStay ==
  ASSUME ContentsInv, UNCHANGED <<acc, file, at>>
  PROVE  /\ at' \in [Handle -> Nat] /\ (\A h \in Live : at'[h] = at[h])
         /\ Fits(file', MaxFile) /\ acc' = acc
BY DEF ContentsInv, PartsInOrder

\* Nothing failed, and there is a session: the objects are those without a buffer.
LEMMA ObjectsKnown ==
  ASSUME ContentsInv, Exact, b.up
  PROVE  DOMAIN b.objs = DOMAIN ideal /\ \A o \in DOMAIN b.objs : ~Shared(o) => b.objs[o] = ideal[o]
BY DEF ContentsInv, ContentsKnown, Exact, Sound

\* largeobject(T), largeobject(T, File)
LEMMA CreateContents ==
  ASSUME ContentsInv, NEW o \in Oid, NEW text, Fits(text, MaxLen[o]), Create(o, text)
  PROVE  ContentsInv'
<1> DEFINE want == With(ideal, o, text)
           g == With(b.objs, o, text)
<1>1. PICK r \in lo_creat(b, o, text) : Called(r.b, r.res = -1, FALSE, want)
  BY DEF Create
<1>2. Active /\ ~Shared(o) /\ UNCHANGED <<acc, file, at>> BY DEF Create
<1>3. Sane(b) /\ Stored(b.objs) /\ Stored(ideal) BY DEF ContentsInv, PartsInOrder, Sane
<1>4. /\ Stored(g) /\ DOMAIN g = DOMAIN b.objs \cup {o} /\ g[o] = text
      /\ \A i \in DOMAIN b.objs : i # o => g[i] = b.objs[i]
  <2>1. Stored(g) BY <1>3, StoredFacts
  <2>2. /\ DOMAIN g = DOMAIN b.objs \cup {o} /\ g[o] = text
        /\ \A i \in DOMAIN b.objs : i # o => g[i] = b.objs[i]
    BY DEF With
  <2> QED BY <2>1, <2>2
<1>5. /\ Stored(want) /\ DOMAIN want = DOMAIN ideal \cup {o} /\ want[o] = text
      /\ \A i \in DOMAIN ideal : i # o => want[i] = ideal[i]
  <2>1. Stored(want) BY <1>3, StoredFacts
  <2>2. /\ DOMAIN want = DOMAIN ideal \cup {o} /\ want[o] = text
        /\ \A i \in DOMAIN ideal : i # o => want[i] = ideal[i]
    BY DEF With
  <2> QED BY <2>1, <2>2
<1>6. \A h \in Live : acc[h].id # o BY <1>2 DEF Shared, Live
<1> DEFINE failed == r.res = -1
           v == [b EXCEPT !.objs = g]
<1>7. r \in Failing(b) \/ (b.up /\ b.blk = "open" /\ r = Res(v, o))
  BY <1>1 DEF lo_creat, LoCall
<1> HIDE DEF want, g
<1>8. CASE r \in Failing(b)
  <2>1. Beside(b, r.b) /\ failed BY <1>8, RefusedBeside
  <2>2. failed \in BOOLEAN OBVIOUS
  <2> QED BY <1>1, <1>2, <2>1, <2>2, PlacesStay, AsideContents
<1>9. CASE b.up /\ b.blk = "open" /\ r = Res(v, o)
  <2>1. r.b = v BY <1>9 DEF Res
  <2>2. Sane(v) /\ v.objs = g /\ v.fds = b.fds /\ v.up = b.up /\ v.blk = b.blk
    BY <1>3, <1>4, <1>9, ObjectsSane
  <2> HIDE DEF v
  <2>3. Beside(b, v) BY <1>4, <1>6, <2>2 DEF Beside
  <2>4. ASSUME ~told, ~silent PROVE WantedBeside(v, want)
    <3>1. Exact BY <1>2, <2>4 DEF Exact
    <3>2. /\ DOMAIN b.objs = DOMAIN ideal
          /\ \A i \in DOMAIN b.objs : ~Shared(i) => b.objs[i] = ideal[i]
      BY <1>9, <3>1, ObjectsKnown
    <3>3. DOMAIN v.objs = DOMAIN want BY <1>4, <1>5, <2>2, <3>2
    <3>4. \A i \in DOMAIN v.objs : ~Shared(i) => v.objs[i] = want[i]
      BY <1>4, <1>5, <2>2, <3>2
    <3>5. \A h \in Live : acc[h].id \in DOMAIN ideal =>
            acc[h].id \in DOMAIN want /\ want[acc[h].id] = ideal[acc[h].id]
      BY <1>5, <1>6
    <3> QED BY <1>5, <3>3, <3>4, <3>5 DEF WantedBeside
  <2>5. failed \in BOOLEAN OBVIOUS
  <2>6. Called(v, failed, FALSE, want) BY <1>1, <2>1
  <2> HIDE DEF failed
  <2> QED BY <1>2, <1>9, <2>2, <2>3, <2>4, <2>5, <2>6, PlacesStay, AsideContents
<1> QED BY <1>7, <1>8, <1>9

\* remove()
LEMMA RemoveContents ==
  ASSUME ContentsInv, Careless = {}, NEW o \in Oid, Remove(o)
  PROVE  ContentsInv'
<1> DEFINE want == Restrict(ideal, DOMAIN ideal \ {o})
           g == Restrict(b.objs, DOMAIN b.objs \ {o})
<1>1. PICK r \in lo_unlink(b, o) : Called(r.b, r.res = -1, FALSE, want)
  BY DEF Remove
<1>2. Active /\ ~Shared(o) /\ UNCHANGED <<acc, file, at>> BY DEF Remove
<1>3. Sane(b) /\ Stored(b.objs) /\ Stored(ideal) BY DEF ContentsInv, PartsInOrder, Sane
<1>4. /\ Stored(g) /\ DOMAIN g = DOMAIN b.objs \ {o}
      /\ \A i \in DOMAIN b.objs : i # o => g[i] = b.objs[i]
  BY <1>3, RestrictFacts
<1>5. /\ Stored(want) /\ DOMAIN want = DOMAIN ideal \ {o}
      /\ \A i \in DOMAIN ideal : i # o => want[i] = ideal[i]
  BY <1>3, RestrictFacts
<1>6. \A h \in Live : acc[h].id # o BY <1>2 DEF Shared, Live
<1> DEFINE failed == r.res = -1
           v == [b EXCEPT !.objs = g]
<1>7. r \in Failing(b) \/ (b.up /\ b.blk = "open" /\ r = Res(v, 1))
  BY <1>1 DEF lo_unlink, LoCall
<1> HIDE DEF want, g
<1>8. CASE r \in Failing(b)
  <2>1. Beside(b, r.b) /\ failed BY <1>8, RefusedBeside
  <2>2. failed \in BOOLEAN OBVIOUS
  <2> QED BY <1>1, <1>2, <2>1, <2>2, PlacesStay, AsideContents
<1>9. CASE b.up /\ b.blk = "open" /\ r = Res(v, 1)
  <2>1. r.b = v BY <1>9 DEF Res
  <2>2. Sane(v) /\ v.objs = g /\ v.fds = b.fds /\ v.up = b.up /\ v.blk = b.blk
    BY <1>3, <1>4, <1>9, ObjectsSane
  <2> HIDE DEF v
  <2>3. Beside(b, v) BY <1>4, <1>6, <2>2 DEF Beside
  <2>4. ASSUME ~told, ~silent PROVE WantedBeside(v, want)
    <3>1. Exact BY <1>2, <2>4 DEF Exact
    <3>2. /\ DOMAIN b.objs = DOMAIN ideal
          /\ \A i \in DOMAIN b.objs : ~Shared(i) => b.objs[i] = ideal[i]
      BY <1>9, <3>1, ObjectsKnown
    <3>3. DOMAIN v.objs = DOMAIN want BY <1>4, <1>5, <2>2, <3>2
    <3>4. \A i \in DOMAIN v.objs : ~Shared(i) => v.objs[i] = want[i]
      BY <1>4, <1>5, <2>2, <3>2
    <3>5. \A h \in Live : acc[h].id \in DOMAIN ideal =>
            acc[h].id \in DOMAIN want /\ want[acc[h].id] = ideal[acc[h].id]
      BY <1>5, <1>6
    <3> QED BY <1>5, <3>3, <3>4, <3>5 DEF WantedBeside
  <2>5. failed \in BOOLEAN OBVIOUS
  <2>6. Called(v, failed, FALSE, want) BY <1>1, <2>1
  <2> HIDE DEF failed
  <2> QED BY <1>2, <1>9, <2>2, <2>3, <2>4, <2>5, <2>6, PlacesStay, AsideContents
<1> QED BY <1>7, <1>8, <1>9

\* to_file()
LEMMA ToFileContents ==
  ASSUME ContentsInv, NEW o \in Oid, ToFile(o)
  PROVE  ContentsInv'
<1>1. Active /\ UNCHANGED <<acc, at>> BY DEF ToFile
<1>2. Sane(b) /\ Stored(b.objs) /\ Stored(ideal) /\ Fits(file, MaxFile)
  BY DEF ContentsInv, PartsInOrder, Sane
<1>3. at' \in [Handle -> Nat] /\ \A h \in Live : at'[h] = at[h]
  BY <1>1 DEF ContentsInv, PartsInOrder
<1>4. CASE o \in DOMAIN b.objs /\ b.up /\ b.blk = "open"
  <2> DEFINE f == FALSE
  <2>1. Len(b.objs[o]) <= MaxFile /\ file' = b.objs[o] /\ Called(b, f, FALSE, ideal)
    BY <1>4 DEF ToFile
  <2>2. Fits(file', MaxFile) BY <1>2, <1>4, <2>1 DEF Stored, Fits
  <2>3. Beside(b, b) BY <1>2 DEF Beside
  <2>4. ASSUME ~told, ~silent PROVE WantedBeside(b, ideal)
    <3>1. Exact BY <1>1, <2>4 DEF Exact
    <3> QED BY <1>2, <3>1, ObjectsKnown DEF WantedBeside
  <2>5. f \in BOOLEAN /\ (b.blk = "open" /\ ~f => b.blk = "open") OBVIOUS
  <2> HIDE DEF f
  <2> QED BY <1>1, <1>3, <2>1, <2>2, <2>3, <2>4, <2>5, AsideContents
<1>5. CASE ~(o \in DOMAIN b.objs /\ b.up /\ b.blk = "open")
  <2> DEFINE f == TRUE
  <2>1. PICK r \in Failing(b) : Called(r.b, f, FALSE, ideal) /\ file' = file
    BY <1>5 DEF ToFile
  <2>2. Beside(b, r.b) BY RefusedBeside
  <2>3. f \in BOOLEAN /\ f OBVIOUS
  <2> HIDE DEF f
  <2> QED BY <1>1, <1>2, <1>3, <2>1, <2>2, <2>3, AsideContents
<1> QED BY <1>4, <1>5

----------------------------------------------------------------------------
(* Opening.                                                                *)

\* From v to u, what the client's accesses but h work with stays.
OthersStay(h, u) ==
  \A i \in Live \ {h} :
    u.blk = "open" => /\ Owns(u, acc[i]) /\ Whole(u, acc[i]) = Whole(b, acc[i])
                      /\ Mark(u, acc[i]) = Mark(b, acc[i])

\* If e is an access, then on an object and a descriptor of its own.
OwnObject(h, u, e) ==
  e.kind # "none" =>
    /\ \A i \in Live \ {h} : acc[i].id # e.id /\ (u.blk = "open" => acc[i].fd # e.fd)
    /\ u.blk = "open" => Owns(u, e)

\* And it is where it should be.
OwnPlace(u, e, k) ==
  e.kind # "none" =>
    /\ Exact => e.id \in DOMAIN ideal /\ k <= Len(ideal[e.id])
    /\ Sound => Matches(u, e, k, ideal[e.id])

\* An access comes or goes.
LEMMA ChangeContents ==
  ASSUME ContentsInv, Active, NEW h \in Handle, NEW e, Proper(e, Kinds[h]), NEW k \in Nat,
         acc' = [acc EXCEPT ![h] = e], at' = [at EXCEPT ![h] = k], file' = file,
         NEW u, Sane(u), u.up = b.up,
         u.blk = b.blk \/ (b.blk = "open" /\ u.blk = "failed"),
         NEW mute \in BOOLEAN, NEW none, none = FALSE, Called(u, none, mute, ideal),
         b.blk = "open" /\ ~mute => u.blk = "open", mute => u.blk # "open",
         OthersStay(h, u), OwnObject(h, u, e), ~mute => OwnPlace(u, e, k),
         Sound /\ ~mute =>
           /\ DOMAIN u.objs = DOMAIN ideal
           /\ \A o \in DOMAIN u.objs : ~Shared(o)' => u.objs[o] = ideal[o]
  PROVE  ContentsInv'
<1>1. /\ b' = u /\ tx' = tx /\ begun' = begun /\ told' = told /\ silent' = (silent \/ mute)
      /\ ideal' = IF told' \/ silent' THEN u.objs ELSE ideal
  BY DEF Called, ContentsInv, PartsInOrder
<1>2. PartsInOrder /\ IdleInOrder /\ AccessesApart /\ ContentsKnown BY DEF ContentsInv
<1>3. acc'[h] = e /\ (\A i \in Handle \ {h} : acc'[i] = acc[i]) /\ acc' = [i \in Handle |-> acc'[i]]
  BY <1>2 DEF PartsInOrder
<1>4. at'[h] = k /\ (\A i \in Handle \ {h} : at'[i] = at[i]) /\ at' \in [Handle -> Nat]
  BY <1>2 DEF PartsInOrder
<1>5. \A i \in Live' : \/ i = h /\ acc'[i] = e /\ at'[i] = k /\ e.kind # "none"
                       \/ /\ i \in Live \ {h} /\ i \in Handle \ {h} /\ acc'[i] = acc[i]
                          /\ at'[i] = at[i]
  BY <1>3, <1>4 DEF Live
<1>6. PartsInOrder'
  <2>1. Stored(ideal')
    <3>1. Stored(u.objs) BY DEF Sane
    <3>2. Stored(ideal) BY <1>2 DEF PartsInOrder
    <3> QED BY <1>1, <3>1, <3>2
  <2>2. \A i \in Handle : Proper(acc'[i], Kinds[i])
    <3>1. \A i \in Handle : Proper(acc[i], Kinds[i]) BY <1>2 DEF PartsInOrder
    <3> QED BY <1>3, <3>1
  <2>3. told' \in BOOLEAN /\ silent' \in BOOLEAN BY <1>1, <1>2 DEF PartsInOrder
  <2> QED BY <1>1, <1>2, <1>3, <1>4, <2>1, <2>2, <2>3 DEF PartsInOrder
<1>7. tx = "active" BY DEF Active
<1>8. IdleInOrder' BY <1>1, <1>7 DEF IdleInOrder
<1>9. Sound' => Sound /\ ~mute /\ Exact /\ b.up BY <1>1, <1>7 DEF Sound, Active, Exact
<1>10. Exact' => Exact /\ ~mute /\ ideal' = ideal BY <1>1, <1>7 DEF Exact
<1>11. b'.blk = "open" => b.blk = "open" BY <1>1
<1>12. AccessesApart'
  <2>1. silent' => b'.blk # "open" BY <1>1, <1>2, <1>11 DEF AccessesApart
  <2>2. Sound' => b'.blk = "open" BY <1>1, <1>2, <1>9 DEF AccessesApart
  <2>3. \A i, j \in Live' : i # j => acc'[i].id # acc'[j].id
    BY <1>2, <1>5 DEF AccessesApart, OwnObject
  <2>4. b'.blk = "open" => \A i, j \in Live' : i # j => acc'[i].fd # acc'[j].fd
    BY <1>1, <1>2, <1>5, <1>11 DEF AccessesApart, OwnObject
  <2>5. b'.blk = "open" => \A i \in Live' : Owns(b', acc'[i])
    BY <1>1, <1>5 DEF OthersStay, OwnObject
  <2> QED BY <2>1, <2>2, <2>3, <2>4, <2>5 DEF AccessesApart
<1>13. ASSUME Exact', NEW i \in Live'
       PROVE  acc'[i].id \in DOMAIN ideal' /\ at'[i] <= Len(ideal'[acc'[i].id])
  <2>1. Exact /\ ~mute /\ ideal' = ideal BY <1>10, <1>13
  <2>2. CASE i = h BY <1>5, <1>13, <2>1, <2>2 DEF OwnPlace
  <2>3. CASE i # h
    <3>1. i \in Live /\ acc'[i] = acc[i] /\ at'[i] = at[i] BY <1>5, <1>13, <2>3
    <3>2. acc[i].id \in DOMAIN ideal /\ at[i] <= Len(ideal[acc[i].id])
      BY <1>2, <2>1, <3>1 DEF ContentsKnown
    <3> QED BY <2>1, <3>1, <3>2
  <2> QED BY <2>2, <2>3
<1>14. ASSUME Sound'
       PROVE  /\ DOMAIN b'.objs = DOMAIN ideal'
              /\ \A i \in Live' : Matches(b', acc'[i], at'[i], ideal'[acc'[i].id])
              /\ \A o \in DOMAIN b'.objs : ~Shared(o)' => b'.objs[o] = ideal'[o]
  <2>1. Sound /\ ~mute /\ Exact /\ u.blk = "open" BY <1>1, <1>9, <1>14, <1>2 DEF AccessesApart
  <2>2. ideal' = ideal BY <1>1, <1>10, <1>14 DEF Sound, Exact
  <2>3. ASSUME NEW i \in Live' PROVE Matches(u, acc'[i], at'[i], ideal[acc'[i].id])
    <3>1. CASE i = h BY <1>5, <2>1, <3>1 DEF OwnPlace
    <3>2. CASE i # h
      <4>1. i \in Live \ {h} /\ acc'[i] = acc[i] /\ at'[i] = at[i] BY <1>5, <3>2
      <4>2. Matches(b, acc[i], at[i], ideal[acc[i].id]) BY <1>2, <2>1, <4>1 DEF ContentsKnown
      <4>3. Whole(u, acc[i]) = Whole(b, acc[i]) /\ Mark(u, acc[i]) = Mark(b, acc[i])
        BY <2>1, <4>1 DEF OthersStay
      <4>4. Matches(u, acc[i], at[i], ideal[acc[i].id]) BY <4>2, <4>3 DEF Matches
      <4> QED BY <4>1, <4>4
    <3> QED BY <3>1, <3>2
  <2>4. DOMAIN u.objs = DOMAIN ideal /\ \A o \in DOMAIN u.objs : ~Shared(o)' => u.objs[o] = ideal[o]
    BY <2>1
  <2> QED BY <1>1, <2>2, <2>3, <2>4
<1>15. ContentsKnown' BY <1>13, <1>14 DEF ContentsKnown
<1> QED BY <1>6, <1>8, <1>12, <1>15 DEF ContentsInv

\* Descriptor d of server u, with number n, is what it has more than v.
OneMore(v, u, n, d) ==
  /\ Sane(u) /\ u.objs = v.objs /\ u.up = v.up /\ u.blk = v.blk
  /\ DOMAIN u.fds = DOMAIN v.fds \cup {n} /\ u.fds[n] = d
  /\ \A fd \in DOMAIN v.fds : u.fds[fd] = v.fds[fd]

\* A server with one more descriptor, at the start of its object.
LEMMA OpenedSane ==
  ASSUME NEW v, Sane(v), v.blk = "open", NEW n \in Nat, n \notin DOMAIN v.fds, NEW o \in Oid,
         NEW w \in BOOLEAN, NEW d, d = [obj |-> o, pos |-> 0, write |-> w],
         NEW u, u = [v EXCEPT !.fds = With(v.fds, n, d)]
  PROVE  OneMore(v, u, n, d)
<1> DEFINE fds == With(v.fds, n, d)
<1>1. Server(v) /\ (\A fd \in DOMAIN v.fds : Placed(v.fds[fd])) BY DEF Sane
<1>2. /\ DOMAIN fds = DOMAIN v.fds \cup {n} /\ fds[n] = d
      /\ \A fd \in DOMAIN v.fds : fds[fd] = v.fds[fd]
  BY DEF With
<1> HIDE DEF fds
<1>3. u = [blk |-> v.blk, up |-> v.up, objs |-> v.objs, saved |-> v.saved, fds |-> fds]
  BY <1>1 DEF Server, fds
<1>4. /\ u.objs = v.objs /\ u.up = v.up /\ u.blk = v.blk /\ u.saved = v.saved /\ u.fds = fds
      /\ u = [blk |-> u.blk, up |-> u.up, objs |-> u.objs, saved |-> u.saved, fds |-> u.fds]
  <2> DEFINE x == u
  <2>1. x = [blk |-> v.blk, up |-> v.up, objs |-> v.objs, saved |-> v.saved, fds |-> fds]
    BY <1>3
  <2> HIDE DEF x
  <2>2. x.objs = v.objs /\ x.up = v.up /\ x.blk = v.blk /\ x.saved = v.saved /\ x.fds = fds
    BY <2>1
  <2>3. x = [blk |-> x.blk, up |-> x.up, objs |-> x.objs, saved |-> x.saved, fds |-> x.fds]
    BY <2>1, <2>2
  <2> QED BY <2>2, <2>3 DEF x
<1>5. IsFiniteSet(DOMAIN fds) /\ DOMAIN fds \subseteq Nat
  <2>1. IsFiniteSet(DOMAIN v.fds) /\ DOMAIN v.fds \subseteq Nat BY <1>1 DEF Server, Fds
  <2>2. IsFiniteSet(DOMAIN v.fds \cup {n}) BY <2>1, FS_AddElement
  <2> QED BY <1>2, <2>1, <2>2
<1>6. Descriptor(d) /\ d.obj = o /\ d.pos = 0 /\ d.write = w BY DEF Descriptor
<1>7. Placed(d)
  <2>1. MaxLen[o] \in Nat BY ConstantsAssumption
  <2> QED BY <1>6, <2>1 DEF Placed
<1>8. Server(u) BY <1>1, <1>2, <1>4, <1>5, <1>6 DEF Server, Fds
<1>9. \A fd \in DOMAIN u.fds : Placed(u.fds[fd]) BY <1>1, <1>2, <1>4, <1>7
<1>10. Sane(u) BY <1>4, <1>8, <1>9 DEF Sane
<1> QED BY <1>2, <1>4, <1>10 DEF OneMore

\* An access that has just been constructed has empty areas.
LEMMA FreshFacts ==
  ASSUME NEW kind, NEW o, NEW fd, NEW a, a = Fresh(kind, o, fd)
  PROVE  /\ Areas(a) /\ a.kind = kind /\ a.id = o /\ a.fd = fd /\ a.p = <<>> /\ Taken(a)
         /\ a.state = "good"
<1>1. /\ Access(a) /\ a.kind = kind /\ a.id = o /\ a.fd = fd /\ a.g = <<>> /\ a.gp = 0
      /\ a.p = <<>> /\ a.state = "good"
  BY DEF Access, Fresh
<1>2. Len(<<>>) = 0 /\ Fits(<<>>, BufSize) BY ShortTexts
<1>3. Len(a.g) = 0 /\ Fits(a.g, BufSize) /\ Fits(a.p, BufSize) BY <1>1, <1>2
<1>4. a.gp \in 0..Len(a.g) /\ Taken(a) BY <1>1, <1>3 DEF Taken
<1>5. a.state \in Iostates BY <1>1 DEF Iostates
<1>6. Sized(a) BY <1>1, <1>3, <1>4, <1>5 DEF Sized
<1> QED BY <1>1, <1>4, <1>6 DEF Areas

\* The constructors of largeobjectaccess and of the streams
LEMMA OpenContents ==
  ASSUME ContentsInv, Careless = {}, NEW h \in Handle, NEW kind \in Kinds[h], NEW o \in Oid,
         Open(h, kind, o)
  PROVE  ContentsInv'
<1> DEFINE w == "out" \in Mode(kind)
           d == [obj |-> o, pos |-> 0, write |-> w]
           n == NextFd(b)
           u == [b EXCEPT !.fds = With(b.fds, n, d)]
<1>1. PICK q \in lo_open(b, o, w) :
        LET r == Seen(q.b, Fresh(kind, o, q.res), q.res)
        IN /\ Called(r.b, r.res < 0, FALSE, ideal)
           /\ acc' = IF r.res < 0 THEN acc ELSE [acc EXCEPT ![h] = r.a]
  BY DEF Open, open
<1> DEFINE failed == q.res < 0
           e == Fresh(kind, o, q.res)
<1>2. /\ Called(q.b, failed, FALSE, ideal) /\ acc' = IF failed THEN acc ELSE [acc EXCEPT ![h] = e]
  <2> DEFINE r == Seen(q.b, e, q.res)
  <2>1. r.b = q.b /\ r.a = e /\ r.res = q.res BY DEF Seen
  <2>2. Called(r.b, r.res < 0, FALSE, ideal) BY <1>1
  <2>3. acc' = IF r.res < 0 THEN acc ELSE [acc EXCEPT ![h] = r.a] BY <1>1
  <2> HIDE DEF r, e
  <2>4. Called(q.b, failed, FALSE, ideal) BY <2>1, <2>2
  <2>5. acc' = IF failed THEN acc ELSE [acc EXCEPT ![h] = e] BY <2>1, <2>3
  <2> QED BY <2>4, <2>5
<1>3. Active /\ acc[h].kind = "none" /\ ~Shared(o) /\ file' = file /\ at' = [at EXCEPT ![h] = 0]
      /\ ~told
  BY DEF Open, Free
<1>4. q \in Failing(b) \/ (q = Res(u, n) /\ b.blk = "open" /\ b.up /\ o \in DOMAIN b.objs)
  BY DEF lo_open, LoCall
<1>5. w \in BOOLEAN OBVIOUS
<1>6. Sane(b) /\ at \in [Handle -> Nat] /\ Fits(file, MaxFile)
  BY DEF ContentsInv, PartsInOrder
<1>7. h \notin Live BY <1>3 DEF Live
<1> HIDE DEF w
<1>8. CASE q \in Failing(b)
  <2>1. Beside(b, q.b) /\ q.res = -1 BY <1>8, RefusedBeside
  <2>2. failed = TRUE BY <2>1
  <2>3. at' \in [Handle -> Nat] BY <1>3, <1>6
  <2>4. \A i \in Live : at'[i] = at[i] BY <1>3, <1>6, <1>7 DEF Live
  <2> HIDE DEF failed
  <2>5. acc' = acc /\ failed \in BOOLEAN BY <1>2, <2>2
  <2> QED BY <1>2, <1>3, <1>6, <2>1, <2>2, <2>3, <2>4, <2>5, AsideContents
<1>9. CASE q = Res(u, n) /\ b.blk = "open" /\ b.up /\ o \in DOMAIN b.objs
  <2>1. n \in Nat /\ n \notin DOMAIN b.fds BY <1>6, NextFdIsNew DEF Sane, Server
  <2> HIDE DEF n
  <2>2. q.b = u /\ q.res = n BY <1>9 DEF Res
  <2>3. ~failed /\ failed = FALSE BY <2>1, <2>2
  <2>4. /\ Sane(u) /\ u.objs = b.objs /\ u.up = b.up /\ u.blk = b.blk
        /\ DOMAIN u.fds = DOMAIN b.fds \cup {n} /\ u.fds[n] = d
        /\ \A fd \in DOMAIN b.fds : u.fds[fd] = b.fds[fd]
    <3>1. d = [obj |-> o, pos |-> 0, write |-> w] /\ u = [b EXCEPT !.fds = With(b.fds, n, d)]
      OBVIOUS
    <3> HIDE DEF d, u
    <3>2. OneMore(b, u, n, d) BY <1>5, <1>6, <1>9, <2>1, <3>1, OpenedSane
    <3> QED BY <3>2 DEF OneMore
  <2>5. /\ Areas(e) /\ e.kind = kind /\ e.id = o /\ e.fd = n /\ e.p = <<>> /\ Taken(e)
        /\ e.state = "good"
    BY <2>2, FreshFacts
  <2>6. d.obj = o /\ d.pos = 0 OBVIOUS
  <2> HIDE DEF u, d, e, failed
  <2>7. kind # "none" BY ConstantsAssumption
  <2>8. Proper(e, Kinds[h]) BY <2>5, <2>7 DEF Proper
  <2>9. acc' = [acc EXCEPT ![h] = e] /\ Called(u, failed, FALSE, ideal) BY <1>2, <2>2, <2>3
  <2>10. AccessesApart /\ \A i \in Live : acc[i].kind # "none" /\ i \in Handle
    BY DEF ContentsInv, Live
  <2>11. \A i \in Live : Owns(b, acc[i]) BY <1>9, <2>10 DEF AccessesApart
  <2>12. \A i \in Live : acc[i].fd \in DOMAIN b.fds /\ acc[i].fd # n /\ acc[i].id # o
    BY <1>3, <2>1, <2>10, <2>11 DEF Owns, Shared
  <2>13. OthersStay(h, u) BY <2>4, <2>11, <2>12 DEF OthersStay, Owns, Whole, Mark
  <2>14. Owns(u, e)
    <3>1. e.fd \in DOMAIN u.fds /\ u.fds[e.fd].obj = e.id /\ e.id \in DOMAIN u.objs
          /\ u.fds[e.fd].pos = 0
      BY <1>9, <2>4, <2>5, <2>6
    <3>2. MaxLen[o] \in Nat BY ConstantsAssumption
    <3>3. Stored(u.objs) BY <2>4 DEF Sane
    <3>4. u.objs[o] \in Seq(Char) BY <1>9, <2>4, <3>3 DEF Stored, Fits
    <3>5. Len(u.objs[o]) \in Nat /\ Len(e.p) = 0 BY <2>5, <3>4, TextFacts, EmptySeq
    <3> QED BY <2>5, <3>1, <3>2, <3>5 DEF Owns
  <2>15. OwnObject(h, u, e) BY <2>5, <2>12, <2>14 DEF OwnObject
  <2>16. Sound BY <1>3, <1>9 DEF ContentsInv, PartsInOrder, AccessesApart, Sound
  <2>17. Exact /\ b.up BY <2>16 DEF Sound, Exact
  <2>18. DOMAIN b.objs = DOMAIN ideal /\ \A i \in DOMAIN b.objs : ~Shared(i) => b.objs[i] = ideal[i]
    BY <2>17, ObjectsKnown
  <2>19. ideal[o] = u.objs[e.id] /\ o \in DOMAIN ideal BY <1>3, <1>9, <2>4, <2>5, <2>18
  <2>20. u.fds[e.fd].pos = 0 BY <2>4, <2>5, <2>6
  <2>21. Matches(u, e, 0, ideal[e.id])
    <3> DEFINE k == 0
    <3>1. k \in Nat /\ k = u.fds[e.fd].pos /\ ideal[e.id] = u.objs[e.id] BY <2>5, <2>19, <2>20
    <3> HIDE DEF k
    <3>2. Matches(u, e, k, ideal[e.id]) BY <2>4, <2>5, <2>14, <3>1, MatchesFlat
    <3> QED BY <3>2 DEF k
  <2>22. OwnPlace(u, e, 0)
    <3>1. Len(u.objs[e.id]) \in Nat BY <2>4, <2>14, OwnsFacts
    <3>2. e.id \in DOMAIN ideal /\ 0 <= Len(ideal[e.id]) BY <2>5, <2>19, <3>1
    <3> QED BY <2>21, <3>2 DEF OwnPlace
  <2>23. ASSUME NEW i \in DOMAIN u.objs, ~Shared(i)' PROVE u.objs[i] = ideal[i]
    <3>1. CASE i = o BY <2>5, <2>19, <3>1
    <3>2. CASE i # o
      <4>1. \A j \in Live : acc'[j] = acc[j] BY <1>7, <2>9, <2>10 DEF ContentsInv, PartsInOrder
      <4>2. ~Shared(i) BY <2>10, <2>23, <4>1 DEF Shared, Live
      <4> QED BY <2>4, <2>18, <2>23, <4>2
    <3> QED BY <3>1, <3>2
  <2> DEFINE k == 0
             mute == FALSE
  <2>24. /\ k \in Nat /\ mute \in BOOLEAN /\ at' = [at EXCEPT ![h] = k] /\ OwnPlace(u, e, k)
         /\ Called(u, failed, mute, ideal) /\ ~mute
    BY <1>3, <2>9, <2>22
  <2> HIDE DEF k, mute
  <2>25. DOMAIN u.objs = DOMAIN ideal BY <2>4, <2>18
  <2> QED BY <1>3, <1>9, <2>3, <2>4, <2>8, <2>9, <2>13, <2>15, <2>23, <2>24, <2>25, ChangeContents
<1> QED BY <1>4, <1>8, <1>9

----------------------------------------------------------------------------
(* Destroying.                                                             *)

\* When sync() of a stream that writes returns eof, the call was refused.
LEMMA SyncFailing ==
  ASSUME NEW v, NEW a, Ready(v, a), Sized(a), Writes(a.kind), NEW r \in sync(v, a), r.res = EoF
  PROVE  r.b.blk # "open"
<1> DEFINE e == [a EXCEPT !.gp = 0]
           f == [e EXCEPT !.p = <<>>]
<1>1. Len(a.g) \in Nat /\ 0 \in 0..Len(a.g) BY TextFacts DEF Sized, Fits
<1>2. Sized(e) /\ SameAccess(a, e) /\ e.p = a.p BY <1>1, SizedFacts
<1>3. r \in overflow(v, e, <<>>) BY DEF sync
<1> HIDE DEF e
<1>4. e.id = a.id /\ e.fd = a.fd /\ e.kind = a.kind BY <1>2 DEF SameAccess
<1>5. PICK q \in IF e.p = <<>> THEN {Res(v, 0)} ELSE cwrite(v, e, e.p) : r = Seen(q.b, f, q.res)
  BY <1>3, <1>4 DEF overflow
<1> HIDE DEF f
<1>6. r.b = q.b /\ q.res = -1 BY <1>5 DEF Seen, EoF
<1>7. CASE e.p = <<>>
  <2>1. q.res = 0 BY <1>5, <1>7 DEF Res
  <2> QED BY <1>6, <2>1
<1>8. CASE e.p # <<>>
  <2>1. q \in lo_write(v, a.fd, a.p) BY <1>2, <1>4, <1>5, <1>8 DEF cwrite
  <2>2. a.p \in Seq(Char) /\ Len(a.p) \in Nat BY TextFacts DEF Sized, Fits
  <2>3. v.blk = "open" => v.fds[a.fd].pos + Len(a.p) <= MaxLen[a.id] BY DEF Ready, Owns
  <2>4. (q.res = -1 /\ Refused(v, q.b, a.id, a.fd)) \/ q.res = Len(a.p)
    BY <2>1, <2>2, <2>3, WriteCall
  <2> QED BY <1>6, <2>2, <2>4 DEF Refused
<1> QED BY <1>7, <1>8

\* Calls, and then more calls.
LEMMA WorksTwice ==
  ASSUME NEW v, NEW a, NEW u, NEW e, Works(v, a, u, e), NEW x, NEW f, Works(u, e, x, f)
  PROVE  Works(v, a, x, f)
<1>1. e.id = a.id /\ e.fd = a.fd /\ e.kind = a.kind BY DEF Works, SameAccess
<1>2. Touches(v, u, a.id, a.fd) /\ Touches(u, x, a.id, a.fd) BY <1>1 DEF Works
<1>3. Touches(v, x, a.id, a.fd)
  <2>1. u.blk = v.blk \/ (v.blk = "open" /\ u.blk = "failed") BY <1>2 DEF Touches
  <2>2. x.blk = u.blk \/ (u.blk = "open" /\ x.blk = "failed") BY <1>2 DEF Touches
  <2> QED BY <1>2, <2>1, <2>2 DEF Touches
<1>4. SameAccess(a, f) BY <1>1 DEF Works, SameAccess
<1> QED BY <1>3, <1>4 DEF Works

\* The object is as it should be, with nothing left to write.
Settled(v, a, u, e) == u.blk = "open" => v.blk = "open" /\ u.objs[a.id] = Whole(v, a) /\ e.p = <<>>

\* What the destructors do first: sync(), if the stream writes.
LEMMA LeaveWorks ==
  ASSUME NEW v, NEW a, Ready(v, a), Areas(a),
         NEW r \in IF Writes(a.kind) THEN sync(v, a) ELSE {Seen(v, a, 0)}
  PROVE  /\ Works(v, a, r.b, r.a) /\ Settled(v, a, r.b, r.a)
         /\ r.res = EoF => r.b.blk # "open"
<1>1. Sized(a) BY DEF Areas
<1>2. CASE Writes(a.kind)
  <2>1. r \in sync(v, a) BY <1>2
  <2>2. Works(v, a, r.b, r.a) /\ Settled(v, a, r.b, r.a) BY <1>1, <2>1, SyncWorks DEF Settled
  <2> QED BY <1>1, <1>2, <2>1, <2>2, SyncFailing
<1>3. CASE ~Writes(a.kind)
  <2>1. r = Seen(v, a, 0) BY <1>3
  <2>2. r.b = v /\ r.a = a /\ r.res = 0 BY <2>1 DEF Seen
  <2>3. a.p = <<>> /\ SameAccess(a, a) BY <1>1, <1>3, SizedFacts DEF Sized
  <2>4. v.blk = "open" => Whole(v, a) = v.objs[a.id] /\ Mark(v, a) <= MaxLen[a.id]
    BY <1>1, <2>3, WholeAsIs, MarkFacts DEF Ready, Sized
  <2>5. Works(v, a, v, a) BY <2>3, <2>4, StillWorks
  <2>6. Settled(v, a, v, a) BY <2>3, <2>4 DEF Settled
  <2> QED BY <2>2, <2>5, <2>6 DEF EoF
<1> QED BY <1>2, <1>3

\* Both times.
LEMMA LeaveTwice ==
  ASSUME NEW v, NEW a, Ready(v, a), Areas(a),
         NEW r \in IF Writes(a.kind) THEN sync(v, a) ELSE {Seen(v, a, 0)},
         NEW q \in IF Writes(r.a.kind) THEN sync(r.b, r.a) ELSE {r}
  PROVE  /\ Works(v, a, q.b, q.a) /\ Settled(v, a, q.b, q.a)
         /\ r.res = EoF => q.b.blk # "open"
<1>1. /\ Works(v, a, r.b, r.a) /\ Settled(v, a, r.b, r.a) /\ (r.res = EoF => r.b.blk # "open")
  BY LeaveWorks
<1>2. CASE Writes(r.a.kind)
  <2> DEFINE u == r.b
             e == r.a
  <2>1. Works(v, a, u, e) /\ Settled(v, a, u, e) BY <1>1
  <2>2. q \in IF Writes(e.kind) THEN sync(u, e) ELSE {Seen(u, e, 0)} BY <1>2
  <2> HIDE DEF u, e
  <2>3. Ready(u, e) /\ Areas(e) /\ e.id = a.id BY <2>1 DEF Works, Touches, Ready, SameAccess
  <2>4. Works(u, e, q.b, q.a) /\ Settled(u, e, q.b, q.a) BY <2>2, <2>3, LeaveWorks
  <2>5. Works(v, a, q.b, q.a) BY <2>1, <2>4, WorksTwice
  <2>6. Settled(v, a, q.b, q.a)
    <3> SUFFICES ASSUME q.b.blk = "open"
                 PROVE  v.blk = "open" /\ q.b.objs[a.id] = Whole(v, a) /\ q.a.p = <<>>
      BY DEF Settled
    <3>1. u.blk = "open" /\ q.b.objs[e.id] = Whole(u, e) /\ q.a.p = <<>> BY <2>4 DEF Settled
    <3>2. v.blk = "open" /\ u.objs[a.id] = Whole(v, a) /\ e.p = <<>> BY <2>1, <3>1 DEF Settled
    <3>3. Sane(u) /\ Owns(u, e) BY <2>3, <3>1 DEF Ready
    <3>4. Whole(u, e) = u.objs[e.id] BY <3>2, <3>3, WholeAsIs
    <3> QED BY <2>3, <3>1, <3>2, <3>4
  <2>7. u.blk # "open" => q.b.blk # "open" BY <2>4 DEF Works, Touches
  <2> QED BY <1>1, <2>5, <2>6, <2>7 DEF u
<1>3. CASE ~Writes(r.a.kind)
  <2>1. q = r BY <1>3
  <2> QED BY <1>1, <2>1
<1> QED BY <1>2, <1>3

\* Descriptor fd is what server u has less than v, in an open block.
OneLess(v, u, fd) ==
  /\ Sane(u) /\ u.objs = v.objs /\ u.up = v.up
  /\ u.blk = v.blk \/ (v.blk = "open" /\ u.blk = "failed")
  /\ u.blk = "open" => /\ DOMAIN u.fds = DOMAIN v.fds \ {fd}
                       /\ \A i \in DOMAIN v.fds \ {fd} : u.fds[i] = v.fds[i]

\* lo_close() closes one descriptor.
LEMMA ClosedSane ==
  ASSUME NEW v, Sane(v), NEW fd, NEW r \in lo_close(v, fd)
  PROVE  OneLess(v, r.b, fd)
<1>1. Server(v) BY DEF Sane
<1>2. CASE r \in Failing(v)
  <2>1. Refused(v, r.b, fd, fd) /\ r.b.objs = v.objs BY <1>2, FailingTouches
  <2> QED BY <2>1 DEF Refused, Touches, OneLess
<1>3. CASE r \notin Failing(v)
  <2> DEFINE fds == Restrict(v.fds, DOMAIN v.fds \ {fd})
             u == [v EXCEPT !.fds = fds]
  <2>1. r = Res(u, 0) BY <1>3 DEF lo_close
  <2>2. DOMAIN fds = DOMAIN v.fds \ {fd} /\ \A i \in DOMAIN v.fds \ {fd} : fds[i] = v.fds[i]
    BY DEF Restrict
  <2> HIDE DEF fds
  <2>3. u = [blk |-> v.blk, up |-> v.up, objs |-> v.objs, saved |-> v.saved, fds |-> fds]
    BY <1>1 DEF Server
  <2>4. r.b = u BY <2>1 DEF Res
  <2> HIDE DEF u
  <2>5. u.blk = v.blk /\ u.objs = v.objs /\ u.up = v.up /\ u.saved = v.saved /\ u.fds = fds
    BY <2>3
  <2>6. u = [blk |-> u.blk, up |-> u.up, objs |-> u.objs, saved |-> u.saved, fds |-> u.fds]
    BY <2>3, <2>5
  <2>7. IsFiniteSet(DOMAIN fds) /\ DOMAIN fds \subseteq Nat
    BY <1>1, <2>2, FS_Subset DEF Server, Fds
  <2>8. Server(u) BY <1>1, <2>2, <2>5, <2>6, <2>7 DEF Server, Fds
  <2>9. \A i \in DOMAIN u.fds : Placed(u.fds[i]) BY <2>2, <2>5 DEF Sane
  <2>10. Sane(u) BY <2>5, <2>8, <2>9 DEF Sane
  <2> QED BY <2>2, <2>4, <2>5, <2>10 DEF OneLess
<1> QED BY <1>2, <1>3

\* close(): an access that has a descriptor closes that, and no other.
LEMMA CloseWorks ==
  ASSUME NEW v, NEW a, Ready(v, a), NEW r \in close(v, a)
  PROVE  r.a = NoObject /\ OneLess(v, r.b, a.fd)
<1>1. Sane(v) BY DEF Ready
<1>2. CASE a.fd >= 0
  <2>1. PICK y \in lo_close(v, a.fd) : r = Seen(y.b, NoObject, y.res) BY <1>2 DEF close
  <2>2. r.a = NoObject /\ r.b = y.b BY <2>1 DEF Seen
  <2> QED BY <1>1, <2>2, ClosedSane
<1>3. CASE ~(a.fd >= 0)
  <2>1. r = Seen(v, NoObject, 0) BY <1>3 DEF close
  <2>2. r.a = NoObject /\ r.b = v BY <2>1 DEF Seen
  <2>3. v.blk # "open"
    <3> SUFFICES ASSUME v.blk = "open" PROVE FALSE OBVIOUS
    <3>1. a.fd \in DOMAIN v.fds /\ DOMAIN v.fds \subseteq Nat
      BY <1>1 DEF Ready, Owns, Sane, Server, Fds
    <3>2. a.fd \in Nat BY <3>1
    <3> QED BY <1>3, <3>2
  <2> QED BY <1>1, <2>2, <2>3 DEF OneLess
<1> QED BY <1>2, <1>3

\* The destructors
LEMMA DestroyContents ==
  ASSUME ContentsInv, Careless = {}, NEW h \in Handle, Destroy(h)
  PROVE  ContentsInv'
<1> DEFINE a == acc[h]
           t == ideal[a.id]
<1>1. PICK r \in (IF Writes(a.kind) THEN sync(b, a) ELSE {Seen(b, a, 0)}) :
      \E q \in (IF Writes(r.a.kind) THEN sync(r.b, r.a) ELSE {r}) :
      \E z \in close(q.b, q.a) :
        /\ Called(z.b, FALSE, r.res = EoF \/ (b.blk = "open" /\ z.b.blk # "open"), ideal)
        /\ acc' = [acc EXCEPT ![h] = z.a]
  BY DEF Destroy
<1>2. PICK q \in (IF Writes(r.a.kind) THEN sync(r.b, r.a) ELSE {r}) :
      \E z \in close(q.b, q.a) :
        /\ Called(z.b, FALSE, r.res = EoF \/ (b.blk = "open" /\ z.b.blk # "open"), ideal)
        /\ acc' = [acc EXCEPT ![h] = z.a]
  BY <1>1
<1>3. PICK z \in close(q.b, q.a) :
        /\ Called(z.b, FALSE, r.res = EoF \/ (b.blk = "open" /\ z.b.blk # "open"), ideal)
        /\ acc' = [acc EXCEPT ![h] = z.a]
  BY <1>2
<1>4. h \in Live /\ a.kind # "none" /\ file' = file /\ at' = [at EXCEPT ![h] = 0]
  BY DEF Destroy, Live
<1>5. /\ Ready(b, a) /\ Areas(a) /\ Active
      /\ (Sound => b.blk = "open" /\ Exact /\ Matches(b, a, at[h], t))
  BY <1>4, LiveFacts
<1>6. /\ Works(b, a, q.b, q.a) /\ Settled(b, a, q.b, q.a)
      /\ r.res = EoF => q.b.blk # "open"
  <2> DEFINE v == b
             e == a
  <2>1. Ready(v, e) /\ Areas(e) BY <1>5
  <2>2. r \in IF Writes(e.kind) THEN sync(v, e) ELSE {Seen(v, e, 0)} BY <1>1
  <2> HIDE DEF v, e
  <2>3. /\ Works(v, e, q.b, q.a) /\ Settled(v, e, q.b, q.a)
        /\ r.res = EoF => q.b.blk # "open"
    BY <1>2, <2>1, <2>2, LeaveTwice
  <2> QED BY <2>3 DEF v, e
<1> DEFINE v == q.b
           u == z.b
           mute == r.res = EoF \/ (b.blk = "open" /\ u.blk # "open")
           none == FALSE
           k == 0
           e == z.a
<1>7. Called(u, none, mute, ideal) /\ acc' = [acc EXCEPT ![h] = e] /\ none = FALSE
      /\ mute \in BOOLEAN /\ k \in Nat /\ at' = [at EXCEPT ![h] = k]
  BY <1>3, <1>4
<1>8. Ready(v, q.a) /\ q.a.id = a.id /\ q.a.fd = a.fd /\ Sane(v)
  BY <1>6 DEF Works, Touches, Ready, SameAccess
<1>9. e = NoObject /\ OneLess(v, u, a.fd)
  <2>1. z.a = NoObject /\ OneLess(q.b, z.b, q.a.fd) BY <1>3, <1>8, CloseWorks
  <2> QED BY <1>8, <2>1
<1>10. /\ Touches(b, v, a.id, a.fd) /\ v.up = b.up
       /\ v.blk = b.blk \/ (b.blk = "open" /\ v.blk = "failed")
  BY <1>6 DEF Works, Touches
<1>11. /\ Sane(u) /\ u.up = b.up
       /\ u.blk = b.blk \/ (b.blk = "open" /\ u.blk = "failed")
       /\ u.objs = v.objs /\ (u.blk = "open" => v.blk = "open")
  <2>1. u.blk = v.blk \/ (v.blk = "open" /\ u.blk = "failed") BY <1>9 DEF OneLess
  <2> QED BY <1>9, <1>10, <2>1 DEF OneLess
<1>12. (b.blk = "open" /\ ~mute => u.blk = "open") /\ (mute => u.blk # "open")
  BY <1>6, <1>11
<1>13. Proper(e, Kinds[h]) /\ e.kind = "none"
  BY <1>9, FreshFacts DEF Proper, NoObject
<1>14. OwnObject(h, u, e) /\ OwnPlace(u, e, k) BY <1>13 DEF OwnObject, OwnPlace
<1>15. PartsInOrder /\ AccessesApart /\ ContentsKnown BY DEF ContentsInv
<1> HIDE DEF a, t, v, u, none, e, k
<1>16. OthersStay(h, u)
  <2> SUFFICES ASSUME NEW i \in Live \ {h}, u.blk = "open"
               PROVE  /\ Owns(u, acc[i]) /\ Whole(u, acc[i]) = Whole(b, acc[i])
                      /\ Mark(u, acc[i]) = Mark(b, acc[i])
    BY DEF OthersStay
  <2>1. b.blk = "open" /\ v.blk = "open" BY <1>10, <1>11
  <2>2. Owns(b, acc[i]) /\ acc[i].id # a.id /\ acc[i].fd # a.fd
    BY <1>4, <1>15, <2>1 DEF AccessesApart, a
  <2>3. /\ Owns(v, acc[i]) /\ Whole(v, acc[i]) = Whole(b, acc[i])
        /\ Mark(v, acc[i]) = Mark(b, acc[i])
    BY <1>10, <2>2, OthersMatch
  <2>4. acc[i].fd \in DOMAIN u.fds /\ u.fds[acc[i].fd] = v.fds[acc[i].fd]
    BY <1>9, <2>2, <2>3 DEF OneLess, Owns
  <2> QED BY <1>11, <2>3, <2>4 DEF Owns, Whole, Mark
<1>17. ASSUME Sound, ~mute
       PROVE  /\ DOMAIN u.objs = DOMAIN ideal
              /\ \A o \in DOMAIN u.objs : ~Shared(o)' => u.objs[o] = ideal[o]
  <2>1. b.blk = "open" /\ u.blk = "open" /\ Matches(b, a, at[h], t) BY <1>5, <1>12, <1>17
  <2>2. v.objs[a.id] = Whole(b, a) BY <1>6, <1>11, <2>1 DEF Settled, v
  <2>3. v.objs[a.id] = t BY <2>1, <2>2 DEF Matches
  <2>4. DOMAIN b.objs = DOMAIN ideal /\ \A o \in DOMAIN b.objs : ~Shared(o) => b.objs[o] = ideal[o]
    BY <1>15, <1>17 DEF ContentsKnown
  <2>5. DOMAIN u.objs = DOMAIN ideal BY <1>10, <1>11, <2>4 DEF Touches
  <2>6. ASSUME NEW o \in DOMAIN u.objs, ~Shared(o)' PROVE u.objs[o] = ideal[o]
    <3>1. CASE o = a.id BY <1>11, <2>3, <3>1 DEF t
    <3>2. CASE o # a.id
      <4>1. \A i \in Handle \ {h} : acc'[i] = acc[i] BY <1>7, <1>15 DEF PartsInOrder
      <4>2. ~Shared(o)
        <5> SUFFICES ASSUME NEW i \in Handle, acc[i].kind # "none", acc[i].id = o PROVE FALSE
          BY DEF Shared
        <5>1. i # h BY <3>2 DEF a
        <5>2. acc'[i] = acc[i] BY <4>1, <5>1
        <5> QED BY <2>6, <5>2 DEF Shared
      <4>3. v.objs[o] = b.objs[o] /\ o \in DOMAIN b.objs BY <1>10, <1>11, <2>6, <3>2 DEF Touches
      <4> QED BY <1>11, <2>4, <4>2, <4>3
    <3> QED BY <3>1, <3>2
  <2> QED BY <2>5, <2>6
<1> HIDE DEF mute
<1> QED BY <1>4, <1>5, <1>7, <1>11, <1>12, <1>13, <1>14, <1>16, <1>17, ChangeContents

----------------------------------------------------------------------------
(* Transactions, and the theorems.                                         *)

\* A server without a block, that holds f and would go back to f.
LEMMA RestingSane ==
  ASSUME NEW f, Stored(f), NEW up \in BOOLEAN, NEW v,
         v = [blk |-> "none", up |-> up, objs |-> f, saved |-> f, fds |-> <<>>]
  PROVE  Sane(v) /\ v.blk = "none" /\ v.objs = f /\ v.up = up
<1>1. /\ v.blk = "none" /\ v.up = up /\ v.objs = f /\ v.saved = f /\ v.fds = <<>>
      /\ v = [blk |-> v.blk, up |-> v.up, objs |-> v.objs, saved |-> v.saved, fds |-> v.fds]
  OBVIOUS
<1>2. DOMAIN v.fds = {} BY <1>1
<1>3. Server(v) BY <1>1, <1>2, FS_EmptySet DEF Server, Fds
<1> QED BY <1>1, <1>2, <1>3 DEF Sane

\* The end of a block leaves what it held, or what it started from.
LEMMA EndedFacts ==
  ASSUME NEW v, Sane(v), NEW up \in BOOLEAN
  PROVE  /\ Sane([RolledBack(v) EXCEPT !.up = up]) /\ [RolledBack(v) EXCEPT !.up = up].blk = "none"
         /\ [RolledBack(v) EXCEPT !.up = up].objs = v.saved
         /\ [RolledBack(v) EXCEPT !.up = up].up = up
         /\ Sane(RolledBack(v)) /\ RolledBack(v).blk = "none"
         /\ Sane(Durable(v)) /\ Durable(v).blk = "none" /\ Durable(v).objs = v.objs
         /\ Sane([Durable(v) EXCEPT !.up = up]) /\ [Durable(v) EXCEPT !.up = up].blk = "none"
<1>1. Server(v) /\ Stored(v.objs) /\ Stored(v.saved) /\ v.up \in BOOLEAN BY DEF Sane
<1> DEFINE R == RolledBack(v)
           D == Durable(v)
           S == [R EXCEPT !.up = up]
           E == [D EXCEPT !.up = up]
<1>2. /\ R = [blk |-> "none", up |-> v.up, objs |-> v.saved, saved |-> v.saved, fds |-> <<>>]
      /\ D = [blk |-> "none", up |-> v.up, objs |-> v.objs, saved |-> v.objs, fds |-> <<>>]
  BY <1>1, EndedAs
<1> HIDE DEF R, D
<1>3. /\ S = [blk |-> "none", up |-> up, objs |-> v.saved, saved |-> v.saved, fds |-> <<>>]
      /\ E = [blk |-> "none", up |-> up, objs |-> v.objs, saved |-> v.objs, fds |-> <<>>]
  BY <1>2
<1> HIDE DEF S, E
<1>4. Sane(R) /\ R.blk = "none" BY <1>1, <1>2, RestingSane
<1>5. Sane(D) /\ D.blk = "none" /\ D.objs = v.objs BY <1>1, <1>2, RestingSane
<1>6. Sane(S) /\ S.blk = "none" /\ S.objs = v.saved /\ S.up = up BY <1>1, <1>3, RestingSane
<1>7. Sane(E) /\ E.blk = "none" BY <1>1, <1>3, RestingSane
<1> QED BY <1>4, <1>5, <1>6, <1>7 DEF R, D, S, E

\* A transaction begins with the objects as wanted, and without accesses.
LEMMA BeginContents ==
  ASSUME ContentsInv, Begin
  PROVE  ContentsInv'
<1>1. PartsInOrder /\ IdleInOrder BY DEF ContentsInv
<1>2. /\ tx = "none" /\ tx' = "active" /\ begun' = begun + 1 /\ begun < MaxBegin
      /\ told' = FALSE /\ silent' = FALSE
      /\ acc' = acc /\ file' = file /\ ideal' = ideal /\ at' = at
  BY DEF Begin
<1>3. b.blk = "none" /\ Live = {} /\ b.objs = ideal BY <1>1, <1>2 DEF IdleInOrder
<1>4. Live' = {} BY <1>2, <1>3 DEF Live
<1>5. Sane(b) BY <1>1 DEF PartsInOrder
<1>6. b' = [blk |-> "open", up |-> TRUE, objs |-> b.objs, saved |-> b.saved, fds |-> b.fds]
  BY <1>5 DEF Begin, Sane, Server
<1>7. /\ b'.blk = "open" /\ b'.up = TRUE /\ b'.objs = b.objs /\ b'.saved = b.saved
      /\ b'.fds = b.fds
      /\ b' = [blk |-> b'.blk, up |-> b'.up, objs |-> b'.objs, saved |-> b'.saved, fds |-> b'.fds]
  BY <1>6
<1>8. Server(b') BY <1>5, <1>7 DEF Sane, Server, Fds
<1>9. Sane(b') BY <1>5, <1>7, <1>8 DEF Sane
<1>10. begun' \in 0..MaxBegin BY <1>1, <1>2, ConstantsAssumption DEF PartsInOrder
<1>11. PartsInOrder' BY <1>1, <1>2, <1>9, <1>10 DEF PartsInOrder
<1>12. IdleInOrder' BY <1>2 DEF IdleInOrder
<1>13. AccessesApart' BY <1>2, <1>4, <1>7 DEF AccessesApart
<1>14. ContentsKnown' BY <1>2, <1>3, <1>4, <1>7 DEF ContentsKnown
<1> QED BY <1>11, <1>12, <1>13, <1>14 DEF ContentsInv

\* The end of a transaction, without accesses.
LEMMA EndContents ==
  ASSUME ContentsInv, Careless = {}, MayEnd, NEW v, Sane(v), v.blk = "none",
         NEW returned, NEW next \in {"none", "dead"}, Ended(v, returned, next),
         returned /\ ~told /\ ~silent => v.objs = ideal
  PROVE  ContentsInv'
<1>1. PartsInOrder /\ IdleInOrder BY DEF ContentsInv
<1>2. /\ b' = v /\ tx' = next /\ told' = FALSE /\ silent' = FALSE /\ acc' = acc
      /\ begun' = begun /\ file' = file /\ at' = at
      /\ ideal' = IF returned /\ ~told /\ ~silent THEN ideal ELSE v.objs
  BY DEF Ended
<1>3. Live' = {} BY <1>2 DEF MayEnd, Live
<1>4. Stored(v.objs) BY DEF Sane
<1>5. ideal' = v.objs BY <1>2
<1>6. PartsInOrder' BY <1>1, <1>2, <1>4, <1>5 DEF PartsInOrder
<1>7. IdleInOrder' BY <1>2, <1>3, <1>5 DEF IdleInOrder
<1>8. AccessesApart' BY <1>2, <1>3 DEF AccessesApart, Sound, Active
<1>9. ContentsKnown' BY <1>2 DEF ContentsKnown, Exact, Sound, Active
<1> QED BY <1>6, <1>7, <1>8, <1>9 DEF ContentsInv

\* Without accesses, and without a failure, the objects are those without a buffer.
LEMMA ObjectsWanted ==
  ASSUME ContentsInv, Careless = {}, MayEnd, Exact, b.up
  PROVE  b.blk = "open" /\ b.objs = ideal
<1>1. \A o \in Oid : ~Shared(o) BY DEF MayEnd, Shared
<1>2. Stored(b.objs) /\ Stored(ideal) BY DEF ContentsInv, PartsInOrder, Sane
<1>3. DOMAIN b.objs = DOMAIN ideal /\ \A o \in DOMAIN b.objs : b.objs[o] = ideal[o]
  BY <1>1, <1>2, ObjectsKnown DEF Stored
<1>4. b.objs = ideal BY <1>2, <1>3 DEF Stored
<1>5. b.blk = "open" BY DEF ContentsInv, AccessesApart, Exact, Sound
<1> QED BY <1>4, <1>5

\* commit(), however it ends
LEMMA CommitContents ==
  ASSUME ContentsInv, Careless = {}, Commit
  PROVE  ContentsInv'
<1>1. MayEnd /\ Active BY DEF Commit
<1>2. Sane(b) BY DEF ContentsInv, PartsInOrder
<1>3. ASSUME b.up, ~told, ~silent PROVE b.blk = "open" /\ b.objs = ideal
  BY <1>1, <1>3, ObjectsWanted DEF Exact
<1> DEFINE R == RolledBack(b)
           D == Durable(b)
           E == [Durable(b) EXCEPT !.up = FALSE]
           yes == TRUE
           no == FALSE
<1>4. /\ Sane(R) /\ R.blk = "none" /\ Sane(D) /\ D.blk = "none" /\ D.objs = b.objs
      /\ Sane(E) /\ E.blk = "none"
  BY <1>2, EndedFacts
<1>5. \/ b.up /\ b.blk = "open" /\ Ended(D, yes, "none")
      \/ b.up /\ b.blk = "failed" /\ Ended(R, yes, "none")
      \/ b.up /\ Ended(R, no, "dead")
      \/ ~b.up /\ Ended(b, no, "dead")
      \/ Ended(E, no, "dead")
  BY DEF Commit
<1>6. yes /\ ~no OBVIOUS
<1> HIDE DEF R, D, E, yes, no
<1>7. CASE b.up /\ b.blk = "open" /\ Ended(D, yes, "none")
  BY <1>1, <1>3, <1>4, <1>7, EndContents
<1>8. CASE b.up /\ b.blk = "failed" /\ Ended(R, yes, "none")
  BY <1>1, <1>3, <1>4, <1>8, EndContents
<1>9. CASE Ended(R, no, "dead") BY <1>1, <1>4, <1>6, <1>9, EndContents
<1>10. CASE ~b.up /\ Ended(b, no, "dead")
  BY <1>1, <1>2, <1>6, <1>10, EndContents DEF Sane
<1>11. CASE Ended(E, no, "dead") BY <1>1, <1>4, <1>6, <1>11, EndContents
<1> QED BY <1>5, <1>7, <1>8, <1>9, <1>10, <1>11

\* abort(), and the destructor of the transaction
LEMMA AbortContents ==
  ASSUME ContentsInv, Careless = {}, Abort
  PROVE  ContentsInv'
<1> DEFINE no == FALSE
<1>1. PICK up \in {b.up, TRUE} : Ended([RolledBack(b) EXCEPT !.up = up], no, "none")
  BY DEF Abort
<1>2. MayEnd /\ Sane(b) BY DEF Abort, ContentsInv, PartsInOrder
<1>3. up \in BOOLEAN BY <1>2 DEF Sane
<1> DEFINE v == [RolledBack(b) EXCEPT !.up = up]
<1>4. Sane(v) /\ v.blk = "none" BY <1>2, <1>3, EndedFacts
<1>5. Ended(v, no, "none") /\ ~no BY <1>1
<1> HIDE DEF v, no
<1> QED BY <1>2, <1>4, <1>5, EndContents

\* A lost session has no block; what is lost with it is lost.
LEMMA LinkLostContents ==
  ASSUME ContentsInv, LinkLost
  PROVE  ContentsInv'
<1> DEFINE no == FALSE
           v == [RolledBack(b) EXCEPT !.up = no]
<1>1. PartsInOrder /\ IdleInOrder /\ AccessesApart /\ ContentsKnown BY DEF ContentsInv
<1>2. Sane(b) /\ no \in BOOLEAN /\ ~no BY <1>1 DEF PartsInOrder
<1>3. /\ b' = v /\ acc' = acc /\ tx' = tx /\ begun' = begun /\ file' = file /\ told' = told
      /\ silent' = silent /\ ideal' = ideal /\ at' = at
  BY DEF LinkLost
<1> HIDE DEF no
<1>4. Sane(v) /\ v.blk = "none" /\ v.objs = b.saved /\ v.up = no BY <1>2, EndedFacts
<1> HIDE DEF v
<1>5. Live' = Live BY <1>3 DEF Live
<1>6. PartsInOrder' BY <1>1, <1>3, <1>4 DEF PartsInOrder
<1>7. b.blk = "none" => b.objs = b.saved BY <1>2 DEF Sane
<1>8. IdleInOrder' BY <1>1, <1>3, <1>4, <1>5, <1>7 DEF IdleInOrder
<1>9. ~Sound' BY <1>2, <1>3, <1>4 DEF Sound
<1>10. AccessesApart' BY <1>1, <1>3, <1>4, <1>5, <1>9 DEF AccessesApart
<1>11. ContentsKnown' BY <1>1, <1>3, <1>5, <1>9 DEF ContentsKnown, Exact, Active
<1> QED BY <1>6, <1>8, <1>10, <1>11 DEF ContentsInv

\* At first there is nothing.
LEMMA ContentsInit ==
  ASSUME Init
  PROVE  ContentsInv
<1> DEFINE f == <<>>
<1>1. f = [o \in DOMAIN f |-> f[o]] /\ DOMAIN f = {} OBVIOUS
<1> HIDE DEF f
<1>2. Stored(f) BY <1>1 DEF Stored
<1>3. /\ b = [blk |-> "none", up |-> TRUE, objs |-> f, saved |-> f, fds |-> <<>>] /\ ideal = f
      /\ tx = "none" /\ begun = 0 /\ told = FALSE /\ silent = FALSE
      /\ acc = [h \in Handle |-> NoObject] /\ at = [h \in Handle |-> 0]
  BY DEF Init, f
<1>4. Sane(b) /\ b.blk = "none" /\ b.objs = f BY <1>2, <1>3, RestingSane
<1>5. Fits(file, MaxFile)
  <2>1. PICK c \in Char : file = <<c>> BY DEF Init
  <2>2. <<c>> \in Seq(Char) /\ Len(<<c>>) = 1 BY ShortTexts
  <2>3. MaxFile \in Nat /\ 1 <= MaxFile BY ConstantsAssumption
  <2> QED BY <2>1, <2>2, <2>3 DEF Fits
<1>6. \A h \in Handle : acc[h] = NoObject BY <1>3
<1>7. /\ Areas(NoObject) /\ NoObject.kind = "none" /\ NoObject.state = "good"
  BY FreshFacts DEF NoObject
<1>8. \A h \in Handle : Proper(acc[h], Kinds[h]) BY <1>6, <1>7 DEF Proper
<1>9. Live = {} BY <1>6, <1>7 DEF Live
<1>10. begun \in 0..MaxBegin BY <1>3, ConstantsAssumption
<1>11. PartsInOrder BY <1>2, <1>3, <1>4, <1>5, <1>8, <1>10 DEF PartsInOrder
<1>12. IdleInOrder BY <1>3, <1>4, <1>9 DEF IdleInOrder
<1>13. AccessesApart BY <1>3, <1>9 DEF AccessesApart, Sound, Active
<1>14. ContentsKnown BY <1>3 DEF ContentsKnown, Exact, Sound, Active
<1> QED BY <1>11, <1>12, <1>13, <1>14 DEF ContentsInv

\* Every step preserves the invariant.
LEMMA ContentsNext ==
  ASSUME ContentsInv, Careless = {}, [Next]_vars
  PROVE  ContentsInv'
<1>1. CASE UNCHANGED vars
  BY <1>1 DEF vars, ContentsInv, PartsInOrder, IdleInOrder, AccessesApart, ContentsKnown,
              Live, Exact, Sound, Active, Shared
<1>2. ASSUME NEW o \in Oid, Create(o, <<>>) \/ Create(o, file) \/ Remove(o) \/ ToFile(o)
      PROVE  ContentsInv'
  <2>1. MaxLen[o] \in Nat /\ MaxFile <= MaxLen[o] /\ MaxFile \in Nat BY ConstantsAssumption
  <2>2. Fits(<<>>, MaxLen[o]) BY <2>1, ShortTexts DEF Fits
  <2>3. Fits(file, MaxLen[o])
    <3>1. Fits(file, MaxFile) BY DEF ContentsInv, PartsInOrder
    <3>2. Len(file) \in Nat BY <3>1, TextFacts DEF Fits
    <3> QED BY <2>1, <3>1, <3>2 DEF Fits
  <2> DEFINE text == <<>>
  <2>4. Fits(text, MaxLen[o]) /\ (Create(o, text) \/ Create(o, file) \/ Remove(o) \/ ToFile(o))
    BY <1>2, <2>2
  <2> HIDE DEF text
  <2> QED BY <2>3, <2>4, CreateContents, RemoveContents, ToFileContents
<1>3. ASSUME NEW h \in Handle, NEW o \in Oid, NEW kind \in Kinds[h], Open(h, kind, o)
      PROVE  ContentsInv'
  BY <1>3, OpenContents
<1>4. ASSUME NEW h \in Handle, NEW c \in Char, Put(h, c) \/ Write(h, <<c>>)
      PROVE  ContentsInv'
  BY <1>4, PutContents, WriteContents
<1>5. ASSUME NEW h \in Handle, NEW x \in Offsets, Seek(h, x[1], x[2])
      PROVE  ContentsInv'
  <2>1. x[1] \in Int /\ x[2] \in Directions BY DEF Offsets, Directions
  <2> QED BY <1>5, <2>1, SeekContents
<1>6. ASSUME NEW h \in Handle,
             Flush(h) \/ Get(h) \/ Clear(h) \/ Read(h, BufSize) \/ Destroy(h)
      PROVE  ContentsInv'
  <2>1. BufSize \in Nat BY ConstantsAssumption
  <2> QED BY <1>6, <2>1, FlushContents, GetContents, ClearContents, ReadContents,
             DestroyContents
<1>7. CASE Begin \/ Commit \/ Abort \/ LinkLost
  BY <1>7, BeginContents, CommitContents, AbortContents, LinkLostContents
<1> QED BY <1>1, <1>2, <1>3, <1>4, <1>5, <1>6, <1>7 DEF Next

\* The types that the steps keep.
LEMMA ContentsTyped ==
  ASSUME ContentsInv
  PROVE  TypeOK
<1>1. PartsInOrder BY DEF ContentsInv
<1>2. /\ Sane(b) /\ Stored(ideal) /\ Fits(file, MaxFile) /\ at \in [Handle -> Nat]
      /\ told \in BOOLEAN /\ silent \in BOOLEAN
      /\ tx \in {"none", "active", "dead"} /\ begun \in 0..MaxBegin
      /\ \A h \in Handle : Proper(acc[h], Kinds[h])
  BY <1>1 DEF PartsInOrder
<1>3. ASSUME NEW f, Stored(f) PROVE Objects(f)
  <2>1. DOMAIN f \subseteq Oid BY <1>3 DEF Stored
  <2>2. ASSUME NEW o \in DOMAIN f PROVE f[o] \in Text(MaxLen[o])
    <3>1. Fits(f[o], MaxLen[o]) BY <1>3 DEF Stored
    <3>2. MaxLen[o] \in Nat BY <2>1, ConstantsAssumption
    <3> QED BY <3>1, <3>2, FitsIsText
  <2> QED BY <2>1, <2>2 DEF Objects
<1>4. Objects(b.objs) /\ Objects(b.saved) /\ Objects(ideal) BY <1>2, <1>3 DEF Sane
<1>5. b.blk \in {"none", "open", "failed"} /\ b.up \in BOOLEAN BY <1>2 DEF Sane
<1>6. file \in Text(MaxFile)
  <2>1. MaxFile \in Nat BY ConstantsAssumption
  <2> QED BY <1>2, <2>1, FitsIsText
<1>7. ASSUME NEW fd \in DOMAIN b.fds
      PROVE  /\ fd \in Nat /\ b.fds[fd] \in [obj : Oid, pos : Nat, write : BOOLEAN]
             /\ b.fds[fd].pos <= MaxLen[b.fds[fd].obj]
  <2>1. fd \in Nat /\ Descriptor(b.fds[fd]) /\ Placed(b.fds[fd])
    BY <1>2, <1>7 DEF Sane, Server, Fds
  <2> QED BY <2>1 DEF Descriptor, Placed
<1>8. ASSUME NEW h \in Handle
      PROVE  /\ acc[h].kind \in {"none"} \cup Kinds[h]
             /\ acc[h].state \in {"good", "eof", "bad"}
             /\ Len(acc[h].g) <= BufSize /\ Len(acc[h].p) <= BufSize
             /\ acc[h].gp \in 0..Len(acc[h].g)
  <2>1. Proper(acc[h], Kinds[h]) BY <1>2
  <2> QED BY <2>1 DEF Proper, Areas, Sized, Fits, Iostates
<1> QED BY <1>2, <1>4, <1>5, <1>6, <1>7, <1>8 DEF TypeOK

\* What the invariant says of writing.
LEMMA ContentsWritten ==
  ASSUME ContentsInv
  PROVE  WritesTrue
<1>1. TypeOK BY ContentsTyped
<1>2. CommittedIsWritten BY DEF ContentsInv, IdleInOrder, CommittedIsWritten
<1>3. ASSUME Sound, NEW h \in Handle, acc[h].kind # "none"
      PROVE  Place(b.objs[acc[h].id], b.fds[acc[h].fd].pos, acc[h].p) = ideal[acc[h].id]
  <2>1. h \in Live BY <1>3 DEF Live
  <2>2. Matches(b, acc[h], at[h], ideal[acc[h].id]) BY <1>3, <2>1, LiveFacts
  <2> QED BY <2>2 DEF Matches, Whole
<1>4. Sound => DOMAIN b.objs = DOMAIN ideal BY DEF ContentsInv, ContentsKnown
<1>5. StoredUpToBuffer BY <1>3, <1>4 DEF StoredUpToBuffer
<1> QED BY <1>1, <1>2, <1>5 DEF WritesTrue

\* A step that reads nothing finds nothing.
LEMMA QuietReads ==
  ASSUME Quiet
  PROVE  ReadsTrue'
<1>1. got'.found = <<>> /\ got'.due = <<>> BY DEF Quiet
<1> QED BY <1>1 DEF ReadsTrue

\* Every step that reads reads what it should.
LEMMA ReadsNext ==
  ASSUME ContentsInv, ReadsTrue, Careless = {}, [Next]_vars
  PROVE  ReadsTrue'
<1>1. CASE UNCHANGED vars
  BY <1>1 DEF vars, ReadsTrue
<1>2. ASSUME NEW o \in Oid, Create(o, <<>>) \/ Create(o, file) \/ Remove(o) \/ ToFile(o)
      PROVE  ReadsTrue'
  BY <1>2, QuietReads DEF Create, Remove, ToFile
<1>3. ASSUME NEW h \in Handle, NEW o \in Oid, NEW kind \in Kinds[h], Open(h, kind, o)
      PROVE  ReadsTrue'
  BY <1>3, QuietReads DEF Open
<1>4. ASSUME NEW h \in Handle, NEW c \in Char, Put(h, c) \/ Write(h, <<c>>)
      PROVE  ReadsTrue'
  BY <1>4, QuietReads DEF Put, Write
<1>5. ASSUME NEW h \in Handle, NEW x \in Offsets, Seek(h, x[1], x[2])
      PROVE  ReadsTrue'
  <2>1. x[1] \in Int /\ x[2] \in Directions BY DEF Offsets, Directions
  <2> QED BY <1>5, <2>1, SeekContents
<1>6. ASSUME NEW h \in Handle, Flush(h) \/ Clear(h) \/ Destroy(h)
      PROVE  ReadsTrue'
  BY <1>6, QuietReads DEF Flush, Clear, Destroy
<1>7. ASSUME NEW h \in Handle, Get(h) \/ Read(h, BufSize)
      PROVE  ReadsTrue'
  <2>1. BufSize \in Nat BY ConstantsAssumption
  <2> QED BY <1>7, <2>1, GetContents, ReadContents
<1>8. CASE Begin \/ Commit \/ Abort \/ LinkLost
  <2>1. Quiet BY <1>8 DEF Begin, Commit, Abort, LinkLost, Ended
  <2> QED BY <2>1, QuietReads
<1> QED BY <1>1, <1>2, <1>3, <1>4, <1>5, <1>6, <1>7, <1>8 DEF Next

\* overflow(), sync(), seekoff(), the destructors, commit(): for any number of accesses,
\* streams and objects, of any contents, and with buffers of any size, nothing that is
\* written is lost, doubled or put in the wrong place: as long as nothing has failed an
\* object is what was written to it but for what a put area still holds, and when
\* commit() then returns normally it is what was written.  The client does nothing that
\* Careless lists.
THEOREM WritesTrueHolds ==
  ASSUME Careless = {}
  PROVE  Spec => []WritesTrue
<1>1. Init => ContentsInv
  BY ContentsInit
<1>2. ContentsInv /\ [Next]_vars => ContentsInv'
  BY ContentsNext
<1>3. ContentsInv => WritesTrue
  BY ContentsWritten
<1> QED BY <1>1, <1>2, <1>3, PTL DEF Spec

\* underflow(), seekoff(), cread(): in the same generality, get(), read(), seek() and
\* tell() find what they would without a buffer, until a failure has been reported;
\* except that get() may take EofByte for the end.
THEOREM ReadsTrueHolds ==
  ASSUME Careless = {}
  PROVE  Spec => []ReadsTrue
<1>1. Init => ContentsInv /\ ReadsTrue
  <2>1. Init => got.found = got.due BY DEF Init
  <2> QED BY <2>1, ContentsInit DEF ReadsTrue
<1>2. ContentsInv /\ ReadsTrue /\ [Next]_vars => (ContentsInv /\ ReadsTrue)'
  BY ContentsNext, ReadsNext
<1> QED BY <1>1, <1>2, PTL DEF Spec
=============================================================================
