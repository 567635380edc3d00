---------------------------- MODULE LargeObject ----------------------------
(***************************************************************************)
(* Large objects: largeobject and largeobjectaccess (src/largeobject.cxx), *)
(* and largeobject_streambuf with the streams built on it, basic_ilostream,*)
(* basic_olostream and basic_lostream (include/pqxx/largeobject.hxx).      *)
(*                                                                         *)
(* A stream has a get area and a put area of BufSize characters between    *)
(* the client and the descriptor m_fd, whose one position serves reading   *)
(* and writing.  The properties compare it with a file that has no buffer: *)
(* what the client would find and leave behind if every character it puts  *)
(* went straight to its place.                                             *)
(*                                                                         *)
(* Server b:  blk    the backend's block: none, open or doomed             *)
(*            up     the link leads to a session                           *)
(*            objs   objects: identifier -> contents                       *)
(*            saved  what a rollback restores                              *)
(*            fds    open descriptors: number -> [obj, pos, write]         *)
(* Handle a:  kind   access, ilo, olo, lo: the class; "none": no object    *)
(*            id, fd m_ID and m_fd                                         *)
(*            g, gp  the get area and the number of characters taken       *)
(*            p      the characters in the put area                        *)
(*            state  the iostate: good, eof (eof and fail), bad            *)
(***************************************************************************)
EXTENDS Integers, Sequences, FiniteSets, FiniteSetsExt, Functions

CONSTANTS
  Oid,        \* identifiers that lo_creat() can hand out
  Handle,     \* the accesses and streams of the client
  Char,       \* bytes
  EofByte,    \* the byte that, as a signed char, equals traits_type::eof()
  BufSize,    \* BufSize
  Kinds,      \* Kinds[h]: the classes h can be of
  MaxLen,     \* MaxLen[o]: bound on the length of object o
  MaxFile,    \* bound on the length of an exported object
  MaxBegin,   \* bound on the number of transactions
  Careless    \* what the client does that the properties exclude

\* seek_buffered  seek while the get or the put area holds characters
\* sync_read      flush a stream that has read something
\* turn           write before everything read ahead is taken, or read before
\*                everything written is flushed
\* outlive        end a transaction that has live accesses or streams
\* share          have two accesses or streams on one object, or remove an object
\*                that has one
\* go_on          use the transaction after a call has reported a failure
ASSUME ConstantsAssumption ==
  /\ BufSize \in Nat \ {0} /\ MaxLen \in [Oid -> Nat] /\ MaxBegin \in Nat
  /\ MaxFile \in Nat \ {0} /\ \A o \in Oid : MaxFile <= MaxLen[o]
  /\ Kinds \in [Handle -> SUBSET {"access", "ilo", "olo", "lo"}]
  /\ EofByte \in Char
  /\ Careless \subseteq {"seek_buffered", "sync_read", "turn", "outlive", "share",
                   "go_on"}

VARIABLES
  b,       \* the server
  acc,     \* acc[h]: the client's objects
  tx,      \* the transaction: none, active, or one whose commit() threw
  begun,   \* transactions begun
  file,    \* contents of the file that objects are imported from
  told,    \* a call has told the client of a failure in this transaction
  silent,  \* a destructor has failed to write what was left
  ideal,   \* the objects as they would be without any buffer
  at,      \* at[h]: the position h would have without any buffer
  got      \* what the last get() found, and what it should have found

vars == <<b, acc, tx, begun, file, told, silent, ideal, at, got>>

----------------------------------------------------------------------------
(* libpq's large object calls.  An error dooms the block, as every error   *)
(* does; a call without a session fails and nothing else.                  *)

Res(v, res) == [b |-> v, res |-> res]

Failing(v) ==
  {Res(IF v.blk = "open" THEN [v EXCEPT !.blk = "failed"] ELSE v, -1)}

\* The call has the effect new and returns res, unless the backend refuses.
LoCall(v, new, res) ==
  Failing(v) \cup (IF v.up /\ v.blk = "open" THEN {Res(new, res)} ELSE {})

Place(text, pos, data) ==
  SubSeq(text, 1, pos) \o data \o SubSeq(text, pos + Len(data) + 1, Len(text))

\* The objects or descriptors f, and d with the identifier or number i.
With(f, i, d) == [j \in DOMAIN f \cup {i} |-> IF j = i THEN d ELSE f[j]]

NextFd(v) == Min((0 .. Cardinality(DOMAIN v.fds)) \ DOMAIN v.fds)

lo_creat(v, o, text) == LoCall(v, [v EXCEPT !.objs = With(@, o, text)], o)

lo_unlink(v, o) ==
  IF o \notin DOMAIN v.objs THEN Failing(v)
  ELSE LoCall(v, [v EXCEPT !.objs = Restrict(@, DOMAIN @ \ {o})], 1)

lo_open(v, o, write) ==
  IF o \notin DOMAIN v.objs THEN Failing(v)
  ELSE LET d == [obj |-> o, pos |-> 0, write |-> write]
       IN LoCall(v, [v EXCEPT !.fds = With(@, NextFd(v), d)], NextFd(v))

\* Closing or moving a descriptor that is open fails only with the session.
lo_close(v, fd) ==
  IF ~v.up \/ v.blk # "open" \/ fd \notin DOMAIN v.fds THEN Failing(v)
  ELSE {Res([v EXCEPT !.fds = Restrict(@, DOMAIN @ \ {fd})], 0)}

\* A descriptor that is open on an object that still exists.
Usable(v, fd) ==
  /\ v.up /\ v.blk = "open"
  /\ fd \in DOMAIN v.fds /\ v.fds[fd].obj \in DOMAIN v.objs

lo_write(v, fd, data) ==
  IF ~Usable(v, fd) \/ ~v.fds[fd].write THEN Failing(v)
  ELSE LET d == v.fds[fd]
           new == [v EXCEPT !.objs[d.obj] = Place(@, d.pos, data),
                            !.fds[fd].pos = @ + Len(data)]
       IN LoCall(v, new, Len(data))

\* What a read of n bytes finds.
Ahead(v, fd, n) ==
  LET d == v.fds[fd]
  IN SubSeq(v.objs[d.obj], d.pos + 1, Min({d.pos + n, Len(v.objs[d.obj])}))

lo_read(v, fd, n) ==
  IF ~Usable(v, fd) THEN Failing(v)
  ELSE LET data == Ahead(v, fd, n)
       IN LoCall(v, [v EXCEPT !.fds[fd].pos = @ + Len(data)], Len(data))

\* Where a seek leads, from a position in an object of a length.
Target(pos, len, off, dir) ==
  off + (CASE dir = "beg" -> 0 [] dir = "cur" -> pos [] dir = "end" -> len)

lo_lseek(v, fd, off, dir) ==
  IF ~Usable(v, fd) THEN Failing(v)
  ELSE LET d == v.fds[fd]
           pos == Target(d.pos, Len(v.objs[d.obj]), off, dir)
       IN IF pos < 0 THEN Failing(v)
          ELSE {Res([v EXCEPT !.fds[fd].pos = pos], pos)}

----------------------------------------------------------------------------
(* largeobjectaccess and largeobject_streambuf, on y = [b, a].  res is what *)
(* the function returns, EoF for traits_type::eof().                       *)

EoF == -1

\* The mode each class opens its object in.
Mode(kind) ==
  CASE kind = "ilo" -> {"in"} [] kind = "olo" -> {"out"} [] OTHER -> {"in", "out"}

\* initialize(): which of the two areas a stream has.
Reads(kind) == kind # "access" /\ "in" \in Mode(kind)

Writes(kind) == kind # "access" /\ "out" \in Mode(kind)

cwrite(v, a, data) == lo_write(v, a.fd, data)

cread(v, a, n) == lo_read(v, a.fd, n)

cseek(v, a, off, dir) == lo_lseek(v, a.fd, off, dir)

\* An object that has just been constructed, with empty areas.
Fresh(kind, o, fd) ==
  [kind |-> kind, id |-> o, fd |-> fd, g |-> <<>>, gp |-> 0, p |-> <<>>, state |-> "good"]

NoObject == Fresh("none", 0, -1)

Seen(v, a, res) == [b |-> v, a |-> a, res |-> res]

\* Mutant: every access works with the first descriptor.
open_First(v, kind, o) ==
  {Seen(r.b, Fresh(kind, o, IF r.res < 0 THEN r.res ELSE 0), r.res) :
   r \in lo_open(v, o, "out" \in Mode(kind))}

\* open(): throws if there is no descriptor.
open(v, kind, o) ==
  {Seen(r.b, Fresh(kind, o, r.res), r.res) :
   r \in lo_open(v, o, "out" \in Mode(kind))}

close(v, a) ==
  IF a.fd >= 0 THEN {Seen(r.b, NoObject, r.res) : r \in lo_close(v, a.fd)}
               ELSE {Seen(v, NoObject, 0)}

\* overflow(): ch is the character that did not fit, or none.  The put area is
\* emptied whether or not it could be written.
overflow(v, a, ch) ==
  IF ~Writes(a.kind) THEN {Seen(v, a, EoF)}
  ELSE {Seen(r.b, [a EXCEPT !.p = ch], r.res) :
        r \in IF a.p = <<>> THEN {Res(v, 0)} ELSE cwrite(v, a, a.p)}

\* Mutant: sync() leaves the put area for later.
sync_Later(v, a) == {Seen(v, [a EXCEPT !.gp = 0], 0)}

\* sync(): the get area starts over, the put area is written.
sync(v, a) == overflow(v, [a EXCEPT !.gp = 0], <<>>)

\* Mutant: a short load leaves the rest of the area as it was.
underflow_KeepsRest(v, a) ==
  IF ~Reads(a.kind) THEN {Seen(v, a, EoF)}
  ELSE {LET new == IF r.res < 0 THEN <<>> ELSE Ahead(v, a.fd, BufSize)
            g == new \o SubSeq(a.g, Len(new) + 1, Len(a.g))
        IN Seen(r.b, [a EXCEPT !.g = g, !.gp = 0],
                IF g = <<>> \/ g[1] = EofByte THEN EoF ELSE 0) :
        r \in cread(v, a, BufSize)}

\* underflow(): load the get area.  The first character is returned as a char,
\* not as an int_type, so that EofByte is taken for the end.
underflow(v, a) ==
  IF ~Reads(a.kind) THEN {Seen(v, a, EoF)}
  ELSE {LET g == IF r.res < 0 THEN <<>> ELSE Ahead(v, a.fd, BufSize)
        IN Seen(r.b, [a EXCEPT !.g = g, !.gp = 0],
                IF g = <<>> \/ g[1] = EofByte THEN EoF ELSE 0) :
        r \in cread(v, a, BufSize)}

\* seekoff(), seekpos(): neither area is looked at.
seekoff(v, a, off, dir) ==
  {Seen(r.b, a, r.res) : r \in cseek(v, a, off, dir)}

\* sputc() and sbumpc() of the standard stream buffer.
sputc(v, a, c) ==
  IF Writes(a.kind) /\ Len(a.p) < BufSize
  THEN {Seen(v, [a EXCEPT !.p = Append(@, c)], 0)}
  ELSE overflow(v, a, <<c>>)

sbumpc(v, a) ==
  IF a.gp < Len(a.g) THEN {Seen(v, [a EXCEPT !.gp = @ + 1], 0)}
  ELSE {IF r.res = EoF THEN r ELSE [r EXCEPT !.a.gp = 1] : r \in underflow(v, a)}

----------------------------------------------------------------------------
(* The client's calls.                                                     *)

Quiet == got' = [found |-> <<>>, due |-> <<>>]

\* Without a buffer, o's contents after the client puts data through h.
Ideally(h, data) ==
  LET o == acc[h].id
  IN IF o \in DOMAIN ideal THEN [ideal EXCEPT ![o] = Place(@, at[h], data)]
                           ELSE ideal

\* A call in the transaction leaves the server in v.  Once something has failed
\* there is nothing left to compare with.
Called(v, failed, mute, want) ==
  /\ b' = v
  /\ told' = (told \/ failed)
  /\ silent' = (silent \/ mute)
  /\ ideal' = IF told' \/ silent' THEN v.objs ELSE want
  /\ UNCHANGED <<tx, begun>>

Active == tx = "active"

\* A client that is not careless gives up after a failure.
Free == ~told \/ "go_on" \in Careless

\* Some access or stream of the client refers to o.
Shared(o) == \E h \in Handle : acc[h].kind # "none" /\ acc[h].id = o

\* largeobject(T), and largeobject(T, File) if text is the file's.  lo_creat()
\* picks an identifier that is not in use.
Create(o, text) ==
  /\ Active /\ Free /\ o \notin DOMAIN b.objs /\ ~Shared(o)
  /\ \E r \in lo_creat(b, o, text) :
       Called(r.b, r.res = -1, FALSE, With(ideal, o, text))
  /\ UNCHANGED <<acc, file, at>> /\ Quiet

Remove(o) ==
  /\ Active /\ Free /\ (Shared(o) => "share" \in Careless)
  /\ \E r \in lo_unlink(b, o) :
       Called(r.b, r.res = -1, FALSE, Restrict(ideal, DOMAIN ideal \ {o}))
  /\ UNCHANGED <<acc, file, at>> /\ Quiet

\* to_file(): what is in a stream's put area is not exported.
ToFile(o) ==
  /\ Active /\ Free
  /\ IF o \in DOMAIN b.objs /\ b.up /\ b.blk = "open"
     THEN /\ Len(b.objs[o]) <= MaxFile /\ file' = b.objs[o]
          /\ Called(b, FALSE, FALSE, ideal)
     ELSE /\ \E r \in Failing(b) : Called(r.b, TRUE, FALSE, ideal)
          /\ UNCHANGED file
  /\ UNCHANGED <<acc, at>> /\ Quiet

\* The constructors of largeobjectaccess and of the streams.
Open(h, kind, o) ==
  /\ Active /\ Free /\ acc[h].kind = "none"
  /\ Shared(o) => "share" \in Careless
  /\ \E r \in open(b, kind, o) :
       /\ Called(r.b, r.res < 0, FALSE, ideal)
       /\ acc' = IF r.res < 0 THEN acc ELSE [acc EXCEPT ![h] = r.a]
  /\ at' = [at EXCEPT ![h] = 0]
  /\ UNCHANGED file /\ Quiet

Good(h, kinds) == Free /\ acc[h].kind \in kinds /\ acc[h].state = "good"

\* The stream's state after a call that ended in res, if failing means st.
State(r, st) == [r.a EXCEPT !.state = IF r.res = EoF THEN st ELSE @]

Taken(a) == a.gp = Len(a.g)

\* Whether n more bytes are within the bound.
Room(h, n) == at[h] + n <= MaxLen[acc[h].id]

\* ostream::put()
Put(h, c) ==
  /\ Good(h, {"olo", "lo"}) /\ Room(h, 1)
  /\ ~Taken(acc[h]) => "turn" \in Careless
  /\ \E r \in sputc(b, acc[h], c) :
       /\ Called(r.b, r.res = EoF, FALSE, Ideally(h, <<c>>))
       /\ acc' = [acc EXCEPT ![h] = State(r, "bad")]
  /\ at' = [at EXCEPT ![h] = @ + 1]
  /\ UNCHANGED file /\ Quiet

\* ostream::flush(), istream::sync().  A stream that only reads cannot sync.
Flush(h) ==
  /\ Good(h, {"ilo", "olo", "lo"})
  /\ acc[h].g # <<>> => "sync_read" \in Careless
  /\ \E r \in sync(b, acc[h]) :
       /\ Called(r.b, r.res = EoF, FALSE, ideal)
       /\ acc' = [acc EXCEPT ![h] = State(r, "bad")]
  /\ UNCHANGED <<file, at>> /\ Quiet

\* The bytes from h's position, without a buffer.
Due(h, n) ==
  IF acc[h].id \notin DOMAIN ideal THEN <<>>
  ELSE LET text == ideal[acc[h].id]
       IN SubSeq(text, at[h] + 1, Min({at[h] + n, Len(text)}))

\* istream::get().  A failure to read looks like the end of the object.
Get(h) ==
  /\ Good(h, {"ilo", "lo"})
  /\ acc[h].p # <<>> /\ Taken(acc[h]) => "turn" \in Careless
  /\ \E r \in sbumpc(b, acc[h]) :
       /\ Called(r.b, r.b.blk # "open", FALSE, ideal)
       /\ acc' = [acc EXCEPT ![h] = State(r, "eof")]
       /\ got' = [found |-> IF r.res = EoF THEN <<>> ELSE <<r.a.g[r.a.gp]>>,
                  due |-> Due(h, 1)]
       /\ at' = [at EXCEPT ![h] = IF r.res = EoF THEN @ ELSE @ + 1]
  /\ UNCHANGED file

\* ios::clear() after the end was met.
Clear(h) ==
  /\ acc[h].state = "eof"
  /\ acc' = [acc EXCEPT ![h].state = "good"]
  /\ Called(b, FALSE, FALSE, ideal)
  /\ UNCHANGED <<file, at>> /\ Quiet

Length(h) == IF acc[h].id \in DOMAIN ideal THEN Len(ideal[acc[h].id]) ELSE 0

\* seekg(), seekp(), tellg(), tellp(); and seek() and tell() of an access, which
\* throw where a stream sets failbit.  Positions past the end are left out.
Seek(h, off, dir) ==
  /\ Good(h, {"access", "ilo", "olo", "lo"})
  /\ acc[h].p # <<>> \/ ~Taken(acc[h]) => "seek_buffered" \in Careless
  /\ LET due == Target(at[h], Length(h), off, dir) IN
     /\ due <= Length(h)
     /\ \E r \in seekoff(b, acc[h], off, dir) :
          /\ Called(r.b, r.res = EoF, FALSE, ideal)
          /\ acc' = [acc EXCEPT ![h] =
                       IF acc[h].kind = "access" THEN @ ELSE State(r, "bad")]
          /\ got' = [found |-> <<r.res>>, due |-> <<due>>]
          /\ at' = [at EXCEPT ![h] = IF r.res = EoF THEN @ ELSE due]
  /\ UNCHANGED file

\* write() of an access: throws unless everything is written.
Write(h, data) ==
  /\ Good(h, {"access"}) /\ Room(h, Len(data))
  /\ \E r \in cwrite(b, acc[h], data) :
       Called(r.b, r.res < Len(data), FALSE, Ideally(h, data))
  /\ at' = [at EXCEPT ![h] = @ + Len(data)]
  /\ UNCHANGED <<acc, file>> /\ Quiet

\* read() of an access
Read(h, n) ==
  /\ Good(h, {"access"})
  /\ \E r \in cread(b, acc[h], n) :
       LET data == IF r.res < 0 THEN <<>> ELSE Ahead(b, acc[h].fd, n) IN
       /\ Called(r.b, r.res < 0, FALSE, ideal)
       /\ got' = [found |-> data, due |-> Due(h, n)]
       /\ at' = [at EXCEPT ![h] = @ + Len(data)]
  /\ UNCHANGED <<acc, file>>

\* The destructors: those of the streams that write sync twice and look at
\* neither result; then the descriptor is closed.
Destroy(h) ==
  /\ acc[h].kind # "none"
  /\ \E r \in (IF Writes(acc[h].kind) THEN sync(b, acc[h])
                                      ELSE {Seen(b, acc[h], 0)}) :
     \E q \in (IF Writes(r.a.kind) THEN sync(r.b, r.a) ELSE {r}) :
     \E z \in close(q.b, q.a) :
       /\ Called(z.b, FALSE, r.res = EoF \/ (b.blk = "open" /\ z.b.blk # "open"), ideal)
       /\ acc' = [acc EXCEPT ![h] = z.a]
  /\ at' = [at EXCEPT ![h] = 0]
  /\ UNCHANGED file /\ Quiet

----------------------------------------------------------------------------
(* The transaction around it.                                              *)

RolledBack(v) == [v EXCEPT !.blk = "none", !.objs = v.saved, !.fds = <<>>]

Durable(v) == [v EXCEPT !.blk = "none", !.saved = v.objs, !.fds = <<>>]

MayEnd == "outlive" \in Careless \/ \A h \in Handle : acc[h].kind = "none"

Begin ==
  /\ tx = "none" /\ begun < MaxBegin
  /\ tx' = "active" /\ begun' = begun + 1
  /\ b' = [b EXCEPT !.up = TRUE, !.blk = "open"]
  /\ told' = FALSE /\ silent' = FALSE
  /\ UNCHANGED <<acc, file, ideal, at>> /\ Quiet

\* The transaction ends in v; only a commit() that returns normally, in a
\* transaction without a failure, leaves something to compare.
Ended(v, returned, next) ==
  /\ b' = v /\ tx' = next
  /\ ideal' = IF returned /\ ~told /\ ~silent THEN ideal ELSE v.objs
  /\ told' = FALSE /\ silent' = FALSE
  /\ UNCHANGED <<acc, begun, file, at>> /\ Quiet

\* COMMIT of a doomed block rolls back and answers OK.
Commit ==
  /\ Active /\ MayEnd
  /\ \/ b.up /\ b.blk = "open" /\ Ended(Durable(b), TRUE, "none")
     \/ b.up /\ b.blk = "failed" /\ Ended(RolledBack(b), TRUE, "none")
     \/ b.up /\ Ended(RolledBack(b), FALSE, "dead")
     \/ ~b.up /\ Ended(b, FALSE, "dead")
     \/ b.up /\ b.blk = "open" /\ Ended([Durable(b) EXCEPT !.up = FALSE], FALSE, "dead")

\* abort(), or the destructor of the transaction, which may reconnect.
Abort ==
  /\ tx # "none" /\ MayEnd
  /\ \E up \in {b.up, TRUE} : Ended([RolledBack(b) EXCEPT !.up = up], FALSE, "none")

LinkLost ==
  /\ b.up /\ b' = [RolledBack(b) EXCEPT !.up = FALSE]
  /\ UNCHANGED <<acc, tx, begun, file, told, silent, ideal, at>> /\ Quiet

----------------------------------------------------------------------------
Init ==
  /\ b = [blk |-> "none", up |-> TRUE, objs |-> <<>>, saved |-> <<>>, fds |-> <<>>]
  /\ acc = [h \in Handle |-> NoObject]
  /\ tx = "none" /\ begun = 0 /\ told = FALSE /\ silent = FALSE
  /\ file \in {<<c>> : c \in Char}
  /\ ideal = <<>>
  /\ at = [h \in Handle |-> 0]
  /\ got = [found |-> <<>>, due |-> <<>>]

Offsets == {<<0, "beg">>, <<1, "beg">>, <<0, "cur">>, <<0, "end">>, <<-1, "end">>}

Next ==
  \/ \E o \in Oid : Create(o, <<>>) \/ Create(o, file) \/ Remove(o) \/ ToFile(o)
  \/ \E h \in Handle :
       \/ \E o \in Oid, kind \in Kinds[h] : Open(h, kind, o)
       \/ \E c \in Char : Put(h, c) \/ Write(h, <<c>>)
       \/ \E x \in Offsets : Seek(h, x[1], x[2])
       \/ Flush(h) \/ Get(h) \/ Clear(h) \/ Read(h, BufSize) \/ Destroy(h)
  \/ Begin \/ Commit \/ Abort \/ LinkLost

Spec == Init /\ [][Next]_vars

----------------------------------------------------------------------------
(* Properties.                                                             *)

Text(max) == UNION {[1 .. n -> Char] : n \in 0 .. max}

Objects(f) ==
  DOMAIN f \subseteq Oid /\ \A o \in DOMAIN f : f[o] \in Text(MaxLen[o])

\* Every piece of state has its type, and no put or get area outgrows its
\* buffer (largeobject_streambuf::overflow, underflow).
TypeOK ==
  /\ b.blk \in {"none", "open", "failed"} /\ b.up \in BOOLEAN
  /\ Objects(b.objs) /\ Objects(b.saved) /\ Objects(ideal)
  /\ \A fd \in DOMAIN b.fds :
       /\ fd \in Nat
       /\ b.fds[fd] \in [obj : Oid, pos : Nat, write : BOOLEAN]
       /\ b.fds[fd].pos <= MaxLen[b.fds[fd].obj]
  /\ \A h \in Handle :
       /\ acc[h].kind \in {"none"} \cup Kinds[h]
       /\ acc[h].state \in {"good", "eof", "bad"}
       /\ Len(acc[h].g) <= BufSize /\ Len(acc[h].p) <= BufSize
       /\ acc[h].gp \in 0 .. Len(acc[h].g)
  /\ tx \in {"none", "active", "dead"} /\ begun \in 0 .. MaxBegin
  /\ file \in Text(MaxFile) /\ at \in [Handle -> Nat]
  /\ told \in BOOLEAN /\ silent \in BOOLEAN

\* Nothing has failed in the transaction so far.
Sound == Active /\ b.up /\ ~told /\ ~silent

\* largeobjectaccess::open and close: as long as nothing failed, the descriptor
\* an access or stream works with is open on its own object.
OwnDescriptor ==
  Sound => \A h \in Handle : acc[h].kind # "none" =>
             /\ acc[h].fd \in DOMAIN b.fds
             /\ b.fds[acc[h].fd].obj = acc[h].id
             /\ \A i \in Handle \ {h} : acc[i].kind # "none" => acc[i].fd # acc[h].fd

\* overflow(), sync(), seekoff(): what the object holds, with what is still in
\* the put area laid over it at the descriptor's position, is what the client
\* has written: nothing is lost, written twice or put in the wrong place.
StoredUpToBuffer ==
  Sound =>
    /\ DOMAIN b.objs = DOMAIN ideal
    /\ \A h \in Handle :
         acc[h].kind # "none" /\ acc[h].id \in DOMAIN ideal =>
           Place(b.objs[acc[h].id], b.fds[acc[h].fd].pos, acc[h].p) = ideal[acc[h].id]

\* ~basic_olostream, ~basic_lostream, commit(): when commit() returns normally
\* after a transaction in which nothing failed, every object holds what was
\* written to it, also what was only in a put area when its stream was destroyed.
CommittedIsWritten == tx = "none" => b.objs = ideal

\* underflow(), seekoff(): get(), read(), tell() and seek() return what they
\* would without a buffer.  get() stops before the end only when the read failed
\* or the first byte of a load is EofByte.
ReadsTrue ==
  \/ got.found = got.due
  \/ got.found = <<>> /\ got.due = <<EofByte>>
  \/ told

\* Writing through a buffer is writing: nothing is lost, doubled or put out of
\* order between put() and the commit.
WritesTrue == TypeOK /\ StoredUpToBuffer /\ CommittedIsWritten
=============================================================================
