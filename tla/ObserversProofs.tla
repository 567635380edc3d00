-------------------------- MODULE ObserversProofs --------------------------
(***************************************************************************)
(* ConnectionSound, CallbacksSafe, DeliveredOnce and DeliveryProper of     *)
(* Observers for any number of receivers and handlers, callbacks nested to *)
(* any depth and any number of notifications.                              *)
(*                                                                         *)
(* For the first, what matters is the connection object, its handle and    *)
(* the handles of libpq: Owns says of a state that the handle in m_Conn is *)
(* the only one in use, and each operator is shown to keep that in all its *)
(* outcomes.  For the others it is the containers and the calls in         *)
(* progress: Good says of a state what each call has reached, by the       *)
(* places of its iterators, and which transactions can be open around it.  *)
(***************************************************************************)
EXTENDS Observers, SequenceTheorems, WellFoundedInduction, TLAPS

\* Everything the code works on: the members of the connection, the handles of
\* libpq, and the calls in progress.
IsConn(x) ==
  x = [policy |-> x.policy, conn |-> x.conn, completed |-> x.completed,
       connecting |-> x.connecting, status |-> x.status, inbox |-> x.inbox,
       obj |-> x.obj, trans |-> x.trans, over |-> x.over, recs |-> x.recs,
       handlers |-> x.handlers, homed |-> x.homed, stack |-> x.stack]

\* The connection owns every handle of libpq that is in use.
Owns(x) ==
  /\ IsConn(x) /\ x.policy \in Policies /\ x.conn \in Handle \cup {Null}
  /\ x.completed \in BOOLEAN /\ x.connecting \in BOOLEAN
  /\ x.status \in [Handle -> {"free", "connecting", "ok", "lost", "bad"}]
  /\ \A h \in Handle : x.status[h] # "free" => x.conn = h

\* y is x but for callbacks, containers and transactions.
Keeps(x, y) ==
  /\ IsConn(y) /\ y.policy = x.policy /\ y.conn = x.conn /\ y.completed = x.completed
  /\ y.connecting = x.connecting /\ y.status = x.status /\ y.obj = x.obj

\* From x to y the object lives on, and what it owns is its own.
Moves(x, y) == Owns(y) /\ y.obj = x.obj /\ y.policy = x.policy

\* It has made no new connection, either.
Quiet(x, y) == Moves(x, y) /\ (x.conn = Null => y.conn = Null)

\* The invariant: without an object there is no handle.
HandleInv == Owns(c) /\ (c.obj # "live" => c.conn = Null)

\* What is kept is owned as before.
LEMMA KeptIsOwned ==
  ASSUME NEW x, NEW y, Owns(x), Keeps(x, y)
  PROVE  Quiet(x, y)
BY DEF Owns, Keeps, Quiet, Moves

\* Keeping is transitive.
LEMMA KeptTwice ==
  ASSUME NEW x, NEW y, NEW z, Keeps(x, y), Keeps(y, z)
  PROVE  Keeps(x, z)
BY DEF Keeps

\* Pushing, popping and changing calls in progress leaves the connection alone.
LEMMA StackKept ==
  ASSUME NEW x, NEW f, IsConn(x)
  PROVE  /\ Keeps(x, x) /\ Keeps(x, Push(x, f)) /\ Keeps(x, Pop(x))
         /\ Keeps(x, SetTop(x, f)) /\ Keeps(x, Forget(x, f)) /\ Keeps(x, Spend(x))
<1>1. Keeps(x, x) BY DEF Keeps
<1>2. Keeps(x, Push(x, f))
  <2> DEFINE s == Append(x.stack, f)
  <2>1. Push(x, f) = [x EXCEPT !.stack = s] BY DEF Push
  <2> HIDE DEF s
  <2> QED BY <2>1 DEF Keeps, IsConn
<1>3. Keeps(x, Pop(x)) BY DEF Keeps, IsConn, Pop
<1>4. \A g : Keeps(x, SetTop(x, g)) BY DEF Keeps, IsConn, SetTop
<1>5. Keeps(x, Forget(x, f)) BY DEF Keeps, IsConn, Forget
<1>6. Keeps(x, Spend(x))
  <2> DEFINE g == [Top(x) EXCEPT !.ops = @ + 1]
  <2>1. Spend(x) = x \/ Spend(x) = SetTop(x, g) BY DEF Spend
  <2>2. Keeps(x, SetTop(x, g)) BY <1>4
  <2> QED BY <1>1, <2>1, <2>2
<1> QED BY <1>1, <1>2, <1>3, <1>4, <1>5, <1>6

\* The same for the containers, the transaction and the queue of notifications.
LEMMA ContainersKept ==
  ASSUME NEW x, NEW v, IsConn(x)
  PROVE  /\ Keeps(x, [x EXCEPT !.recs = v]) /\ Keeps(x, [x EXCEPT !.inbox = v])
         /\ Keeps(x, [x EXCEPT !.trans = v]) /\ Keeps(x, [x EXCEPT !.over = v])
         /\ Keeps(x, Unregister(x))
<1>1. /\ Keeps(x, [x EXCEPT !.recs = v]) /\ Keeps(x, [x EXCEPT !.inbox = v])
      /\ Keeps(x, [x EXCEPT !.trans = v]) /\ Keeps(x, [x EXCEPT !.over = v])
  BY DEF Keeps, IsConn
<1>2. ASSUME NEW y, y = [x EXCEPT !.trans = 0, !.over = FALSE] PROVE Keeps(x, y)
  <2>1. IsConn(y) BY <1>2 DEF IsConn
  <2> QED BY <1>2, <2>1 DEF Keeps, IsConn
<1>3. Keeps(x, Unregister(x)) BY <1>2 DEF Unregister
<1> QED BY <1>1, <1>3

\* The same for the error handlers.
LEMMA HandlersKept ==
  ASSUME NEW x, NEW y, NEW v, NEW w, IsConn(x),
         y = [x EXCEPT !.handlers = v, !.homed = w]
  PROVE  Keeps(x, y)
BY DEF Keeps, IsConn

----------------------------------------------------------------------------
(* The policies.                                                           *)

\* A connection that is not there: nothing in use, nothing under way.
Down(x) == x.conn = Null /\ ~x.connecting

\* PQconnectdb() and PQconnectStart(): a new handle is taken when there is none.
LEMMA ConnectFacts ==
  ASSUME NEW x, NEW st \in {"connecting", "ok", "lost", "bad"},
         Owns(x), x.conn = Null, NEW y \in Connect(x, st)
  PROVE  /\ Moves(x, y) /\ y.conn \in Handle /\ y.status[y.conn] = st
         /\ y.completed = x.completed /\ y.connecting = x.connecting
<1> DEFINE h == CHOOSE k \in Free(x) : TRUE
<1>1. Free(x) # {} /\ y = [x EXCEPT !.conn = h, !.status[h] = st] BY DEF Connect
<1>2. h \in Handle /\ x.status[h] = "free" BY <1>1 DEF Free
<1> HIDE DEF h
<1>3. h # Null /\ \A k \in Handle : x.status[k] = "free"
  BY <1>2, PolicyAssumption DEF Owns
<1>4. y.status = [x.status EXCEPT ![h] = st] /\ y.conn = h BY <1>1 DEF Owns, IsConn
<1>5. /\ IsConn(y) /\ y.policy = x.policy /\ y.obj = x.obj
      /\ y.completed = x.completed /\ y.connecting = x.connecting
  BY <1>1 DEF Owns, IsConn
<1> QED BY <1>2, <1>3, <1>4, <1>5 DEF Moves, Owns

\* If there is room for a connection one can be made.
LEMMA ConnectPossible ==
  ASSUME NEW x, NEW st, Owns(x), x.conn = Null, Handle # {}
  PROVE  Connect(x, st) # {}
<1>1. \A h \in Handle : x.status[h] = "free" BY PolicyAssumption DEF Owns
<1> QED BY <1>1 DEF Connect, Free

\* disconnect() frees the handle, whatever its state.
LEMMA DisconnectFacts ==
  ASSUME NEW x, Owns(x)
  PROVE  /\ Quiet(x, do_disconnect(x)) /\ Down(do_disconnect(x))
         /\ do_disconnect(x).completed = x.completed
<1> DEFINE y == do_dropconnect(x)
<1>0. y = [x EXCEPT !.connecting = FALSE] BY DEF do_dropconnect
<1>2. do_disconnect(x) = IF y.conn = Null THEN y ELSE PQfinish(y) BY DEF do_disconnect
<1> HIDE DEF y
<1>1. /\ IsConn(y) /\ y.policy = x.policy /\ y.conn = x.conn /\ y.status = x.status
      /\ y.completed = x.completed /\ y.connecting = FALSE /\ y.obj = x.obj
  BY <1>0 DEF Owns, IsConn
<1>3. CASE y.conn = Null BY <1>1, <1>2, <1>3 DEF Quiet, Moves, Owns, Down
<1>4. CASE y.conn # Null
  <2>1. y.conn \in Handle BY <1>1, <1>4 DEF Owns
  <2> DEFINE z == PQfinish(y)
  <2> DEFINE s == [y.status EXCEPT ![y.conn] = "free"]
  <2>2. z = [y EXCEPT !.status = s, !.conn = Null, !.inbox = <<>>] BY DEF PQfinish
  <2> HIDE DEF z, s
  <2>3. z.status = [y.status EXCEPT ![y.conn] = "free"] BY <1>1, <2>2 DEF s, IsConn
  <2>4. /\ IsConn(z) /\ z.policy = y.policy /\ z.conn = Null /\ z.obj = y.obj
        /\ z.completed = y.completed /\ z.connecting = y.connecting
    BY <1>1, <2>2 DEF IsConn
  <2>5. \A h \in Handle : z.status[h] = "free"
    <3>1. y.status \in [Handle -> {"free", "connecting", "ok", "lost", "bad"}]
      BY <1>1 DEF Owns
    <3>2. \A h \in Handle : y.status[h] # "free" => y.conn = h BY <1>1 DEF Owns
    <3> QED BY <2>1, <2>3, <3>1, <3>2
  <2>6. z.status \in [Handle -> {"free", "connecting", "ok", "lost", "bad"}]
    BY <1>1, <2>3 DEF Owns
  <2> QED BY <1>1, <1>2, <1>4, <2>4, <2>5, <2>6 DEF z, Quiet, Moves, Owns, Down
<1> QED BY <1>3, <1>4

\* What a step of connecting comes to: the object owns its handle, and the only
\* exception is broken_connection.
Fine(x, o) == Moves(x, o.x) /\ o.exc \in {"ok", "broken"}

\* normalconnect(): the handle is new, or there was one, or the attempt has left none.
LEMMA NormalFacts ==
  ASSUME NEW x, Owns(x), NEW o \in normalconnect(x)
  PROVE  Fine(x, o) /\ (o.exc = "broken" => o.x.conn = Null)
<1>1. CASE o = Ok(x)
  <2>1. o.x = x /\ o.exc = "ok" BY <1>1 DEF Ok, Out
  <2> QED BY <2>1 DEF Fine, Moves
<1>2. CASE x.conn = Null /\ o = Out(x, "broken")
  <2>1. o.x = x /\ o.exc = "broken" BY <1>2 DEF Out
  <2> QED BY <1>2, <2>1 DEF Fine, Moves
<1>3. ASSUME x.conn = Null, NEW y \in Connect(x, "ok"), o = Ok(y)
      PROVE  Fine(x, o) /\ (o.exc = "broken" => o.x.conn = Null)
  <2>1. o.x = y /\ o.exc = "ok" BY <1>3 DEF Ok, Out
  <2>2. Moves(x, y) BY <1>3, ConnectFacts
  <2> QED BY <2>1, <2>2 DEF Fine
<1> QED BY <1>1, <1>2, <1>3 DEF normalconnect

\* connect_async::do_startconnect() when PQconnectStart() does not fail at once.
LEMMA StartAsyncFacts ==
  ASSUME Faults = {}, NEW x, Owns(x), NEW o \in start_async(x)
  PROVE  Fine(x, o) /\ (o.exc = "broken" => o.x.conn = Null)
<1>1. CASE o = Ok(x)
  <2>1. o.x = x /\ o.exc = "ok" BY <1>1 DEF Ok, Out
  <2> QED BY <2>1 DEF Fine, Moves
<1>2. ASSUME x.conn = Null, NEW y \in Connect(x, "connecting"),
             o = Ok([y EXCEPT !.connecting = TRUE])
      PROVE  Fine(x, o) /\ (o.exc = "broken" => o.x.conn = Null)
  <2> DEFINE z == [y EXCEPT !.connecting = TRUE]
  <2>1. o.x = z /\ o.exc = "ok" BY <1>2 DEF Ok, Out
  <2>2. Moves(x, y) BY <1>2, ConnectFacts
  <2>3. Moves(x, z)
    <3>1. z = [y EXCEPT !.connecting = TRUE] OBVIOUS
    <3> HIDE DEF z
    <3>2. /\ IsConn(z) /\ z.policy = y.policy /\ z.conn = y.conn
          /\ z.status = y.status /\ z.completed = y.completed
          /\ z.connecting = TRUE /\ z.obj = y.obj
      BY <2>2, <3>1 DEF Moves, Owns, IsConn
    <3>3. z.connecting \in BOOLEAN BY <3>2
    <3> QED BY <2>2, <3>2, <3>3 DEF Moves, Owns
  <2> QED BY <2>1, <2>3 DEF Fine
<1>3. {Out([y EXCEPT !.conn = Null, !.connecting = FALSE], "broken") :
       y \in IF "start_fails" \in Faults THEN Connect(x, "bad") ELSE {}} = {}
  OBVIOUS
<1>4. o \in IF x.conn # Null THEN {Ok(x)}
            ELSE {Ok([y EXCEPT !.connecting = TRUE]) : y \in Connect(x, "connecting")}
                 \cup {Out([y EXCEPT !.conn = Null, !.connecting = FALSE], "broken") :
                       y \in IF "start_fails" \in Faults THEN Connect(x, "bad") ELSE {}}
  BY DEF start_async
<1> QED BY <1>1, <1>2, <1>3, <1>4

\* do_startconnect(): without a handle nothing is left to be finished.
LEMMA StartFacts ==
  ASSUME Faults = {}, NEW x, Owns(x), NEW o \in do_startconnect(x)
  PROVE  Fine(x, o) /\ (o.exc = "broken" => o.x.conn = Null)
<1>1. CASE x.policy = "direct" BY <1>1, NormalFacts DEF do_startconnect
<1>2. CASE x.policy = "async" BY <1>2, StartAsyncFacts DEF do_startconnect
<1>3. CASE x.policy \notin {"direct", "async"}
  <2>1. o = Ok(x) BY <1>3 DEF do_startconnect
  <2>2. o.x = x /\ o.exc = "ok" BY <2>1 DEF Ok, Out
  <2> QED BY <2>2 DEF Fine, Moves
<1> QED BY <1>1, <1>2, <1>3

\* PQconnectPoll() decides about the handle that was started.
LEMMA PolledFacts ==
  ASSUME NEW x, Owns(x), NEW st \in {"ok", "bad"}, NEW z,
         z = [x EXCEPT !.connecting = FALSE, !.status[x.conn] = st]
  PROVE  Moves(x, z)
<1> DEFINE s == [x.status EXCEPT ![x.conn] = st]
<1>1. z = [x EXCEPT !.connecting = FALSE, !.status = s]
  BY DEF Owns, IsConn
<1>2. s \in [Handle -> {"free", "connecting", "ok", "lost", "bad"}]
  BY DEF Owns
<1>3. \A h \in Handle : s[h] # "free" => x.conn = h BY DEF Owns
<1> HIDE DEF s
<1>4. /\ IsConn(z) /\ z.policy = x.policy /\ z.conn = x.conn /\ z.status = s
      /\ z.completed = x.completed /\ z.connecting = FALSE /\ z.obj = x.obj
  BY <1>1 DEF Owns, IsConn
<1> QED BY <1>2, <1>3, <1>4 DEF Moves, Owns

\* do_completeconnect(): an asynchronous attempt that fails still owns its bad handle.
LEMMA FinishFacts ==
  ASSUME NEW x, Owns(x), NEW o \in do_completeconnect(x)
  PROVE  Fine(x, o)
<1>0. Fine(x, Ok(x))
  <2>1. Ok(x).x = x /\ Ok(x).exc = "ok" BY DEF Ok, Out
  <2> QED BY <2>1 DEF Fine, Moves
<1>1. CASE x.policy = "lazy" BY <1>1, NormalFacts DEF do_completeconnect
<1>2. CASE x.policy = "async"
  <2> DEFINE y == [x EXCEPT !.connecting = FALSE, !.status[x.conn] = "ok"]
             z == [x EXCEPT !.connecting = FALSE, !.status[x.conn] = "bad"]
  <2>1. o = Ok(x) \/ o = Ok(y) \/ o = Out(z, "broken")
    BY <1>2 DEF do_completeconnect, complete_async
  <2>2. Moves(x, y) BY PolledFacts
  <2>3. Moves(x, z) BY PolledFacts
  <2> HIDE DEF y, z
  <2>4. Ok(y).x = y /\ Ok(y).exc = "ok" BY DEF Ok, Out
  <2>5. Out(z, "broken").x = z /\ Out(z, "broken").exc = "broken" BY DEF Out
  <2> QED BY <1>0, <2>1, <2>2, <2>3, <2>4, <2>5 DEF Fine
<1>3. CASE x.policy \notin {"lazy", "async"}
  BY <1>0, <1>3 DEF do_completeconnect
<1> QED BY <1>1, <1>2, <1>3

\* Setting m_Completed does not concern the handle.
LEMMA CompletedKept ==
  ASSUME NEW x, Owns(x), NEW b \in BOOLEAN, NEW y, y = [x EXCEPT !.completed = b]
  PROVE  /\ Quiet(x, y) /\ y.completed = b /\ y.conn = x.conn
         /\ y.connecting = x.connecting /\ y.status = x.status
<1>1. /\ IsConn(y) /\ y.policy = x.policy /\ y.conn = x.conn /\ y.status = x.status
      /\ y.completed = b /\ y.connecting = x.connecting /\ y.obj = x.obj
  BY DEF Owns, IsConn
<1> QED BY <1>1 DEF Quiet, Moves, Owns

\* Dropping the handle after an exception.
LEMMA DroppedFacts ==
  ASSUME NEW x, Owns(x), NEW y, y = [do_disconnect(x) EXCEPT !.completed = FALSE]
  PROVE  Quiet(x, y) /\ Down(y) /\ y.completed = FALSE
<1> DEFINE d == do_disconnect(x)
<1>1. Quiet(x, d) /\ Down(d) BY DisconnectFacts
<1>2. y = [d EXCEPT !.completed = FALSE] OBVIOUS
<1> HIDE DEF d
<1>3. Owns(d) BY <1>1 DEF Quiet, Moves
<1>4. Quiet(d, y) /\ y.completed = FALSE /\ y.conn = d.conn
      /\ y.connecting = d.connecting
  BY <1>2, <1>3, CompletedKept
<1> QED BY <1>1, <1>4 DEF Quiet, Moves, Down

\* The rest of activate()'s try block: it returns normally with an open connection.
LEMMA CompletedFacts ==
  ASSUME Faults = {}, NEW x, Owns(x), NEW o \in Completed(x)
  PROVE  Fine(x, o) /\ (o.exc = "ok" => is_open(o.x))
<1> DEFINE y == [x EXCEPT !.completed = TRUE]
<1>1. o \in IF is_open(y) THEN SetupState(y) ELSE {Out(y, "broken")} BY DEF Completed
<1>2. Moves(x, y) /\ Owns(y) BY CompletedKept DEF Quiet, Moves
<1> HIDE DEF y
<1>3. CASE o = Out(y, "broken")
  <2>1. o.x = y /\ o.exc = "broken" BY <1>3 DEF Out
  <2> QED BY <1>2, <2>1 DEF Fine
<1>4. CASE is_open(y) /\ o = Ok(y)
  <2>1. o.x = y /\ o.exc = "ok" BY <1>4 DEF Ok, Out
  <2> QED BY <1>2, <1>4, <2>1 DEF Fine
<1>5. CASE o = Out([do_disconnect(y) EXCEPT !.completed = FALSE], "broken")
  <2> DEFINE z == [do_disconnect(y) EXCEPT !.completed = FALSE]
  <2>1. o.x = z /\ o.exc = "broken" BY <1>5 DEF Out
  <2>2. Quiet(y, z) BY <1>2, DroppedFacts
  <2> HIDE DEF z
  <2> QED BY <1>2, <2>1, <2>2 DEF Fine, Quiet, Moves
<1>6. is_open(y) /\ o \in SetupState(y) =>
        o = Ok(y) \/ o = Out([do_disconnect(y) EXCEPT !.completed = FALSE], "broken")
  BY DEF SetupState
<1> QED BY <1>1, <1>3, <1>4, <1>5, <1>6

\* The whole try block of activate().
LEMMA AttemptFacts ==
  ASSUME Faults = {}, NEW x, Owns(x), NEW o \in Attempt(x)
  PROVE  Fine(x, o) /\ (o.exc = "ok" => is_open(o.x))
<1>1. PICK p \in do_startconnect(x) :
        o \in IF p.exc = "ok" THEN Complete(p.x) ELSE {p}
  BY DEF Attempt, Then
<1>2. Fine(x, p) BY StartFacts
<1>3. CASE p.exc # "ok" BY <1>1, <1>2, <1>3
<1>4. CASE p.exc = "ok"
  <2>1. o \in Complete(p.x) BY <1>1, <1>4
  <2>2. PICK q \in do_completeconnect(p.x) :
          o \in IF q.exc = "ok" THEN Completed(q.x) ELSE {q}
    BY <2>1 DEF Complete, Then
  <2>3. Owns(p.x) BY <1>2 DEF Fine, Moves
  <2>4. Fine(p.x, q) BY <2>3, FinishFacts
  <2>5. Fine(x, q) BY <1>2, <2>4 DEF Fine, Moves
  <2>6. CASE q.exc # "ok" BY <2>2, <2>5, <2>6
  <2>7. CASE q.exc = "ok"
    <3>1. Owns(q.x) BY <2>4 DEF Fine, Moves
    <3>2. Fine(q.x, o) /\ (o.exc = "ok" => is_open(o.x))
      BY <2>2, <2>7, <3>1, CompletedFacts
    <3> QED BY <2>5, <3>2 DEF Fine, Moves
  <2> QED BY <2>6, <2>7
<1> QED BY <1>3, <1>4

\* activate(): either the connection is open, or there is none.
Settled(x, o) ==
  /\ Moves(x, o.x)
  /\ \/ o.exc = "ok" /\ is_open(o.x)
     \/ o.exc = "broken" /\ Down(o.x) /\ o.x.completed = FALSE

\* activate() in these words.
LEMMA ActivateFacts ==
  ASSUME Faults = {}, NEW x, Owns(x), NEW o \in activate(x)
  PROVE  Settled(x, o)
<1>1. CASE is_open(x)
  <2>1. o = Ok(x) BY <1>1 DEF activate
  <2>2. o.x = x /\ o.exc = "ok" BY <2>1 DEF Ok, Out
  <2> QED BY <1>1, <2>2 DEF Settled, Moves
<1>2. CASE ~is_open(x)
  <2>1. PICK p \in Attempt(x) :
          o = CASE p.exc = "ok"     -> p
                [] p.exc = "broken" -> Out([disconnect(p.x) EXCEPT !.completed = FALSE],
                                           "broken")
                [] OTHER            -> Out([p.x EXCEPT !.completed = FALSE], p.exc)
    BY <1>2 DEF activate
  <2>2. Fine(x, p) /\ (p.exc = "ok" => is_open(p.x)) BY AttemptFacts
  <2>3. CASE p.exc = "ok" BY <2>1, <2>2, <2>3 DEF Settled, Fine
  <2>4. CASE p.exc = "broken"
    <3> DEFINE z == [do_disconnect(p.x) EXCEPT !.completed = FALSE]
    <3>1. o = Out(z, "broken") BY <2>1, <2>4 DEF disconnect
    <3>2. Owns(p.x) BY <2>2 DEF Fine, Moves
    <3>3. Quiet(p.x, z) /\ Down(z) /\ z.completed = FALSE BY <3>2, DroppedFacts
    <3> HIDE DEF z
    <3>4. o.x = z /\ o.exc = "broken" BY <3>1 DEF Out
    <3> QED BY <2>2, <3>3, <3>4 DEF Settled, Fine, Quiet, Moves
  <2> QED BY <2>2, <2>3, <2>4 DEF Fine
<1> QED BY <1>1, <1>2

\* A usable handle becomes an open connection, unless setting up the session fails.
LEMMA CompletedPossible ==
  ASSUME NEW x, Owns(x), x.conn \in Handle, x.status[x.conn] = "ok"
  PROVE  \E p \in Completed(x) : p.exc = "ok"
<1> DEFINE y == [x EXCEPT !.completed = TRUE]
<1>1. y.completed = TRUE /\ y.conn = x.conn /\ y.status = x.status BY CompletedKept
<1>2. Completed(x) = IF is_open(y) THEN SetupState(y) ELSE {Out(y, "broken")}
  BY DEF Completed
<1> HIDE DEF y
<1>3. is_open(y) BY <1>1, PolicyAssumption DEF is_open, StatusOK
<1>4. Ok(y) \in SetupState(y) BY <1>1 DEF SetupState
<1>5. Ok(y).exc = "ok" BY DEF Ok, Out
<1> QED BY <1>2, <1>3, <1>4, <1>5

\* Each policy can finish a connection that it has started.
LEMMA CompletePossible ==
  ASSUME NEW x, Owns(x), NEW y, Owns(y), Ok(y) \in do_completeconnect(x),
         y.conn \in Handle, y.status[y.conn] = "ok"
  PROVE  \E p \in Complete(x) : p.exc = "ok"
<1>1. PICK p \in Completed(y) : p.exc = "ok" BY CompletedPossible
<1>2. Ok(y).x = y /\ Ok(y).exc = "ok" BY DEF Ok, Out
<1>3. p \in Complete(x) BY <1>1, <1>2 DEF Complete, Then
<1> QED BY <1>1, <1>3

\* An attempt succeeds if its start and its completion do.
LEMMA AttemptPossible ==
  ASSUME NEW x, Owns(x), NEW y, Ok(y) \in do_startconnect(x),
         \E p \in Complete(y) : p.exc = "ok"
  PROVE  \E p \in Attempt(x) : p.exc = "ok"
<1>1. PICK p \in Complete(y) : p.exc = "ok" OBVIOUS
<1>2. Ok(y).x = y /\ Ok(y).exc = "ok" BY DEF Ok, Out
<1>3. p \in Attempt(x) BY <1>1, <1>2 DEF Attempt, Then
<1> QED BY <1>1, <1>3

\* Where there is nothing, every policy but the null one can connect.
LEMMA RetrySucceeds ==
  ASSUME Handle # {}, NEW x, Owns(x), Down(x), x.policy # "null"
  PROVE  \E p \in activate(x) : p.exc = "ok"
<1>1. x.conn = Null /\ ~is_open(x) BY DEF Down, is_open, StatusOK
<1>2. x.policy \in {"direct", "lazy", "async"} BY DEF Owns, Policies
<1>3. PICK y : y \in Connect(x, "ok") BY <1>1, ConnectPossible
<1>4. Owns(y) /\ y.policy = x.policy /\ y.conn \in Handle /\ y.status[y.conn] = "ok"
  BY <1>1, <1>3, ConnectFacts DEF Moves
<1>5. \E p \in Attempt(x) : p.exc = "ok"
  <2>1. CASE x.policy = "direct"
    <3>1. Ok(y) \in do_startconnect(x) BY <1>1, <1>3, <2>1 DEF do_startconnect, normalconnect
    <3>2. Ok(y) \in do_completeconnect(y) BY <1>4, <2>1 DEF do_completeconnect
    <3> QED BY <1>4, <3>1, <3>2, CompletePossible, AttemptPossible
  <2>2. CASE x.policy = "lazy"
    <3>1. Ok(x) \in do_startconnect(x) BY <2>2 DEF do_startconnect
    <3>2. Ok(y) \in do_completeconnect(x)
      BY <1>1, <1>3, <2>2 DEF do_completeconnect, normalconnect
    <3> QED BY <1>4, <3>1, <3>2, CompletePossible, AttemptPossible
  <2>3. CASE x.policy = "async"
    <3>1. PICK u : u \in Connect(x, "connecting") BY <1>1, ConnectPossible
    <3>2. Owns(u) /\ u.policy = x.policy /\ u.conn \in Handle
      BY <1>1, <3>1, ConnectFacts DEF Moves
    <3> DEFINE v == [u EXCEPT !.connecting = TRUE]
    <3>3. Ok(v) \in do_startconnect(x)
      BY <1>1, <2>3, <3>1 DEF do_startconnect, start_async
    <3>4. v = [u EXCEPT !.connecting = TRUE] OBVIOUS
    <3> HIDE DEF v
    <3>5. /\ IsConn(v) /\ v.policy = u.policy /\ v.conn = u.conn
          /\ v.status = u.status /\ v.completed = u.completed
          /\ v.connecting = TRUE /\ v.obj = u.obj
      BY <3>2, <3>4 DEF Owns, IsConn
    <3>6. v.connecting \in BOOLEAN BY <3>5
    <3>7. Owns(v) BY <3>2, <3>5, <3>6 DEF Owns
    <3> DEFINE z == [v EXCEPT !.connecting = FALSE, !.status[v.conn] = "ok"]
    <3>8. Ok(z) \in do_completeconnect(v)
      BY <2>3, <3>2, <3>5 DEF do_completeconnect, complete_async
    <3>9. Moves(v, z) BY <3>7, PolledFacts
    <3>10. z.conn = v.conn /\ z.status[v.conn] = "ok"
      <4> DEFINE s == [v.status EXCEPT ![v.conn] = "ok"]
      <4>1. z = [v EXCEPT !.connecting = FALSE, !.status = s] OBVIOUS
      <4>2. s[v.conn] = "ok" BY <3>2, <3>5, <3>7 DEF Owns
      <4> HIDE DEF s, z
      <4> QED BY <3>5, <4>1, <4>2 DEF IsConn
    <3> HIDE DEF z
    <3>11. \E p \in Complete(v) : p.exc = "ok"
      BY <3>2, <3>5, <3>7, <3>8, <3>9, <3>10, CompletePossible DEF Moves
    <3> QED BY <3>3, <3>11, AttemptPossible
  <2> QED BY <1>2, <2>1, <2>2, <2>3
<1>6. PICK p \in Attempt(x) : p.exc = "ok" BY <1>5
<1>7. p \in activate(x) BY <1>1, <1>6 DEF activate
<1> QED BY <1>6, <1>7

\* Recovers follows from what is owned alone.
LEMMA OwnerRecovers ==
  ASSUME Faults = {}, Handle # {}, Owns(c)
  PROVE  Recovers
<1>1. SUFFICES ASSUME c.policy # "null", NEW o \in activate(c)
               PROVE  is_open(o.x) \/ \E p \in activate(o.x) : p.exc = "ok"
  BY DEF Recovers
<1>2. Settled(c, o) BY ActivateFacts
<1>3. Owns(o.x) /\ o.x.policy = c.policy BY <1>2 DEF Settled, Moves
<1>4. CASE is_open(o.x) BY <1>4
<1>5. CASE Down(o.x) BY <1>1, <1>3, <1>5, RetrySucceeds
<1> QED BY <1>2, <1>4, <1>5 DEF Settled

----------------------------------------------------------------------------
(* Callbacks, deliveries and transactions.                                 *)

\* Making no connection is transitive.
LEMMA QuietTwice ==
  ASSUME NEW x, NEW y, NEW z, Quiet(x, y), Quiet(y, z)
  PROVE  Quiet(x, z)
BY DEF Quiet, Moves

\* Owning what there is, too, is transitive.
LEMMA MovesTwice ==
  ASSUME NEW x, NEW y, NEW z, Moves(x, y), Moves(y, z)
  PROVE  Moves(x, z)
BY DEF Moves

\* The link of the handle in use changes its state.
LEMMA LinkFacts ==
  ASSUME NEW x, Owns(x), NEW st \in {"lost", "bad"}, NEW z,
         z = [x EXCEPT !.status[x.conn] = st]
  PROVE  Quiet(x, z)
<1> DEFINE s == [x.status EXCEPT ![x.conn] = st]
<1>1. z = [x EXCEPT !.status = s] BY DEF Owns, IsConn
<1>2. s \in [Handle -> {"free", "connecting", "ok", "lost", "bad"}] BY DEF Owns
<1>3. \A h \in Handle : s[h] # "free" => x.conn = h BY DEF Owns
<1> HIDE DEF s
<1>4. /\ IsConn(z) /\ z.policy = x.policy /\ z.conn = x.conn /\ z.status = s
      /\ z.completed = x.completed /\ z.connecting = x.connecting /\ z.obj = x.obj
  BY <1>1 DEF Owns, IsConn
<1> QED BY <1>2, <1>3, <1>4 DEF Quiet, Moves, Owns

\* Beginning a notice, or going on to wait, is a call in progress more.
LEMMA NoticeKept ==
  ASSUME NEW x, IsConn(x), NEW await
  PROVE  Keeps(x, process_notice(x)) /\ Keeps(x, GotNone(x, await))
<1>1. Keeps(x, process_notice(x))
  <2>1. PICK f : process_notice(x) = Push(x, f) BY DEF process_notice
  <2> QED BY <2>1, StackKept
<1>2. Keeps(x, GotNone(x, await))
  <2>1. GotNone(x, await) = x \/ \E f : GotNone(x, await) = Push(x, f) BY DEF GotNone
  <2> QED BY <2>1, StackKept
<1> QED BY <1>1, <1>2

\* consume_input() may find the link gone, and keeps the handle.
LEMMA ConsumeFacts ==
  ASSUME NEW x, Owns(x), NEW o \in consume_input(x)
  PROVE  Quiet(x, o.x)
<1>1. CASE o = Ok(x)
  <2>1. o.x = x BY <1>1 DEF Ok, Out
  <2> QED BY <2>1 DEF Quiet, Moves
<1>2. CASE o = Out([x EXCEPT !.status[x.conn] = "bad"], "broken")
  <2> DEFINE z == [x EXCEPT !.status[x.conn] = "bad"]
  <2>1. o.x = z BY <1>2 DEF Out
  <2> HIDE DEF z
  <2> QED BY <2>1, LinkFacts DEF z
<1> QED BY <1>1, <1>2 DEF consume_input

\* get_notifs() makes no connection.
LEMMA GetNotifsFacts ==
  ASSUME NEW x, Owns(x), NEW await, NEW o \in get_notifs(x, await)
  PROVE  Quiet(x, o.x)
<1> DEFINE Sees(y) == IF y.trans # 0 THEN {Ok(GotNone(y, await))}
                      ELSE {Ok(Push(y, Frame("notifs", "loop", await)))}
<1>1. \A y : Ok(y).x = y BY DEF Ok, Out
<1>2. \A y : Owns(y) => Quiet(y, GotNone(y, await))
  BY NoticeKept, KeptIsOwned DEF Owns
<1>3. \A y, f : Owns(y) => Quiet(y, Push(y, f)) BY StackKept, KeptIsOwned DEF Owns
<1>4. ASSUME NEW y, Owns(y), NEW p \in Sees(y) PROVE Quiet(y, p.x)
  <2>1. p = Ok(GotNone(y, await)) \/ p = Ok(Push(y, Frame("notifs", "loop", await)))
    BY <1>4
  <2> QED BY <1>1, <1>2, <1>3, <1>4, <2>1
<1>5. CASE o = Ok(GotNone(x, await)) BY <1>1, <1>2, <1>5
<1>6. CASE o \in Then(consume_input(x), Sees)
  <2>1. PICK p \in consume_input(x) : o \in IF p.exc = "ok" THEN Sees(p.x) ELSE {p}
    BY <1>6 DEF Then
  <2>2. Quiet(x, p.x) BY ConsumeFacts
  <2>3. Owns(p.x) BY <2>2 DEF Quiet, Moves
  <2> HIDE DEF Sees
  <2>4. o = p \/ o \in Sees(p.x) BY <2>1
  <2> QED BY <1>4, <2>2, <2>3, <2>4, QuietTwice
<1>7. o \in IF ~is_open(x) THEN {Ok(GotNone(x, await))} ELSE Then(consume_input(x), Sees)
  BY DEF get_notifs
<1> QED BY <1>5, <1>6, <1>7

\* A query on a link that is gone drops the handle.
LEMMA QueryFacts ==
  ASSUME NEW x, Owns(x), NEW o \in query(x)
  PROVE  Quiet(x, o.x)
<1>1. CASE o = Ok(x)
  <2>1. o.x = x BY <1>1 DEF Ok, Out
  <2> QED BY <2>1 DEF Quiet, Moves
<1>2. CASE o = Out([do_disconnect(x) EXCEPT !.completed = FALSE], "broken")
  <2> DEFINE z == [do_disconnect(x) EXCEPT !.completed = FALSE]
  <2>1. o.x = z BY <1>2 DEF Out
  <2>2. Quiet(x, z) BY DroppedFacts
  <2> HIDE DEF z
  <2> QED BY <2>1, <2>2
<1> QED BY <1>1, <1>2 DEF query, disconnect

\* exec(): whatever comes of it, the object still owns what it has.
LEMMA ExecFacts ==
  ASSUME Faults = {}, NEW x, Owns(x), NEW o \in Exec(x)
  PROVE  Moves(x, o.x)
<1> DEFINE Notifs(z) == get_notifs(z, "no")
           Asked(y)  == Then(query(y), Notifs)
<1>1. o \in Then(activate(x), Asked) BY DEF Exec
<1>2. ASSUME NEW y, Owns(y), NEW p \in Asked(y) PROVE Moves(y, p.x)
  <2>1. PICK q \in query(y) : p \in IF q.exc = "ok" THEN Notifs(q.x) ELSE {q}
    BY <1>2 DEF Then
  <2>2. Quiet(y, q.x) BY <1>2, QueryFacts
  <2>3. Moves(y, q.x) /\ Owns(q.x) BY <2>2 DEF Quiet, Moves
  <2>4. p = q \/ p \in get_notifs(q.x, "no") BY <2>1
  <2>5. p \in get_notifs(q.x, "no") => Quiet(q.x, p.x) BY <2>3, GetNotifsFacts
  <2> QED BY <2>3, <2>4, <2>5 DEF Quiet, Moves
<1> HIDE DEF Asked
<1>3. PICK p \in activate(x) : o \in IF p.exc = "ok" THEN Asked(p.x) ELSE {p}
  BY <1>1 DEF Then
<1>4. Moves(x, p.x) BY ActivateFacts DEF Settled
<1>5. Owns(p.x) BY <1>4 DEF Moves
<1>6. o = p \/ o \in Asked(p.x) BY <1>3
<1> QED BY <1>2, <1>4, <1>5, <1>6, MovesTwice

\* add_receiver(): LISTEN may lose the connection.
LEMMA AddReceiverFacts ==
  ASSUME NEW x, Owns(x), NEW r, NEW o \in add_receiver(x, r)
  PROVE  Moves(x, o.x)
<1>1. PICK p \in query(x) \cup {Ok(x)} : o = Ok([p.x EXCEPT !.recs = Insert(@, r)])
  BY DEF add_receiver
<1>2. Quiet(x, p.x)
  <2>1. Ok(x).x = x BY DEF Ok, Out
  <2>2. Quiet(x, x) BY DEF Quiet, Moves
  <2> QED BY <1>1, <2>1, <2>2, QueryFacts
<1> DEFINE v == Insert(p.x.recs, r)
           z == [p.x EXCEPT !.recs = v]
<1>3. o.x = z BY <1>1 DEF Ok, Out
<1>4. Owns(p.x) BY <1>2 DEF Quiet, Moves
<1>5. Quiet(p.x, z)
  <2> HIDE DEF v
  <2>1. Keeps(p.x, z) BY <1>4, ContainersKept DEF Owns
  <2> QED BY <1>4, <2>1, KeptIsOwned
<1> HIDE DEF z
<1> QED BY <1>2, <1>3, <1>5, QuietTwice DEF Quiet

\* What reporting an exception leaves.
LEMMA ReportedFacts ==
  ASSUME NEW x, NEW y, Moves(x, y)
  PROVE  Moves(x, process_notice(y))
<1>1. Owns(y) BY DEF Moves
<1>2. Quiet(y, process_notice(y)) BY <1>1, NoticeKept, KeptIsOwned DEF Owns
<1> QED BY <1>2 DEF Quiet, Moves

\* The outcomes of a call whose exceptions are reported and forgotten.
LEMMA SwallowedFacts ==
  ASSUME Faults = {}, NEW x, Owns(x), NEW p \in Exec(x), NEW o,
         o = IF p.exc = "ok" THEN p ELSE Ok(process_notice(p.x))
  PROVE  Moves(x, o.x)
<1>1. Moves(x, p.x) BY ExecFacts
<1>2. Moves(x, process_notice(p.x)) BY <1>1, ReportedFacts
<1>3. Ok(process_notice(p.x)).x = process_notice(p.x) BY DEF Ok, Out
<1> QED BY <1>1, <1>2, <1>3

\* remove_receiver(): UNLISTEN may connect, and lose the connection.
LEMMA RemoveReceiverFacts ==
  ASSUME Faults = {}, NEW x, Owns(x), NEW r, NEW o \in remove_receiver(x, r)
  PROVE  Moves(x, o.x)
<1> DEFINE v == Erase(x.recs, r)
           u == [x EXCEPT !.recs = v]
           y == Forget(u, r)
<1>1. Quiet(x, y)
  <2> HIDE DEF v
  <2>1. Keeps(x, u) BY ContainersKept DEF Owns
  <2> HIDE DEF u
  <2>2. Keeps(u, y) BY <2>1, StackKept DEF Keeps
  <2>3. Keeps(x, y) BY <2>1, <2>2, KeptTwice
  <2> HIDE DEF y
  <2> QED BY <2>3, KeptIsOwned
<1>2. \/ o = Ok(y)
      \/ \E p \in Exec(y) : o = IF p.exc = "ok" THEN p ELSE Ok(process_notice(p.x))
  BY DEF remove_receiver
<1> HIDE DEF y
<1>3. Moves(x, y) /\ Owns(y) BY <1>1 DEF Quiet, Moves
<1>4. Ok(y).x = y BY DEF Ok, Out
<1>5. ASSUME NEW p \in Exec(y), o = IF p.exc = "ok" THEN p ELSE Ok(process_notice(p.x))
      PROVE  Moves(x, o.x)
  <2>1. Moves(y, o.x) BY <1>3, <1>5, SwallowedFacts
  <2> QED BY <1>3, <2>1, MovesTwice
<1> QED BY <1>2, <1>3, <1>4, <1>5

\* Unregistering the transaction does not concern the handle.
LEMMA UnregisterFacts ==
  ASSUME NEW x, NEW y, Moves(x, y)
  PROVE  Moves(x, Unregister(y))
<1>1. Owns(y) BY DEF Moves
<1>2. Quiet(y, Unregister(y))
  <2>1. Keeps(y, Unregister(y)) BY <1>1, ContainersKept DEF Owns
  <2> QED BY <1>1, <2>1, KeptIsOwned
<1> QED BY <1>2 DEF Quiet, Moves

\* A transaction's constructor, also when it throws.
LEMMA BeginFacts ==
  ASSUME Faults = {}, NEW x, Owns(x), NEW o \in Begin(x)
  PROVE  Moves(x, o.x)
<1> DEFINE Opens(y) == {IF p.exc = "ok" THEN p ELSE Out(Unregister(p.x), p.exc) :
                        p \in Then(get_notifs(y, "no"), Exec)}
<1>1. o \in Then(Register(x), Opens) BY DEF Begin
<1>2. ASSUME NEW y, Owns(y), NEW q \in Opens(y) PROVE Moves(y, q.x)
  <2>1. PICK p \in Then(get_notifs(y, "no"), Exec) :
          q = IF p.exc = "ok" THEN p ELSE Out(Unregister(p.x), p.exc)
    BY <1>2
  <2>2. PICK n \in get_notifs(y, "no") : p \in IF n.exc = "ok" THEN Exec(n.x) ELSE {n}
    BY <2>1 DEF Then
  <2>3. Moves(y, n.x) BY <1>2, GetNotifsFacts DEF Quiet
  <2>4. Owns(n.x) BY <2>3 DEF Moves
  <2>5. p \in Exec(n.x) => Moves(n.x, p.x) BY <2>4, ExecFacts
  <2>6. p = n \/ p \in Exec(n.x) BY <2>2
  <2>7. Moves(y, p.x) BY <2>3, <2>5, <2>6, MovesTwice
  <2>8. Moves(y, Unregister(p.x)) BY <2>7, UnregisterFacts
  <2>9. q.x = p.x \/ q.x = Unregister(p.x) BY <2>1 DEF Out
  <2> QED BY <2>7, <2>8, <2>9
<1> HIDE DEF Opens
<1>3. PICK p \in Register(x) : o \in IF p.exc = "ok" THEN Opens(p.x) ELSE {p}
  BY <1>1 DEF Then
<1>4. Moves(x, p.x)
  <2> DEFINE d == Depth(x) + 1
             z == [x EXCEPT !.trans = d]
  <2>1. p = Out(x, "usage") \/ p = Ok(z) BY DEF Register
  <2>2. p.x = x \/ p.x = z BY <2>1 DEF Ok, Out
  <2> HIDE DEF d
  <2>3. Keeps(x, z) BY ContainersKept DEF Owns
  <2> HIDE DEF z
  <2>4. Moves(x, z) /\ Moves(x, x) BY <2>3, KeptIsOwned DEF Quiet, Moves
  <2> QED BY <2>2, <2>4
<1>5. Owns(p.x) BY <1>4 DEF Moves
<1>6. o = p \/ o \in Opens(p.x) BY <1>3
<1> QED BY <1>2, <1>4, <1>5, <1>6, MovesTwice

\* A transaction whose commit() has failed, and the two notices of doubt.
LEMMA FailedFacts ==
  ASSUME NEW x, Owns(x), NEW f
  PROVE  LET y == [x EXCEPT !.over = TRUE]
         IN  Moves(x, y) /\ Moves(x, process_notice(Push(y, f)))
<1> DEFINE y == [x EXCEPT !.over = TRUE]
           z == Push(y, f)
<1>1. Keeps(x, y) BY ContainersKept DEF Owns
<1> HIDE DEF y
<1>2. Keeps(y, z) BY <1>1, StackKept DEF Keeps
<1> HIDE DEF z
<1>3. Keeps(z, process_notice(z)) BY <1>2, NoticeKept DEF Keeps
<1>4. Keeps(x, process_notice(z)) BY <1>1, <1>2, <1>3, KeptTwice
<1> QED BY <1>1, <1>4, KeptIsOwned DEF Quiet, y, z

\* commit(), also when it throws.
LEMMA CommitFacts ==
  ASSUME Faults = {}, NEW x, Owns(x), NEW o \in Commit(x)
  PROVE  Moves(x, o.x)
<1> DEFINE f == Frame("commit", "caught", "no")
           Failed(y) == process_notice(Push([y EXCEPT !.over = TRUE], f))
<1>1. CASE o = Out(x, "broken") \/ o = Out(x, "usage")
  <2>1. o.x = x BY <1>1 DEF Out
  <2> QED BY <2>1 DEF Moves
<1>2. CASE o = Out([x EXCEPT !.over = TRUE], "sql")
  <2>1. o.x = [x EXCEPT !.over = TRUE] BY <1>2 DEF Out
  <2> QED BY <2>1, FailedFacts
<1>3. ASSUME NEW p \in Exec(x), o = Ok(Unregister(p.x)) \/ o = Out(Failed(p.x), "in_doubt")
      PROVE  Moves(x, o.x)
  <2>1. o.x = Unregister(p.x) \/ o.x = Failed(p.x) BY <1>3 DEF Ok, Out
  <2>2. Moves(x, p.x) BY ExecFacts
  <2>3. Owns(p.x) BY <2>2 DEF Moves
  <2>4. Moves(p.x, Failed(p.x)) BY <2>3, FailedFacts
  <2>5. Moves(x, Failed(p.x)) BY <2>2, <2>4, MovesTwice
  <2> QED BY <2>1, <2>2, <2>5, UnregisterFacts
<1> QED BY <1>1, <1>2, <1>3 DEF Commit

\* The destructor's rollback, whose exceptions are ignored.
LEMMA AbandonFacts ==
  ASSUME Faults = {}, NEW x, Owns(x), NEW o \in Abandon(x)
  PROVE  Moves(x, o.x)
<1> DEFINE y == Unregister(x)
<1>1. Moves(x, y) BY UnregisterFacts DEF Moves
<1>2. o = Ok(y) \/ \E p \in Exec(y) : o = Ok(p.x) BY DEF Abandon
<1> HIDE DEF y
<1>3. Owns(y) BY <1>1 DEF Moves
<1>4. CASE o = Ok(y)
  <2>1. o.x = y BY <1>4 DEF Ok, Out
  <2> QED BY <1>1, <2>1
<1>5. ASSUME NEW p \in Exec(y), o = Ok(p.x) PROVE Moves(x, o.x)
  <2>1. o.x = p.x BY <1>5 DEF Ok, Out
  <2>2. Moves(y, p.x) BY <1>3, ExecFacts
  <2> QED BY <1>1, <2>1, <2>2, MovesTwice
<1> QED BY <1>2, <1>4, <1>5

----------------------------------------------------------------------------
(* The steps.                                                              *)

\* A call of the client keeps the invariant: the object is live.
LEMMA ClientStep ==
  ASSUME HandleInv, c.obj = "live", Moves(c, c')
  PROVE  HandleInv'
BY DEF HandleInv, Moves, Owns, IsConn

\* A step that makes no connection keeps it in every state of the object.
LEMMA QuietStep ==
  ASSUME HandleInv, Quiet(c, c')
  PROVE  HandleInv'
BY DEF HandleInv, Quiet, Moves, Owns, IsConn

\* A call of the client costs one of the callback it is made in.
LEMMA SpentFacts ==
  ASSUME HandleInv
  PROVE  Moves(c, Spend(c)) /\ Owns(Spend(c))
<1>1. Keeps(c, Spend(c)) BY StackKept DEF HandleInv, Owns
<1>2. Quiet(c, Spend(c)) BY <1>1, KeptIsOwned DEF HandleInv
<1> QED BY <1>2 DEF Quiet, Moves

\* The constructor: one that throws leaves no handle.
LEMMA ConstructStep ==
  ASSUME Faults = {}, HandleInv, Construct
  PROVE  HandleInv'
<1>0. Owns(c) /\ c.obj = "none" BY DEF HandleInv, Construct
<1>1. PICK o \in init(c) :
        c' = (IF o.exc = "ok" THEN Ok([o.x EXCEPT !.obj = "live"]) ELSE o).x
  BY DEF Construct, Call
<1>2. Fine(c, o) /\ (o.exc = "broken" => o.x.conn = Null)
  <2> DEFINE Ready(y) == IF is_ready(y) THEN activate(y) ELSE {Ok(y)}
  <2>1. o \in Then(do_startconnect(c), Ready) BY DEF init
  <2>2. PICK p \in do_startconnect(c) : o \in IF p.exc = "ok" THEN Ready(p.x) ELSE {p}
    BY <2>1 DEF Then
  <2>3. Fine(c, p) /\ (p.exc = "broken" => p.x.conn = Null) BY <1>0, StartFacts
  <2>4. Moves(c, p.x) /\ Owns(p.x) BY <2>3 DEF Fine, Moves
  <2>5. o = p \/ o = Ok(p.x) \/ o \in activate(p.x) BY <2>2
  <2>6. CASE o = p BY <2>3, <2>6
  <2>7. CASE o = Ok(p.x)
    <3>1. o.x = p.x /\ o.exc = "ok" BY <2>7 DEF Ok, Out
    <3> QED BY <2>4, <3>1 DEF Fine
  <2>8. CASE o \in activate(p.x)
    <3>1. Settled(p.x, o) BY <2>4, <2>8, ActivateFacts
    <3> QED BY <2>4, <3>1 DEF Settled, Fine, Moves, Down
  <2> QED BY <2>5, <2>6, <2>7, <2>8
<1>3. CASE o.exc = "ok"
  <2>1. c' = [o.x EXCEPT !.obj = "live"] BY <1>1, <1>3 DEF Ok, Out
  <2>2. Owns(o.x) BY <1>2 DEF Fine, Moves
  <2>3. c' = [o.x EXCEPT !.obj = "live"] => HandleInv'
    <3> DEFINE z == [o.x EXCEPT !.obj = "live"]
    <3>1. z = [o.x EXCEPT !.obj = "live"] OBVIOUS
    <3> HIDE DEF z
    <3>2. /\ IsConn(z) /\ z.policy = o.x.policy /\ z.conn = o.x.conn
          /\ z.status = o.x.status /\ z.completed = o.x.completed
          /\ z.connecting = o.x.connecting /\ z.obj = "live"
      BY <2>2, <3>1 DEF Owns, IsConn
    <3>3. Owns(z) BY <2>2, <3>2 DEF Owns
    <3> QED BY <3>1, <3>2, <3>3 DEF HandleInv, Owns, IsConn
  <2> QED BY <2>1, <2>3
<1>4. CASE o.exc = "broken"
  <2>1. c' = o.x BY <1>1, <1>4
  <2>2. Quiet(c, c') BY <1>2, <1>4, <2>1 DEF Fine, Quiet
  <2> QED BY <2>2, QuietStep
<1> QED BY <1>2, <1>3, <1>4 DEF Fine

\* The calls that make, use and drop connections.
LEMMA ConnectionSteps ==
  ASSUME Faults = {}, HandleInv,
         \/ Activate \/ DatabaseName \/ Deactivate \/ Disconnect \/ GetNotifs
         \/ \E await \in {"block", "timed"} : AwaitNotification(await)
  PROVE  HandleInv'
<1> DEFINE x == Spend(c)
<1>1. Moves(c, x) /\ Owns(x) BY SpentFacts
<1>2. c.obj = "live"
  BY DEF Activate, DatabaseName, Deactivate, Disconnect, GetNotifs, AwaitNotification,
         Client
<1>3. \A y : Ok(y).x = y BY DEF Ok, Out
<1> SUFFICES Moves(c, c') BY <1>2, ClientStep
<1>4. CASE Activate
  <2>1. PICK o \in activate(x) : c' = o.x BY <1>4 DEF Activate, Call
  <2>2. Settled(x, o) BY <1>1, ActivateFacts
  <2> QED BY <1>1, <2>1, <2>2, MovesTwice DEF Settled
<1>5. CASE DatabaseName
  <2>1. PICK o \in dbname(x) : c' = o.x BY <1>5 DEF DatabaseName, Call
  <2>2. CASE o = Ok(x) BY <1>1, <1>3, <2>1, <2>2
  <2>3. CASE o \in activate(x)
    <3>1. Settled(x, o) BY <1>1, <2>3, ActivateFacts
    <3> QED BY <1>1, <2>1, <3>1, MovesTwice DEF Settled
  <2> QED BY <2>1, <2>2, <2>3 DEF dbname
<1>6. CASE Deactivate
  <2> DEFINE y == [x EXCEPT !.completed = FALSE]
  <2>1. PICK o \in deactivate(x) : c' = o.x BY <1>6 DEF Deactivate, Call
  <2>2. o = Ok(x) \/ o = Out(x, "usage") \/ o = Ok(do_disconnect(y))
    BY <2>1 DEF deactivate
  <2>3. Moves(x, y) /\ Owns(y) BY <1>1, CompletedKept DEF Quiet, Moves
  <2> HIDE DEF y
  <2>4. Moves(y, do_disconnect(y)) BY <2>3, DisconnectFacts DEF Quiet
  <2>5. Out(x, "usage").x = x BY DEF Out
  <2> HIDE DEF x
  <2> QED BY <1>1, <1>3, <2>1, <2>2, <2>3, <2>4, <2>5, MovesTwice
<1>7. CASE Disconnect
  <2>1. c' = do_disconnect(x) BY <1>3, <1>7 DEF Disconnect, Call, disconnect
  <2>2. Moves(x, do_disconnect(x)) BY <1>1, DisconnectFacts DEF Quiet
  <2> QED BY <1>1, <2>1, <2>2, MovesTwice
<1>8. CASE GetNotifs
  <2>1. PICK o \in get_notifs(x, "no") : c' = o.x BY <1>8 DEF GetNotifs, Call
  <2>2. Moves(x, o.x) BY <1>1, GetNotifsFacts DEF Quiet
  <2> QED BY <1>1, <2>1, <2>2, MovesTwice
<1>9. ASSUME NEW await, AwaitNotification(await) PROVE Moves(c, c')
  <2> DEFINE Notifs(y) == get_notifs(y, await)
  <2>1. PICK o \in Then(activate(c), Notifs) : c' = o.x
    BY <1>9 DEF AwaitNotification, await_notification, Call
  <2>2. PICK p \in activate(c) : o \in IF p.exc = "ok" THEN Notifs(p.x) ELSE {p}
    BY <2>1 DEF Then
  <2>3. Moves(c, p.x) BY ActivateFacts DEF Settled, HandleInv
  <2>4. o = p \/ o \in get_notifs(p.x, await) BY <2>2
  <2>5. o \in get_notifs(p.x, await) => Moves(p.x, o.x)
    BY <2>3, GetNotifsFacts DEF Quiet, Moves
  <2> QED BY <2>1, <2>3, <2>4, <2>5, MovesTwice
<1> QED BY <1>4, <1>5, <1>6, <1>7, <1>8, <1>9

\* The comings and goings of receivers, handlers and transactions.
LEMMA ClientSteps ==
  ASSUME Faults = {}, HandleInv,
         \/ \E r \in Receiver : NewReceiver(r) \/ DeleteReceiver(r)
         \/ \E h \in Handler : NewHandler(h) \/ DeleteHandler(h)
         \/ ProcessNotice \/ BeginTransaction \/ CommitTransaction
         \/ AbandonTransaction \/ Close
  PROVE  HandleInv'
<1> DEFINE x == Spend(c)
<1>1. Moves(c, x) /\ Owns(x) BY SpentFacts
<1>2. c.obj = "live"
  BY DEF NewReceiver, DeleteReceiver, NewHandler, DeleteHandler, ProcessNotice,
         BeginTransaction, CommitTransaction, AbandonTransaction, Close, Client,
         HandlerClient, Owner
<1>3. \A y : Ok(y).x = y BY DEF Ok, Out
<1>4. Owns(c) BY DEF HandleInv
<1> SUFFICES Moves(c, c') BY <1>2, ClientStep
<1>5. ASSUME NEW r, NewReceiver(r) PROVE Moves(c, c')
  <2>1. PICK o \in add_receiver(x, r) : c' = o.x BY <1>5 DEF NewReceiver, Call
  <2>2. Moves(x, o.x) BY <1>1, AddReceiverFacts
  <2> QED BY <1>1, <2>1, <2>2, MovesTwice
<1>6. ASSUME NEW r, DeleteReceiver(r) PROVE Moves(c, c')
  <2>1. PICK o \in remove_receiver(x, r) : c' = o.x BY <1>6 DEF DeleteReceiver, Call
  <2>2. Moves(x, o.x) BY <1>1, RemoveReceiverFacts
  <2> QED BY <1>1, <2>1, <2>2, MovesTwice
<1>7. ASSUME NEW h, NewHandler(h) PROVE Moves(c, c')
  <2>1. c' = register_errorhandler(x, h) BY <1>3, <1>7 DEF NewHandler, Call
  <2> HIDE DEF x
  <2> DEFINE v == Append(x.handlers, h)
             w == x.homed \cup {h}
             y == [x EXCEPT !.handlers = v, !.homed = w]
  <2>2. c' = y BY <2>1 DEF register_errorhandler
  <2> HIDE DEF v, w
  <2>3. Keeps(x, y) BY <1>1, HandlersKept DEF Owns
  <2> HIDE DEF y
  <2>4. Moves(x, y) BY <1>1, <2>3, KeptIsOwned DEF Quiet
  <2> QED BY <1>1, <2>2, <2>4, MovesTwice
<1>8. ASSUME NEW h, DeleteHandler(h) PROVE Moves(c, c')
  <2>1. c' = unregister(x, h) BY <1>3, <1>8 DEF DeleteHandler, Call
  <2> HIDE DEF x
  <2> DEFINE v == Erase(x.handlers, h)
             w == x.homed \ {h}
             y == [x EXCEPT !.handlers = v, !.homed = w]
  <2>2. c' = Forget(y, h) BY <2>1 DEF unregister
  <2> HIDE DEF v, w
  <2>3. Keeps(x, y) BY <1>1, HandlersKept DEF Owns
  <2> HIDE DEF y
  <2>4. Keeps(y, Forget(y, h)) BY <2>3, StackKept DEF Keeps
  <2>5. Keeps(x, c') BY <2>2, <2>3, <2>4, KeptTwice
  <2>6. Moves(x, c') BY <1>1, <2>5, KeptIsOwned DEF Quiet
  <2> QED BY <1>1, <2>6, MovesTwice
<1>9. CASE ProcessNotice
  <2>1. c' = process_notice(x) BY <1>3, <1>9 DEF ProcessNotice, Call
  <2> QED BY <1>1, <2>1, ReportedFacts
<1>10. CASE BeginTransaction
  <2>1. PICK o \in Begin(x) : c' = o.x BY <1>10 DEF BeginTransaction, Call
  <2>2. Moves(x, o.x) BY <1>1, BeginFacts
  <2> QED BY <1>1, <2>1, <2>2, MovesTwice
<1>11. CASE CommitTransaction
  <2>1. PICK o \in Commit(c) : c' = o.x BY <1>11 DEF CommitTransaction, Call
  <2> QED BY <1>4, <2>1, CommitFacts
<1>12. CASE AbandonTransaction
  <2>1. PICK o \in Abandon(c) : c' = o.x BY <1>12 DEF AbandonTransaction, Call
  <2> QED BY <1>4, <2>1, AbandonFacts
<1>13. CASE Close
  <2> DEFINE y == [c EXCEPT !.completed = FALSE]
             f == Frame("close", "trans", "no")
  <2>1. c' = Push(y, f) BY <1>3, <1>13 DEF Close, Call, close
  <2>2. Moves(c, y) BY <1>4, CompletedKept DEF Quiet
  <2> HIDE DEF y, f
  <2>3. Owns(y) BY <2>2 DEF Moves
  <2>4. Keeps(y, Push(y, f)) BY <2>3, StackKept DEF Owns
  <2>5. Moves(y, c') BY <2>1, <2>3, <2>4, KeptIsOwned DEF Quiet
  <2> QED BY <2>2, <2>5, MovesTwice
<1> QED BY <1>5, <1>6, <1>7, <1>8, <1>9, <1>10, <1>11, <1>12, <1>13

\* The loops of get_notifs() and process_notice_raw(), and what their callbacks
\* return.
LEMMA DeliveryKept ==
  ASSUME NEW x, IsConn(x), NEW f, NEW b \in BOOLEAN
  PROVE  /\ Keeps(x, CallHandler(x, f)) /\ Keeps(x, HandlerReturns(x, f, b))
         /\ Keeps(x, CallReceiver(x, f)) /\ Keeps(x, NextReceiver(x, f))
         /\ Keeps(x, ReceiverReturns(x, f, b))
<1>1. Keeps(x, Pop(x)) /\ \A g : Keeps(x, SetTop(x, g)) BY StackKept
<1>2. Keeps(x, CallHandler(x, f))
  <2>1. CallHandler(x, f) = Pop(x) \/ \E g : CallHandler(x, f) = SetTop(x, g)
    BY DEF CallHandler
  <2> QED BY <1>1, <2>1
<1>3. Keeps(x, HandlerReturns(x, f, b))
  <2>1. HandlerReturns(x, f, b) = Pop(x) \/ \E g : HandlerReturns(x, f, b) = SetTop(x, g)
    BY DEF HandlerReturns
  <2> QED BY <1>1, <2>1
<1>4. Keeps(x, NextReceiver(x, f))
  <2>1. \E g : NextReceiver(x, f) = SetTop(x, g) BY DEF NextReceiver
  <2> QED BY <1>1, <2>1
<1>5. Keeps(x, NextNotification(x, f))
  <2> DEFINE v == Tail(x.inbox)
             y == [x EXCEPT !.inbox = v]
  <2>1. \/ NextNotification(x, f) = GotNone(Pop(x), f.await)
        \/ \E g : NextNotification(x, f) = SetTop(y, g)
    BY DEF NextNotification
  <2> HIDE DEF v
  <2>2. Keeps(x, y) BY ContainersKept
  <2> HIDE DEF y
  <2>3. ASSUME NEW g PROVE Keeps(x, SetTop(y, g))
    <3>1. Keeps(y, SetTop(y, g)) BY <2>2, StackKept DEF Keeps
    <3> QED BY <2>2, <3>1, KeptTwice
  <2>4. Keeps(x, GotNone(Pop(x), f.await))
    <3>1. IsConn(Pop(x)) BY <1>1 DEF Keeps
    <3>2. Keeps(Pop(x), GotNone(Pop(x), f.await)) BY <3>1, NoticeKept
    <3> QED BY <1>1, <3>2, KeptTwice
  <2> QED BY <2>1, <2>3, <2>4
<1>6. Keeps(x, CallReceiver(x, f))
  <2>1. \/ CallReceiver(x, f) = NextNotification(x, f)
        \/ \E g : CallReceiver(x, f) = SetTop(x, g)
    BY DEF CallReceiver
  <2> QED BY <1>1, <1>5, <2>1
<1>7. Keeps(x, ReceiverReturns(x, f, b))
  <2>1. \/ ReceiverReturns(x, f, b) = NextReceiver(x, f)
        \/ \E g : ReceiverReturns(x, f, b) = process_notice(SetTop(x, g))
    BY DEF ReceiverReturns
  <2>2. ASSUME NEW g PROVE Keeps(x, process_notice(SetTop(x, g)))
    <3>1. IsConn(SetTop(x, g)) BY <1>1 DEF Keeps
    <3>2. Keeps(SetTop(x, g), process_notice(SetTop(x, g))) BY <3>1, NoticeKept
    <3> QED BY <1>1, <3>2, KeptTwice
  <2> QED BY <1>4, <2>1, <2>2
<1> QED BY <1>2, <1>3, <1>4, <1>6, <1>7

\* close() ends with the handle freed.
LEMMA ClosedFacts ==
  ASSUME NEW x, Owns(x)
  PROVE  Owns(Closed(x)) /\ Closed(x).conn = Null
<1> DEFINE y == [x EXCEPT !.recs = <<>>, !.handlers = <<>>, !.homed = {},
                          !.obj = "gone", !.trans = 0, !.over = FALSE]
<1>1. Closed(x) = do_disconnect(y) BY DEF Closed
<1>2. y = [x EXCEPT !.recs = <<>>, !.handlers = <<>>, !.homed = {},
                    !.obj = "gone", !.trans = 0, !.over = FALSE] OBVIOUS
<1> HIDE DEF y
<1>3. /\ IsConn(y) /\ y.policy = x.policy /\ y.conn = x.conn /\ y.status = x.status
      /\ y.completed = x.completed /\ y.connecting = x.connecting
  BY <1>2 DEF Owns, IsConn
<1>4. Owns(y) BY <1>3 DEF Owns
<1> QED BY <1>1, <1>4, DisconnectFacts DEF Quiet, Moves, Down

\* The steps of close().
LEMMA ClosingStep ==
  ASSUME HandleInv, Closing
  PROVE  HandleInv'
<1> DEFINE f == Top(c)
<1>1. c' = CloseStep(c, f)
  <2>1. Ok(CloseStep(c, f)).x = CloseStep(c, f) BY DEF Ok, Out
  <2> QED BY <2>1 DEF Closing, Call
<1>2. IsConn(c) /\ Owns(c) BY DEF HandleInv, Owns
<1>3. ASSUME NEW g PROVE Keeps(c, SetTop(c, g)) /\ Keeps(c, process_notice(SetTop(c, g)))
  <2>1. Keeps(c, SetTop(c, g)) BY <1>2, StackKept
  <2>2. Keeps(SetTop(c, g), process_notice(SetTop(c, g)))
    BY <2>1, NoticeKept DEF Keeps
  <2> QED BY <2>1, <2>2, KeptTwice
<1>4. CASE c' = Closed(Pop(c))
  <2>1. Keeps(c, Pop(c)) BY <1>2, StackKept
  <2>2. Owns(Pop(c)) BY <1>2, <2>1, KeptIsOwned DEF Quiet, Moves
  <2>3. Owns(Closed(Pop(c))) /\ Closed(Pop(c)).conn = Null BY <2>2, ClosedFacts
  <2> QED BY <1>4, <2>3 DEF HandleInv, Owns, IsConn
<1>5. CASE \E g : c' = SetTop(c, g) \/ c' = process_notice(SetTop(c, g))
  <2>1. Keeps(c, c') BY <1>3, <1>5
  <2> QED BY <1>2, <2>1, KeptIsOwned, QuietStep
<1>6. \/ c' = Closed(Pop(c))
      \/ \E g : c' = SetTop(c, g) \/ c' = process_notice(SetTop(c, g))
  BY <1>1 DEF CloseStep
<1> QED BY <1>4, <1>5, <1>6

\* The library's own steps, returning callbacks, and the world outside.
LEMMA OtherSteps ==
  ASSUME HandleInv,
         \/ Loop \/ Caught \/ Wait \/ Return
         \/ (\E r \in Receiver : Notify(Channel[r])) \/ LinkLost
  PROVE  HandleInv'
<1>1. IsConn(c) /\ Owns(c) BY DEF HandleInv, Owns
<1>2. \A y : Ok(y).x = y BY DEF Ok, Out
<1>3. Keeps(c, c') => HandleInv' BY <1>1, KeptIsOwned, QuietStep
<1> DEFINE f == Top(c)
<1>4. CASE Loop
  <2>1. c' = CallHandler(c, f) \/ c' = CallReceiver(c, f) BY <1>2, <1>4 DEF Loop, Call
  <2> QED BY <1>1, <1>3, <2>1, DeliveryKept
<1>5. CASE Caught
  <2> DEFINE y == Pop(c)
  <2>1. c' = NextReceiver(c, f) \/ c' = process_notice(y) BY <1>2, <1>5 DEF Caught, Call
  <2>2. Keeps(c, y) BY <1>1, StackKept
  <2> HIDE DEF y
  <2>3. Keeps(y, process_notice(y)) BY <2>2, NoticeKept DEF Keeps
  <2>4. Keeps(c, process_notice(y)) BY <2>2, <2>3, KeptTwice
  <2> QED BY <1>1, <1>3, <2>1, <2>4, DeliveryKept
<1>6. CASE Wait
  <2>1. PICK o \in Waited(c) : c' = o.x BY <1>6 DEF Wait, Call
  <2>2. Keeps(c, Pop(c)) BY <1>1, StackKept
  <2>3. Quiet(c, Pop(c)) BY <1>1, <2>2, KeptIsOwned
  <2>4. CASE o = Out(Pop(c), "broken")
    <3>1. c' = Pop(c) BY <2>1, <2>4 DEF Out
    <3> QED BY <2>3, <3>1, QuietStep
  <2>5. CASE o \in get_notifs(Pop(c), "no")
    <3>1. Quiet(Pop(c), o.x) BY <2>3, <2>5, GetNotifsFacts DEF Quiet, Moves
    <3> QED BY <2>1, <2>3, <3>1, QuietTwice, QuietStep
  <2> QED BY <2>1, <2>4, <2>5 DEF Waited
<1>7. CASE Return
  <2>1. PICK b \in BOOLEAN : ReceiverReturn(b) \/ HandlerReturn(b) BY <1>7 DEF Return
  <2>2. c' = ReceiverReturns(c, f, b) \/ c' = HandlerReturns(c, f, b)
    BY <1>2, <2>1 DEF ReceiverReturn, HandlerReturn, Call
  <2> QED BY <1>1, <1>3, <2>2, DeliveryKept
<1>8. ASSUME NEW ch, Notify(ch) PROVE HandleInv'
  <2> DEFINE v == Append(c.inbox, ch)
  <2>1. c' = [c EXCEPT !.inbox = v] BY <1>8 DEF Notify
  <2> HIDE DEF v
  <2>2. Keeps(c, [c EXCEPT !.inbox = v]) BY <1>1, ContainersKept
  <2> QED BY <1>3, <2>1, <2>2
<1>9. CASE LinkLost
  <2>1. Quiet(c, c') BY <1>1, <1>9, LinkFacts DEF LinkLost
  <2> QED BY <2>1, QuietStep
<1> QED BY <1>4, <1>5, <1>6, <1>7, <1>8, <1>9

\* HandleInv holds before there is a connection object.
LEMMA HandleInvInit == Init => HandleInv
BY DEF Init, HandleInv, Owns, IsConn

\* Every step keeps HandleInv.
LEMMA HandleInvNext ==
  ASSUME Faults = {}, HandleInv, [Next]_vars
  PROVE  HandleInv'
<1>1. CASE UNCHANGED vars BY <1>1 DEF vars, HandleInv, Owns, IsConn
<1>2. CASE Library BY <1>2, ClosingStep, OtherSteps DEF Library
<1>3. CASE Program
  BY <1>3, ConstructStep, ConnectionSteps, ClientSteps, OtherSteps DEF Program
<1>4. CASE (\E r \in Receiver : Notify(Channel[r])) \/ LinkLost BY <1>4, OtherSteps
<1> QED BY <1>1, <1>2, <1>3, <1>4 DEF Next

\* src/connection.cxx, connection_base::activate(), close(): for any number of
\* receivers and handlers, callbacks nested to any depth and any sequence of
\* failures, the connection owns every libpq connection there is, none is left by
\* a failed attempt or after close(), and after every failure the next attempt can
\* succeed.  Faults has the two cases in which the code leaves a handle behind or
\* keeps one it cannot use.
THEOREM ConnectionSoundHolds ==
  ASSUME Faults = {}, Handle # {}
  PROVE  Spec => []ConnectionSound
<1>1. HandleInv => ConnectionSound
  BY OwnerRecovers DEF HandleInv, Owns, ConnectionSound, HandlesOwned
<1>2. HandleInv /\ [Next]_vars => HandleInv' BY HandleInvNext
<1> QED BY <1>1, <1>2, HandleInvInit, PTL DEF Spec

----------------------------------------------------------------------------
(* The containers and their iterators.                                     *)

\* A container holds an element once, and no element is its end().
Lists(s, S) == s \in Seq(S) /\ IsInjective(s) /\ End \notin S

\* What an iterator can point at.
Within(s) == Range(s) \cup {End}

\* One iterator comes before another.
Before(s, a, b) == Position(s, a) < Position(s, b)

\* What is in both containers comes in the same order.
SameOrder(s, t) ==
  \A a, b \in Within(s) \cap Within(t) : Before(s, a, b) <=> Before(t, a, b)

\* m_receivers is sorted by channel.
Sorted(s) == \A q, r \in Range(s) : Before(s, q, r) => Channel[q] <= Channel[r]

\* The length and the indices of a sequence.
LEMMA SeqFacts ==
  ASSUME NEW S, NEW s \in Seq(S)
  PROVE  /\ Len(s) \in Nat /\ DOMAIN s = 1..Len(s)
         /\ \A i \in 1..Len(s) : s[i] \in S /\ s[i] \in Range(s)
         /\ \A e \in Range(s) : e \in S /\ \E i \in 1..Len(s) : s[i] = e
<1>1. Len(s) \in Nat /\ DOMAIN s = 1..Len(s) /\ s \in [1..Len(s) -> S] BY LenProperties
<1> QED BY <1>1 DEF Range

\* Searching finds an element where it is.
LEMMA IndexFacts ==
  ASSUME NEW S, NEW s, Lists(s, S), NEW i \in DOMAIN s
  PROVE  Index(s, s[i]) = i
<1> DEFINE I == {j \in 1..Len(s) : s[j] = s[i]}
<1>1. DOMAIN s = 1..Len(s) /\ Len(s) \in Nat BY SeqFacts DEF Lists
<1>2. I = {i} BY <1>1 DEF Lists, IsInjective
<1>3. Index(s, s[i]) = IF I # {} THEN Min(I) ELSE 0 BY DEF Index, SelectInSeq
<1>4. i \in Nat BY <1>1
<1>5. Min({i}) = i BY <1>4 DEF Min
<1> QED BY <1>2, <1>3, <1>5

\* Iterators point at different places, from the first to end().
LEMMA PositionFacts ==
  ASSUME NEW S, NEW s, Lists(s, S)
  PROVE  /\ \A i \in DOMAIN s : Position(s, s[i]) = i
         /\ Position(s, End) = Len(s) + 1
         /\ \A e \in Within(s) : Position(s, e) \in 1..Len(s) + 1
         /\ \A e \in Range(s) : Position(s, e) \in DOMAIN s /\ s[Position(s, e)] = e
         /\ \A a, b \in Within(s) : Position(s, a) = Position(s, b) => a = b
<1>1. DOMAIN s = 1..Len(s) /\ Len(s) \in Nat BY SeqFacts DEF Lists
<1>2. \A e \in Range(s) : e \in S /\ e # End BY SeqFacts DEF Lists
<1>3. ASSUME NEW i \in DOMAIN s PROVE Position(s, s[i]) = i
  <2>1. s[i] # End BY <1>1, <1>2, SeqFacts DEF Lists
  <2> QED BY <2>1, IndexFacts DEF Position
<1>4. Position(s, End) = Len(s) + 1 BY DEF Position
<1>5. ASSUME NEW e \in Range(s) PROVE Position(s, e) \in DOMAIN s /\ s[Position(s, e)] = e
  <2>1. PICK i \in DOMAIN s : s[i] = e BY DEF Range
  <2> QED BY <1>3, <2>1
<1>6. \A e \in Within(s) : Position(s, e) \in 1..Len(s) + 1
  BY <1>1, <1>4, <1>5 DEF Within
<1>7. \A a, b \in Within(s) : Position(s, a) = Position(s, b) => a = b
  BY <1>1, <1>4, <1>5 DEF Within
<1> QED BY <1>3, <1>4, <1>5, <1>6, <1>7

\* Iterators of a container are in a total order, end() the last.
LEMMA OrderFacts ==
  ASSUME NEW S, NEW s, Lists(s, S)
  PROVE  /\ \A a, b \in Within(s) : a = b \/ Before(s, a, b) \/ Before(s, b, a)
         /\ \A a, b \in Within(s) : Before(s, a, b) => ~Before(s, b, a) /\ a # b
         /\ \A a, b, e \in Within(s) : Before(s, a, b) /\ Before(s, b, e) => Before(s, a, e)
         /\ \A a \in Within(s) : ~Before(s, End, a)
         /\ \A a \in Range(s) : Before(s, a, End) /\ a \in S /\ a # End /\ a \in Within(s)
         /\ End \in Within(s)
<1>1. DOMAIN s = 1..Len(s) /\ Len(s) \in Nat BY SeqFacts DEF Lists
<1>2. \A e \in Range(s) : e \in S /\ e # End /\ e \in Within(s) BY SeqFacts DEF Lists, Within
<1>3. \A a \in Within(s) : Position(s, a) \in Nat /\ Position(s, a) <= Position(s, End)
  BY <1>1, PositionFacts
<1>4. \A a \in Range(s) : Position(s, a) < Position(s, End) BY <1>1, PositionFacts
<1>5. \A a, b \in Within(s) : Position(s, a) = Position(s, b) => a = b BY PositionFacts
<1>6. End \in Within(s) BY DEF Within
<1> QED BY <1>2, <1>3, <1>4, <1>5, <1>6 DEF Before

\* begin() is the first place of a container.
LEMMA FirstFacts ==
  ASSUME NEW S, NEW s, Lists(s, S)
  PROVE  First(s) \in Within(s) /\ Position(s, First(s)) = 1
<1>1. DOMAIN s = 1..Len(s) /\ Len(s) \in Nat BY SeqFacts DEF Lists
<1>2. CASE s = <<>>
  <2>1. Len(s) = 0 BY <1>2
  <2> QED BY <1>2, <2>1, PositionFacts DEF First, Within
<1>3. CASE s # <<>>
  <2>1. Len(s) \in Nat \ {0} BY <1>3, EmptySeq DEF Lists
  <2>2. 1 \in DOMAIN s BY <1>1, <2>1
  <2>3. First(s) = s[1] BY <1>3 DEF First
  <2> QED BY <2>2, <2>3, PositionFacts DEF Within, Range
<1> QED BY <1>2, <1>3

\* ++ goes to the next place.
LEMMA SuccFacts ==
  ASSUME NEW S, NEW s, Lists(s, S), NEW e \in Range(s)
  PROVE  Succ(s, e) \in Within(s) /\ Position(s, Succ(s, e)) = Position(s, e) + 1
<1>1. DOMAIN s = 1..Len(s) /\ Len(s) \in Nat BY SeqFacts DEF Lists
<1>2. PICK i \in DOMAIN s : s[i] = e BY DEF Range
<1>3. Index(s, e) = i /\ Position(s, e) = i BY <1>2, IndexFacts, PositionFacts
<1>4. Succ(s, e) = IF i \in {0, Len(s)} THEN End ELSE s[i + 1] BY <1>3 DEF Succ
<1>5. CASE i = Len(s) BY <1>3, <1>4, <1>5, PositionFacts DEF Within
<1>6. CASE i # Len(s)
  <2>1. i + 1 \in DOMAIN s /\ i # 0 BY <1>1, <1>6
  <2>2. Succ(s, e) = s[i + 1] BY <1>4, <1>6, <2>1
  <2> QED BY <1>3, <2>1, <2>2, PositionFacts DEF Within, Range
<1> QED BY <1>5, <1>6

\* -- goes to the place before.
LEMMA PredFacts ==
  ASSUME NEW S, NEW s, Lists(s, S), NEW e \in Within(s), Position(s, e) # 1
  PROVE  Pred(s, e) \in Range(s) /\ Position(s, Pred(s, e)) + 1 = Position(s, e)
<1>1. DOMAIN s = 1..Len(s) /\ Len(s) \in Nat BY SeqFacts DEF Lists
<1> DEFINE i == Position(s, e) - 1
<1>2. i \in 1..Len(s) BY <1>1, PositionFacts
<1>3. Pred(s, e) = IF i <= 0 THEN End ELSE s[i]
  <2>1. CASE e = End BY <1>1, <2>1 DEF Pred, Position
  <2>2. CASE e # End BY <2>2 DEF Pred, Position
  <2> QED BY <2>1, <2>2
<1>4. Pred(s, e) = s[i] BY <1>2, <1>3
<1>5. Position(s, s[i]) = i BY <1>1, <1>2, PositionFacts
<1>6. s[i] \in Range(s) BY <1>1, <1>2 DEF Range
<1>7. Position(s, e) \in Nat BY <1>1, PositionFacts
<1>8. i + 1 = Position(s, e) BY <1>7
<1> QED BY <1>4, <1>5, <1>6, <1>8

\* Taking out the element at a place moves up those after it.
LEMMA RemoveAtFacts ==
  ASSUME NEW S, NEW s \in Seq(S), NEW k \in 1..Len(s)
  PROVE  /\ RemoveAt(s, k) \in Seq(S) /\ Len(RemoveAt(s, k)) = Len(s) - 1
         /\ \A i \in 1..Len(s) - 1 : RemoveAt(s, k)[i] = IF i < k THEN s[i] ELSE s[i + 1]
<1>1. Len(s) \in Nat /\ \A i \in 1..Len(s) : s[i] \in S BY SeqFacts
<1> DEFINE a == SubSeq(s, 1, k - 1)
           b == SubSeq(s, k + 1, Len(s))
<1>2. a \in Seq(S) /\ Len(a) = k - 1 /\ \A i \in 1..k - 1 : a[i] = s[i]
  <2>1. \A i \in 1..k - 1 : s[i] \in S BY <1>1
  <2>2. k - 1 \in Int /\ 1 \in Int BY <1>1
  <2>3. /\ a \in Seq(S) /\ Len(a) = IF 1 <= k - 1 THEN k - 1 - 1 + 1 ELSE 0
        /\ \A i \in 1..k - 1 - 1 + 1 : a[i] = s[1 + i - 1]
    BY <2>1, <2>2, SubSeqProperties
  <2> HIDE DEF a
  <2> QED BY <1>1, <2>3
<1>3. b \in Seq(S) /\ Len(b) = Len(s) - k /\ \A i \in 1..Len(s) - k : b[i] = s[k + i]
  <2>1. \A i \in k + 1..Len(s) : s[i] \in S BY <1>1
  <2>2. k + 1 \in Int /\ Len(s) \in Int BY <1>1
  <2>3. /\ b \in Seq(S)
        /\ Len(b) = IF k + 1 <= Len(s) THEN Len(s) - (k + 1) + 1 ELSE 0
        /\ \A i \in 1..Len(s) - (k + 1) + 1 : b[i] = s[k + 1 + i - 1]
    BY <2>1, <2>2, SubSeqProperties
  <2> HIDE DEF b
  <2> QED BY <1>1, <2>3
<1>4. RemoveAt(s, k) = a \o b BY DEF RemoveAt
<1> HIDE DEF a, b
<1> DEFINE t == a \o b
<1>5. /\ t \in Seq(S) /\ Len(t) = Len(a) + Len(b)
      /\ \A i \in 1..Len(a) + Len(b) : t[i] = IF i <= Len(a) THEN a[i] ELSE b[i - Len(a)]
  BY <1>2, <1>3, ConcatProperties
<1> HIDE DEF t
<1>6. Len(t) = Len(s) - 1 BY <1>1, <1>2, <1>3, <1>5
<1>7. ASSUME NEW i \in 1..Len(s) - 1 PROVE t[i] = IF i < k THEN s[i] ELSE s[i + 1]
  <2>1. t[i] = IF i <= k - 1 THEN a[i] ELSE b[i - (k - 1)] BY <1>1, <1>2, <1>3, <1>5
  <2>2. CASE i < k BY <1>1, <1>2, <2>1, <2>2
  <2>3. CASE ~(i < k)
    <3>1. i - (k - 1) \in 1..Len(s) - k /\ k + (i - (k - 1)) = i + 1 BY <1>1, <2>3
    <3>2. t[i] = b[i - (k - 1)] BY <1>1, <2>1, <2>3
    <3> QED BY <1>3, <2>3, <3>1, <3>2
  <2> QED BY <2>2, <2>3
<1> QED BY <1>4, <1>5, <1>6, <1>7 DEF t

\* t is s with e put in at place k.
Widened(s, t, k, e) ==
  /\ Len(t) = Len(s) + 1
  /\ \A i \in 1..Len(s) + 1 : t[i] = IF i < k THEN s[i] ELSE IF i = k THEN e ELSE s[i - 1]

\* Putting an element in at a place moves down those from there on.
LEMMA InsertAtFacts ==
  ASSUME NEW S, NEW s \in Seq(S), NEW k \in 1..Len(s) + 1, NEW e \in S
  PROVE  InsertAt(s, k, e) \in Seq(S) /\ Widened(s, InsertAt(s, k, e), k, e)
<1>1. Len(s) \in Nat /\ \A i \in 1..Len(s) : s[i] \in S BY SeqFacts
<1> DEFINE a == SubSeq(s, 1, k - 1)
           b == SubSeq(s, k, Len(s))
<1>2. a \in Seq(S) /\ Len(a) = k - 1 /\ \A i \in 1..k - 1 : a[i] = s[i]
  <2>1. \A i \in 1..k - 1 : s[i] \in S BY <1>1
  <2>2. k - 1 \in Int /\ 1 \in Int BY <1>1
  <2>3. /\ a \in Seq(S) /\ Len(a) = IF 1 <= k - 1 THEN k - 1 - 1 + 1 ELSE 0
        /\ \A i \in 1..k - 1 - 1 + 1 : a[i] = s[1 + i - 1]
    BY <2>1, <2>2, SubSeqProperties
  <2> HIDE DEF a
  <2> QED BY <1>1, <2>3
<1>3. b \in Seq(S) /\ Len(b) = Len(s) - k + 1 /\ \A i \in 1..Len(s) - k + 1 : b[i] = s[k + i - 1]
  <2>1. \A i \in k..Len(s) : s[i] \in S BY <1>1
  <2>2. k \in Int /\ Len(s) \in Int BY <1>1
  <2>3. /\ b \in Seq(S)
        /\ Len(b) = IF k <= Len(s) THEN Len(s) - k + 1 ELSE 0
        /\ \A i \in 1..Len(s) - k + 1 : b[i] = s[k + i - 1]
    BY <2>1, <2>2, SubSeqProperties
  <2> HIDE DEF b
  <2> QED BY <1>1, <2>3
<1>4. InsertAt(s, k, e) = a \o <<e>> \o b BY DEF InsertAt
<1>5. <<e>> \in Seq(S) /\ Len(<<e>>) = 1 /\ <<e>>[1] = e OBVIOUS
<1> HIDE DEF a, b
<1> DEFINE d == a \o <<e>>
           t == d \o b
<1>6. /\ d \in Seq(S) /\ Len(d) = Len(a) + 1
      /\ \A i \in 1..Len(a) + 1 : d[i] = IF i <= Len(a) THEN a[i] ELSE <<e>>[i - Len(a)]
  BY <1>2, <1>5, ConcatProperties
<1>7. d \in Seq(S) /\ Len(d) = k /\ \A i \in 1..k : d[i] = IF i < k THEN s[i] ELSE e
  <2> HIDE DEF d
  <2>1. Len(d) = k BY <1>1, <1>2, <1>6
  <2>2. ASSUME NEW i \in 1..k PROVE d[i] = IF i < k THEN s[i] ELSE e
    <3>1. CASE i < k BY <1>1, <1>2, <1>6, <3>1
    <3>2. CASE i = k BY <1>1, <1>2, <1>5, <1>6, <3>2
    <3> QED BY <1>1, <3>1, <3>2
  <2> QED BY <1>6, <2>1, <2>2
<1> HIDE DEF d
<1>8. /\ t \in Seq(S) /\ Len(t) = Len(d) + Len(b)
      /\ \A i \in 1..Len(d) + Len(b) : t[i] = IF i <= Len(d) THEN d[i] ELSE b[i - Len(d)]
  BY <1>3, <1>7, ConcatProperties
<1> HIDE DEF t
<1>9. Len(t) = Len(s) + 1 BY <1>1, <1>3, <1>7, <1>8
<1>10. ASSUME NEW i \in 1..Len(s) + 1
       PROVE  t[i] = IF i < k THEN s[i] ELSE IF i = k THEN e ELSE s[i - 1]
  <2>1. t[i] = IF i <= k THEN d[i] ELSE b[i - k] BY <1>1, <1>3, <1>7, <1>8
  <2>2. CASE i <= k BY <1>1, <1>7, <2>1, <2>2
  <2>3. CASE ~(i <= k)
    <3>1. i - k \in 1..Len(s) - k + 1 /\ k + (i - k) - 1 = i - 1 BY <1>1, <2>3
    <3>2. t[i] = b[i - k] BY <1>1, <2>1, <2>3
    <3>3. t[i] = s[i - 1] BY <1>3, <3>1, <3>2
    <3> QED BY <1>1, <2>3, <3>3
  <2> QED BY <2>2, <2>3
<1> QED BY <1>4, <1>8, <1>9, <1>10 DEF d, t, Widened

\* erase() keeps the order of the others.
LEMMA EraseFacts ==
  ASSUME NEW S, NEW s, Lists(s, S), NEW e \in Range(s)
  PROVE  /\ Lists(Erase(s, e), S) /\ Range(Erase(s, e)) = Range(s) \ {e}
         /\ SameOrder(s, Erase(s, e))
<1> DEFINE k == Position(s, e)
           t == RemoveAt(s, k)
<1>1. DOMAIN s = 1..Len(s) /\ Len(s) \in Nat BY SeqFacts DEF Lists
<1>2. k \in DOMAIN s /\ s[k] = e /\ Index(s, e) = k
  <2>1. k \in DOMAIN s /\ s[k] = e BY PositionFacts
  <2> QED BY <2>1, IndexFacts
<1>3. Erase(s, e) = t BY <1>2 DEF Erase
<1> HIDE DEF k
<1>4. /\ t \in Seq(S) /\ Len(t) = Len(s) - 1
      /\ \A i \in 1..Len(s) - 1 : t[i] = IF i < k THEN s[i] ELSE s[i + 1]
  BY <1>1, <1>2, RemoveAtFacts DEF Lists
<1> HIDE DEF t
<1>5. DOMAIN t = 1..Len(s) - 1 BY <1>4, SeqFacts
<1>6. Lists(t, S)
  <2> SUFFICES ASSUME NEW i \in DOMAIN t, NEW j \in DOMAIN t, t[i] = t[j] PROVE i = j
    BY <1>4 DEF Lists, IsInjective
  <2>1. PICK m \in DOMAIN s : t[i] = s[m] /\ m = IF i < k THEN i ELSE i + 1
    BY <1>1, <1>4, <1>5
  <2>2. PICK n \in DOMAIN s : t[j] = s[n] /\ n = IF j < k THEN j ELSE j + 1
    BY <1>1, <1>4, <1>5
  <2>3. m = n BY <2>1, <2>2 DEF Lists, IsInjective
  <2> QED BY <1>1, <1>2, <1>5, <2>1, <2>2, <2>3
<1>7. ASSUME NEW a \in Range(s) \ {e}
      PROVE  /\ a \in Range(t)
             /\ Position(t, a) = IF Position(s, a) < k THEN Position(s, a)
                                                      ELSE Position(s, a) - 1
  <2> DEFINE m == Position(s, a)
             i == IF m < k THEN m ELSE m - 1
  <2>1. m \in DOMAIN s /\ s[m] = a BY PositionFacts
  <2>2. m # k BY <1>2, <2>1
  <2> HIDE DEF m
  <2>3. i \in DOMAIN t /\ (IF i < k THEN i ELSE i + 1) = m BY <1>1, <1>2, <1>5, <2>1, <2>2
  <2>4. t[i] = a BY <1>4, <1>5, <2>1, <2>3
  <2>5. Position(t, t[i]) = i BY <1>6, <2>3, PositionFacts
  <2> QED BY <2>3, <2>4, <2>5 DEF m, Range
<1>8. Range(t) = Range(s) \ {e}
  <2>1. ASSUME NEW i \in DOMAIN t PROVE t[i] \in Range(s) \ {e}
    <3>1. PICK m \in DOMAIN s : t[i] = s[m] /\ m = IF i < k THEN i ELSE i + 1
      BY <1>1, <1>4, <1>5
    <3>2. m # k BY <1>1, <1>2, <1>5, <3>1
    <3>3. s[m] # s[k] BY <1>2, <3>2 DEF Lists, IsInjective
    <3> QED BY <1>2, <3>1, <3>3 DEF Range
  <2> QED BY <1>7, <2>1 DEF Range
<1>9. SameOrder(s, t)
  <2> SUFFICES ASSUME NEW a \in Within(s) \cap Within(t), NEW b \in Within(s) \cap Within(t)
               PROVE  Before(s, a, b) <=> Before(t, a, b)
    BY DEF SameOrder
  <2>1. ASSUME NEW x \in Within(s) \cap Within(t)
        PROVE  /\ Position(s, x) \in Nat /\ Position(s, x) # k
               /\ Position(t, x) = IF Position(s, x) < k THEN Position(s, x)
                                                        ELSE Position(s, x) - 1
    <3>1. CASE x = End
      <4>1. Position(s, End) = Len(s) + 1 /\ Position(t, End) = Len(s)
        BY <1>1, <1>4, <1>6, PositionFacts
      <4>2. Position(s, x) = Len(s) + 1 /\ Position(t, x) = Len(s) BY <3>1, <4>1
      <4>3. k \in Nat /\ k <= Len(s) BY <1>1, <1>2
      <4> DEFINE p == Position(s, x)
                 q == Position(t, x)
      <4>4. p = Len(s) + 1 /\ q = Len(s) BY <4>2
      <4> HIDE DEF p, q
      <4>5. p \in Nat /\ p # k /\ ~(p < k) BY <1>1, <4>3, <4>4
      <4>6. q = p - 1 BY <1>1, <4>4
      <4> QED BY <4>5, <4>6 DEF p, q
    <3>2. CASE x # End
      <4>1. x \in Range(s) \ {e} BY <1>8, <3>2 DEF Within
      <4>2. Position(s, x) \in DOMAIN s /\ s[Position(s, x)] = x BY <4>1, PositionFacts
      <4> QED BY <1>1, <1>2, <1>7, <4>1, <4>2
    <3> QED BY <3>1, <3>2
  <2>2. k \in Nat BY <1>1, <1>2
  <2> QED BY <2>1, <2>2 DEF Before
<1> QED BY <1>3, <1>6, <1>8, <1>9

\* What an insertion at place k comes to.
Inserted(s, t, S, k, e) ==
  /\ Lists(t, S) /\ Range(t) = Range(s) \cup {e} /\ SameOrder(s, t)
  /\ \A a \in Within(s) : Before(t, e, a) <=> k <= Position(s, a)

\* insert() keeps the order of the others.
LEMMA InsertFacts ==
  ASSUME NEW S, NEW s, Lists(s, S), NEW e \in S, e \notin Range(s), NEW k \in 1..Len(s) + 1,
         NEW t \in Seq(S), Widened(s, t, k, e)
  PROVE  Inserted(s, t, S, k, e)
<1>1. DOMAIN s = 1..Len(s) /\ Len(s) \in Nat /\ e # End BY SeqFacts DEF Lists
<1>2. DOMAIN t = 1..Len(s) + 1 BY SeqFacts DEF Widened
<1>3. k \in Nat /\ k \in DOMAIN t /\ t[k] = e BY <1>1, <1>2 DEF Widened
<1>4. ASSUME NEW i \in DOMAIN t, i # k
      PROVE  \E m \in DOMAIN s : t[i] = s[m] /\ m = IF i < k THEN i ELSE i - 1
  BY <1>1, <1>2, <1>3, <1>4 DEF Widened
<1>5. ASSUME NEW i \in DOMAIN t, i # k PROVE t[i] \in Range(s)
  BY <1>4, <1>5 DEF Range
<1>6. Lists(t, S)
  <2> SUFFICES ASSUME NEW i \in DOMAIN t, NEW j \in DOMAIN t, t[i] = t[j] PROVE i = j
    BY DEF Lists, IsInjective
  <2>1. i = k <=> j = k BY <1>3, <1>5
  <2>2. CASE i # k
    <3>1. PICK m \in DOMAIN s : t[i] = s[m] /\ m = IF i < k THEN i ELSE i - 1
      BY <1>4, <2>2
    <3>2. PICK n \in DOMAIN s : t[j] = s[n] /\ n = IF j < k THEN j ELSE j - 1
      BY <1>4, <2>1, <2>2
    <3>3. m = n BY <3>1, <3>2 DEF Lists, IsInjective
    <3> QED BY <1>1, <1>2, <1>3, <2>1, <2>2, <3>1, <3>2, <3>3
  <2> QED BY <2>1, <2>2
<1>7. ASSUME NEW a \in Range(s)
      PROVE  /\ a \in Range(t) /\ Position(s, a) \in DOMAIN s
             /\ Position(t, a) = IF Position(s, a) < k THEN Position(s, a)
                                                      ELSE Position(s, a) + 1
  <2> DEFINE m == Position(s, a)
             i == IF m < k THEN m ELSE m + 1
  <2>1. m \in DOMAIN s /\ s[m] = a BY PositionFacts
  <2> HIDE DEF m
  <2>2. i \in DOMAIN t /\ i # k /\ (IF i < k THEN i ELSE i - 1) = m BY <1>1, <1>2, <1>3, <2>1
  <2>3. t[i] = a BY <1>4, <2>1, <2>2
  <2>4. Position(t, t[i]) = i BY <1>6, <2>2, PositionFacts
  <2> QED BY <2>1, <2>2, <2>3, <2>4 DEF m, Range
<1>8. Range(t) = Range(s) \cup {e} BY <1>3, <1>5, <1>7 DEF Range
<1>9. Position(t, e) = k BY <1>3, <1>6, PositionFacts
<1>10. ASSUME NEW x \in Within(s)
       PROVE  /\ Position(s, x) \in Nat
              /\ Position(t, x) = IF Position(s, x) < k THEN Position(s, x)
                                                       ELSE Position(s, x) + 1
  <2>1. CASE x = End
    <3>1. Position(s, x) = Len(s) + 1 /\ Position(t, x) = Len(s) + 1 + 1
      BY <1>1, <1>6, <2>1, PositionFacts DEF Widened
    <3>2. k <= Len(s) + 1 BY <1>1
    <3> QED BY <1>1, <1>3, <3>1, <3>2
  <2>2. CASE x # End
    <3>1. x \in Range(s) BY <2>2 DEF Within
    <3> QED BY <1>1, <1>7, <3>1
  <2> QED BY <2>1, <2>2
<1>11. SameOrder(s, t) BY <1>3, <1>10 DEF SameOrder, Before
<1>12. \A a \in Within(s) : Before(t, e, a) <=> k <= Position(s, a)
  BY <1>3, <1>9, <1>10 DEF Before
<1> QED BY <1>6, <1>8, <1>11, <1>12 DEF Inserted

\* push_back() inserts at end().
LEMMA AppendFacts ==
  ASSUME NEW S, NEW s, Lists(s, S), NEW e \in S, e \notin Range(s)
  PROVE  Inserted(s, Append(s, e), S, Len(s) + 1, e)
<1>1. s \in Seq(S) /\ Len(s) \in Nat BY SeqFacts DEF Lists
<1> DEFINE t == Append(s, e)
           k == Len(s) + 1
<1>2. /\ t \in Seq(S) /\ Len(t) = Len(s) + 1 /\ t[Len(s) + 1] = e
      /\ \A i \in 1..Len(s) : t[i] = s[i]
  BY <1>1, AppendProperties
<1> HIDE DEF t
<1>3. Widened(s, t, k, e) BY <1>1, <1>2 DEF Widened
<1>4. k \in 1..Len(s) + 1 BY <1>1
<1> HIDE DEF k
<1>5. Inserted(s, t, S, k, e) BY <1>2, <1>3, <1>4, InsertFacts
<1> QED BY <1>5 DEF t, k

\* Some number in a set is the least.
LEMMA MinFacts ==
  ASSUME NEW I, I \subseteq Nat, I # {}
  PROVE  Min(I) \in I /\ \A j \in I : Min(I) <= j
<1>1. \E m \in I : \A k \in I : ~(<<k, m>> \in OpToRel(<, Nat))
  BY WFMin, NatLessThanWellFounded
<1>2. \A k, m \in Nat : ~(<<k, m>> \in OpToRel(<, Nat)) => m <= k BY DEF OpToRel
<1>3. \E m \in I : \A k \in I : m <= k BY <1>1, <1>2
<1> QED BY <1>3 DEF Min

\* equal_range(): the receivers of lower channels come before, the others not.
LEMMA LowerBoundFacts ==
  ASSUME NEW s, Lists(s, Receiver), Sorted(s), NEW ch \in Nat
  PROVE  /\ lower_bound(s, ch) \in Within(s)
         /\ \A r \in Range(s) : Before(s, r, lower_bound(s, ch)) <=> Channel[r] < ch
<1> DEFINE I == {j \in 1..Len(s) : Channel[s[j]] >= ch}
           b == lower_bound(s, ch)
           i == IF I # {} THEN Min(I) ELSE 0
<1>1. DOMAIN s = 1..Len(s) /\ Len(s) \in Nat BY SeqFacts DEF Lists
<1>2. b = IF i = 0 THEN End ELSE s[i] BY DEF lower_bound, SelectInSeq
<1>3. \A r \in Range(s) : Channel[r] \in Nat
  <2>1. \A r \in Range(s) : r \in Receiver BY SeqFacts DEF Lists
  <2> QED BY <2>1, ObserversAssumption
<1> HIDE DEF b
<1>4. \A r \in Range(s) : Position(s, r) \in DOMAIN s /\ s[Position(s, r)] = r
  BY PositionFacts
<1>5. CASE I = {}
  <2>1. b = End BY <1>2, <1>5
  <2>2. \A r \in Range(s) : Channel[r] < ch BY <1>1, <1>3, <1>4, <1>5
  <2>3. \A r \in Range(s) : Before(s, r, End) BY OrderFacts
  <2> QED BY <2>1, <2>2, <2>3 DEF b, Within
<1>6. CASE I # {}
  <2>0. I \subseteq Nat BY <1>1
  <2> HIDE DEF I
  <2>1. Min(I) \in I /\ \A j \in I : Min(I) <= j BY <1>6, <2>0, MinFacts
  <2>2. i \in I /\ i = Min(I) BY <1>6, <2>1
  <2> HIDE DEF i
  <2> USE DEF I
  <2>3. i \in DOMAIN s /\ b = s[i] /\ b \in Range(s)
    <3>1. i \in DOMAIN s /\ i # 0 BY <1>1, <2>2
    <3> QED BY <1>2, <3>1 DEF b, Range
  <2>4. Position(s, b) = i BY <2>3, PositionFacts
  <2>5. Channel[b] >= ch BY <2>2, <2>3
  <2>6. ASSUME NEW r \in Range(s) PROVE Before(s, r, b) <=> Channel[r] < ch
    <3>1. Before(s, r, b) => Channel[r] < ch
      <4>1. SUFFICES ASSUME Before(s, r, b), ~(Channel[r] < ch) PROVE FALSE OBVIOUS
      <4>2. Position(s, r) \in I BY <1>1, <1>3, <1>4, <4>1
      <4> QED BY <1>1, <2>1, <2>2, <2>4, <4>1, <4>2 DEF Before
    <3>2. Channel[r] < ch => Before(s, r, b)
      <4>1. SUFFICES ASSUME Channel[r] < ch, ~Before(s, r, b) PROVE FALSE OBVIOUS
      <4>2. r # b BY <1>3, <2>5, <2>3, <4>1
      <4>3. Before(s, b, r) BY <2>3, <4>1, <4>2, OrderFacts
      <4>4. Channel[b] <= Channel[r] BY <2>3, <4>3 DEF Sorted
      <4> QED BY <1>3, <2>3, <2>5, <4>1, <4>4
    <3> QED BY <3>1, <3>2
  <2> QED BY <2>3, <2>6 DEF b, Within
<1> QED BY <1>5, <1>6

\* The order of a container decides what is sorted.
LEMMA SortedErased ==
  ASSUME NEW s, Sorted(s), NEW t, SameOrder(s, t), Range(t) \subseteq Range(s)
  PROVE  Sorted(t)
BY DEF Sorted, SameOrder, Within

\* add_receiver() keeps m_receivers sorted: it puts the new one before those of its
\* channel and the higher ones.
LEMMA InsertReceiverFacts ==
  ASSUME NEW s, Lists(s, Receiver), Sorted(s), NEW r \in Receiver, r \notin Range(s)
  PROVE  LET k == Position(s, lower_bound(s, Channel[r]))
         IN  Inserted(s, Insert(s, r), Receiver, k, r) /\ Sorted(Insert(s, r))
<1> DEFINE b == lower_bound(s, Channel[r])
           k == Position(s, b)
           t == Insert(s, r)
<1>1. Channel[r] \in Nat /\ \A q \in Range(s) : Channel[q] \in Nat
  BY ObserversAssumption, SeqFacts DEF Lists
<1>2. b \in Within(s) /\ \A q \in Range(s) : Before(s, q, b) <=> Channel[q] < Channel[r]
  BY <1>1, LowerBoundFacts
<1> HIDE DEF b
<1>3. k \in 1..Len(s) + 1 BY <1>2, PositionFacts
<1>4. t = InsertAt(s, k, r) BY DEF Insert, b
<1> HIDE DEF k
<1>0. s \in Seq(Receiver) BY DEF Lists
<1>5. InsertAt(s, k, r) \in Seq(Receiver) /\ Widened(s, InsertAt(s, k, r), k, r)
  BY <1>0, <1>3, InsertAtFacts
<1> HIDE DEF t
<1>6. t \in Seq(Receiver) /\ Widened(s, t, k, r) BY <1>4, <1>5
<1>7. Inserted(s, t, Receiver, k, r) BY <1>3, <1>6, InsertFacts
<1>8. Sorted(t)
  <2> SUFFICES ASSUME NEW p \in Range(t), NEW q \in Range(t), Before(t, p, q)
               PROVE  Channel[p] <= Channel[q]
    BY DEF Sorted
  <2>1. /\ Lists(t, Receiver) /\ Range(t) = Range(s) \cup {r} /\ SameOrder(s, t)
        /\ \A a \in Within(s) : Before(t, r, a) <=> k <= Position(s, a)
    BY <1>7 DEF Inserted
  <2>2. \A a \in Within(s) : Position(s, a) \in Nat BY PositionFacts
  <2>3. \A a \in Range(s) : a \in Within(s) /\ a \in Within(t) BY <2>1 DEF Within
  <2>4. ASSUME NEW a \in Range(s) PROVE Before(t, r, a) <=> ~(Channel[a] < Channel[r])
    BY <1>2, <2>1, <2>2, <2>3 DEF Before, k
  <2>5. p # q /\ ~Before(t, q, p)
    <3>1. p \in Within(t) /\ q \in Within(t) BY DEF Within
    <3> QED BY <2>1, <3>1, OrderFacts
  <2>6. CASE p = r BY <1>1, <2>1, <2>4, <2>5, <2>6
  <2>7. CASE q = r BY <1>1, <2>1, <2>4, <2>5, <2>7
  <2>8. CASE p # r /\ q # r
    <3>1. p \in Range(s) /\ q \in Range(s) BY <2>1, <2>8
    <3>2. Before(s, p, q) BY <2>1, <2>3, <3>1 DEF SameOrder
    <3> QED BY <3>1, <3>2 DEF Sorted
  <2> QED BY <2>6, <2>7, <2>8
<1> QED BY <1>7, <1>8 DEF b, k, t

----------------------------------------------------------------------------
(* The calls in progress and what they have called.                        *)

\* A delivery among the receivers s: those from at up to stop are still due, those
\* due that are before at have been called, and so has the one at at in a callback.
Delivers(s, f) ==
  /\ f.pc \in {"loop", "in", "caught"} /\ f.called \in Seq(Receiver)
  /\ f.due \subseteq Range(s) /\ f.at \in Within(s) /\ f.stop \in Within(s)
  /\ ~Before(s, f.stop, f.at)
  /\ f.pc # "loop" => Before(s, f.at, f.stop)
  /\ \A r \in Range(s) : ~Before(s, r, f.at) /\ Before(s, r, f.stop) => r \in f.due
  /\ \A r \in f.due : Channel[r] = f.msg /\ Before(s, r, f.stop)
  /\ \A r \in f.due :
       r \in Range(f.called) <=> Before(s, r, f.at) \/ (f.pc # "loop" /\ r = f.at)
  /\ IsInjective(f.called)
  /\ \A r \in Range(f.called) : Channel[r] = f.msg

\* Those due have been called from the last one to the first.
Backwards(s, f) ==
  \A i, j \in DOMAIN f.called :
    i < j /\ f.called[i] \in f.due /\ f.called[j] \in f.due =>
      Before(s, f.called[j], f.called[i])

\* A message among the handlers s: the bound is the first, all before at are still
\* due, and those due from at on have been called.
Reports(s, f) ==
  /\ f.pc \in {"loop", "in"} /\ f.called \in Seq(Handler)
  /\ f.due \subseteq Range(s) /\ f.at \in Within(s) /\ f.stop \in Within(s)
  /\ \A h \in Range(s) : ~Before(s, h, f.stop)
  /\ f.pc = "in" => Before(s, f.stop, f.at)
  /\ \A h \in Range(s) : Before(s, h, f.at) => h \in f.due
  /\ \A h \in f.due :
       h \in Range(f.called) <=> ~Before(s, h, f.at) \/ (f.pc = "in" /\ h = Pred(s, f.at))
  /\ IsInjective(f.called) /\ Backwards(s, f)

\* g is f, with only those still due that are in t.
Trimmed(f, g, t) ==
  /\ g.pc = f.pc /\ g.msg = f.msg /\ g.at = f.at /\ g.stop = f.stop
  /\ g.called = f.called /\ g.due = f.due \cap Range(t)

\* A delivery goes on as before when receivers come and go outside what is left of
\* it.
LEMMA DeliversKept ==
  ASSUME NEW s, NEW t, Lists(s, Receiver), Lists(t, Receiver), SameOrder(s, t),
         NEW f, NEW g, Delivers(s, f), Trimmed(f, g, t),
         f.at \in Within(t), f.stop \in Within(t),
         \A r \in Range(t) \ Range(s) : Before(t, r, f.at) \/ ~Before(t, r, f.stop)
  PROVE  Delivers(t, g)
<1>1. \A a \in Range(s) : a \in Within(s) BY DEF Within
<1>2. \A a \in Range(t) : a \in Within(t) BY DEF Within
<1>3. \A a, b : a \in Within(s) /\ a \in Within(t) /\ b \in Within(s) /\ b \in Within(t)
               => (Before(s, a, b) <=> Before(t, a, b))
  BY DEF SameOrder
<1>4. /\ g.pc \in {"loop", "in", "caught"} /\ g.called \in Seq(Receiver)
      /\ g.due \subseteq Range(t) /\ g.at \in Within(t) /\ g.stop \in Within(t)
  BY DEF Delivers, Trimmed
<1>5. ~Before(t, g.stop, g.at) /\ (g.pc # "loop" => Before(t, g.at, g.stop))
  BY <1>3, <1>4 DEF Delivers, Trimmed
<1>6. ASSUME NEW r \in Range(t), ~Before(t, r, g.at), Before(t, r, g.stop) PROVE r \in g.due
  <2>1. r \in Range(s) BY <1>6 DEF Trimmed
  <2>2. ~Before(s, r, f.at) /\ Before(s, r, f.stop)
    BY <1>1, <1>2, <1>3, <1>6, <2>1 DEF Delivers, Trimmed
  <2> QED BY <2>1, <2>2 DEF Delivers, Trimmed
<1>7. ASSUME NEW r \in g.due
      PROVE  /\ Channel[r] = g.msg /\ Before(t, r, g.stop)
             /\ r \in Range(g.called) <=> Before(t, r, g.at) \/ (g.pc # "loop" /\ r = g.at)
  <2>1. r \in f.due /\ r \in Range(t) /\ r \in Range(s) BY DEF Delivers, Trimmed
  <2>2. /\ Before(s, r, f.at) <=> Before(t, r, f.at)
        /\ Before(s, r, f.stop) <=> Before(t, r, f.stop)
    BY <1>1, <1>2, <1>3, <2>1 DEF Delivers
  <2>3. /\ Channel[r] = f.msg /\ Before(s, r, f.stop)
        /\ r \in Range(f.called) <=> Before(s, r, f.at) \/ (f.pc # "loop" /\ r = f.at)
    BY <2>1 DEF Delivers
  <2> QED BY <2>2, <2>3 DEF Trimmed
<1>8. IsInjective(g.called) /\ \A r \in Range(g.called) : Channel[r] = g.msg
  BY DEF Delivers, Trimmed
<1> QED BY <1>4, <1>5, <1>6, <1>7, <1>8 DEF Delivers

\* The element before another stays the one before it.
LEMMA PredKept ==
  ASSUME NEW S, NEW s, NEW t, Lists(s, S), Lists(t, S), SameOrder(s, t),
         NEW a \in Within(s), a \in Within(t), Position(s, a) # 1, Pred(s, a) \in Range(t),
         \A h \in Range(t) \ Range(s) : ~Before(t, h, a)
  PROVE  Pred(t, a) = Pred(s, a)
<1> DEFINE p == Pred(s, a)
           q == Pred(t, a)
<1>1. p \in Range(s) /\ Position(s, p) + 1 = Position(s, a) BY PredFacts
<1>2. /\ \A e \in Within(s) : Position(s, e) \in Nat
      /\ \A e \in Within(t) : Position(t, e) \in Nat /\ Position(t, e) >= 1
  <2>1. Len(s) \in Nat /\ Len(t) \in Nat BY SeqFacts DEF Lists
  <2> QED BY <2>1, PositionFacts
<1> HIDE DEF p
<1>3. p \in Range(t) /\ p \in Within(s) /\ p \in Within(t) BY <1>1 DEF Within, p
<1>4. Before(s, p, a) BY <1>1, <1>2, <1>3 DEF Before
<1>5. Before(t, p, a) BY <1>3, <1>4 DEF SameOrder
<1>6. Position(t, a) # 1 BY <1>2, <1>3, <1>5 DEF Before
<1>7. q \in Range(t) /\ Position(t, q) + 1 = Position(t, a) BY <1>6, PredFacts
<1> HIDE DEF q
<1>8. q \in Within(t) BY <1>7 DEF Within
<1>9. Before(t, q, a) BY <1>2, <1>7, <1>8 DEF Before
<1>10. q \in Range(s) /\ q \in Within(s) BY <1>7, <1>9 DEF Within
<1>11. Before(s, q, a) BY <1>8, <1>9, <1>10 DEF SameOrder
<1>12. ~Before(s, p, q) BY <1>1, <1>2, <1>3, <1>10, <1>11 DEF Before
<1>13. ~Before(t, q, p) BY <1>2, <1>3, <1>5, <1>7, <1>8 DEF Before
<1>14. ~Before(s, q, p) BY <1>3, <1>8, <1>10, <1>13 DEF SameOrder
<1>15. p = q BY <1>3, <1>10, <1>12, <1>14, OrderFacts
<1> QED BY <1>15 DEF p, q

\* So does a message when handlers come behind what is left of it, and go.
LEMMA ReportsKept ==
  ASSUME NEW s, NEW t, Lists(s, Handler), Lists(t, Handler), SameOrder(s, t),
         NEW f, NEW g, Reports(s, f), Trimmed(f, g, t),
         f.at \in Within(t), f.stop \in Within(t), f.pc = "in" => Pred(s, f.at) \in Range(t),
         \A h \in Range(t) \ Range(s) : ~Before(t, h, f.at) /\ ~Before(t, h, f.stop)
  PROVE  Reports(t, g)
<1>1. \A a \in Range(s) : a \in Within(s) BY DEF Within
<1>2. \A a \in Range(t) : a \in Within(t) BY DEF Within
<1>3. \A a, b : a \in Within(s) /\ a \in Within(t) /\ b \in Within(s) /\ b \in Within(t)
               => (Before(s, a, b) <=> Before(t, a, b))
  BY DEF SameOrder
<1>4. /\ g.pc \in {"loop", "in"} /\ g.called \in Seq(Handler) /\ IsInjective(g.called)
      /\ g.due \subseteq Range(t) /\ g.at \in Within(t) /\ g.stop \in Within(t)
  BY DEF Reports, Trimmed
<1>5. ASSUME NEW h \in Range(t) PROVE ~Before(t, h, g.stop)
  <2>1. CASE h \notin Range(s) BY <2>1 DEF Trimmed
  <2>2. CASE h \in Range(s)
    <3>1. ~Before(s, h, f.stop) BY <2>2 DEF Reports
    <3>2. h \in Within(s) /\ h \in Within(t) /\ f.stop \in Within(s)
      BY <1>1, <1>2, <2>2 DEF Reports
    <3> QED BY <1>3, <3>1, <3>2 DEF Trimmed
  <2> QED BY <2>1, <2>2
<1>6. g.pc = "in" => Before(t, g.stop, g.at) BY <1>3, <1>4 DEF Reports, Trimmed
<1>7. ASSUME NEW h \in Range(t), Before(t, h, g.at) PROVE h \in g.due
  <2>1. h \in Range(s) BY <1>7 DEF Trimmed
  <2>2. Before(s, h, f.at) BY <1>1, <1>2, <1>3, <1>7, <2>1 DEF Reports, Trimmed
  <2> QED BY <2>1, <2>2 DEF Reports, Trimmed
<1>8. g.pc = "in" => Pred(t, g.at) = Pred(s, f.at)
  <2> SUFFICES ASSUME f.pc = "in" PROVE Pred(t, f.at) = Pred(s, f.at) BY DEF Trimmed
  <2>1. f.at \in Within(s) /\ f.stop \in Within(s) /\ Before(s, f.stop, f.at) BY DEF Reports
  <2>2. Position(s, f.at) # 1
    <3>1. Len(s) \in Nat BY SeqFacts DEF Lists
    <3>2. Position(s, f.stop) \in 1..Len(s) + 1 /\ Position(s, f.at) \in 1..Len(s) + 1
      BY <2>1, PositionFacts
    <3> QED BY <2>1, <3>1, <3>2 DEF Before
  <2> QED BY <2>1, <2>2, PredKept
<1>9. ASSUME NEW h \in g.due
      PROVE  h \in Range(g.called)
               <=> ~Before(t, h, g.at) \/ (g.pc = "in" /\ h = Pred(t, g.at))
  <2>1. h \in f.due /\ h \in Range(t) /\ h \in Range(s) BY DEF Reports, Trimmed
  <2>2. Before(s, h, f.at) <=> Before(t, h, f.at)
    BY <1>1, <1>2, <1>3, <2>1 DEF Reports
  <2>3. h \in Range(f.called)
          <=> ~Before(s, h, f.at) \/ (f.pc = "in" /\ h = Pred(s, f.at))
    BY <2>1 DEF Reports
  <2> QED BY <1>8, <2>2, <2>3 DEF Trimmed
<1>10. Backwards(t, g)
  <2> SUFFICES ASSUME NEW i \in DOMAIN f.called, NEW j \in DOMAIN f.called, i < j,
                      f.called[i] \in g.due, f.called[j] \in g.due
               PROVE  Before(t, f.called[j], f.called[i])
    BY DEF Backwards, Trimmed
  <2> DEFINE a == f.called[i]
             b == f.called[j]
  <2>1. a \in f.due /\ b \in f.due /\ a \in Range(t) /\ b \in Range(t) BY DEF Trimmed
  <2>2. a \in Range(s) /\ b \in Range(s) BY <2>1 DEF Reports
  <2>3. Before(s, b, a) BY <2>1 DEF Reports, Backwards
  <2> QED BY <1>1, <1>2, <1>3, <2>1, <2>2, <2>3
<1> QED BY <1>4, <1>5, <1>6, <1>7, <1>9, <1>10 DEF Reports

\* A receiver is running.
Running(f) == f.kind = "notifs" /\ f.pc = "in"

\* What is true of a call in progress, given the containers.
Serves(x, f) ==
  /\ f \in FrameType
  /\ f.kind = "close" => f.pc \in {"trans", "receivers", "handlers"}
  /\ f.kind = "commit" => f.pc = "caught"
  /\ f.kind = "notice" => f.msg = 0 /\ Reports(x.handlers, f)
  /\ f.kind = "notifs" /\ f.msg = 0 => f.pc \in {"loop", "wait"} /\ f.due = {} /\ f.called = <<>>
  /\ f.kind = "notifs" /\ f.msg # 0 => Delivers(x.recs, f)

\* What is true of the i-th call in progress when trans is k: close() is called at
\* the outside only, there is no transaction between receivers, and the one that
\* was opened before any other call is still open.
Sits(k, i, f) ==
  /\ f.kind = "close" => i = 1
  /\ Running(f) => k = 0 \/ k > i
  /\ f.kind = "notifs" /\ f.pc \in {"loop", "caught"} => k = 0
  /\ f.kind # "notifs" \/ f.pc = "wait" => k <= i

\* Only the innermost call is not in a callback, and deliveries happen in receivers.
Stacked(q) ==
  /\ \A i \in DOMAIN q : i < Len(q) => q[i].kind = "close" \/ q[i].pc \in {"in", "caught"}
  /\ \A i, j \in DOMAIN q : q[i].kind = "notifs" /\ j < i => Running(q[j])

\* The containers of the connection.
Contents(x) ==
  /\ Lists(x.recs, Receiver) /\ Sorted(x.recs)
  /\ Lists(x.handlers, Handler) /\ Range(x.handlers) = x.homed
  /\ x.inbox \in Seq(Range(Channel)) /\ x.obj \in {"none", "live", "gone"}
  /\ x.trans \in Nat /\ x.over \in BOOLEAN /\ (x.obj = "gone" => x.homed = {})

\* The invariant of a state x: its containers and its calls in progress.
Good(x) ==
  /\ IsConn(x) /\ Contents(x) /\ x.trans <= Depth(x) + 1
  /\ x.obj # "live" => x.stack = <<>>
  /\ x.stack \in Seq(FrameType) /\ Stacked(x.stack)
  /\ \A i \in DOMAIN x.stack : Serves(x, x.stack[i]) /\ Sits(x.trans, i, x.stack[i])

\* y is x as far as callbacks are concerned, but for what is lost with a handle.
Same(x, y) ==
  /\ IsConn(y) /\ y.obj = x.obj /\ y.trans = x.trans /\ y.over = x.over /\ y.recs = x.recs
  /\ y.handlers = x.handlers /\ y.homed = x.homed /\ y.stack = x.stack
  /\ y.inbox = x.inbox \/ y.inbox = <<>>

\* A state is as good as another that is the same.
LEMMA SameGood ==
  ASSUME NEW x, NEW y, Good(x), Same(x, y)
  PROVE  Good(y)
<1>1. Contents(y)
  <2>1. y.inbox \in Seq(Range(Channel)) BY EmptySeq DEF Good, Contents, Same
  <2> QED BY <2>1 DEF Good, Contents, Same
<1>2. \A f : Serves(x, f) => Serves(y, f) BY DEF Serves, Same
<1>3. y.trans <= Depth(y) + 1 BY DEF Good, Same, Depth
<1> QED BY <1>1, <1>2, <1>3 DEF Good, Same

\* The stack as a sequence of calls.
LEMMA StackFacts ==
  ASSUME NEW x, Good(x)
  PROVE  /\ Depth(x) \in Nat /\ DOMAIN x.stack = 1..Depth(x) /\ Depth(x) = Len(x.stack)
         /\ \A i \in 1..Depth(x) : /\ x.stack[i] \in FrameType /\ Serves(x, x.stack[i])
                                   /\ Sits(x.trans, i, x.stack[i])
         /\ Depth(x) # 0 => /\ Top(x) \in FrameType /\ Serves(x, Top(x))
                            /\ Sits(x.trans, Depth(x), Top(x)) /\ x.obj = "live"
         /\ x.trans \in Nat
<1>1. /\ Len(x.stack) \in Nat /\ DOMAIN x.stack = 1..Len(x.stack)
      /\ \A i \in 1..Len(x.stack) : x.stack[i] \in FrameType
  BY SeqFacts DEF Good
<1>2. \A i \in 1..Depth(x) : Serves(x, x.stack[i]) /\ Sits(x.trans, i, x.stack[i])
  BY <1>1 DEF Good, Depth
<1>3. Depth(x) # 0 => Depth(x) \in 1..Depth(x) BY <1>1 DEF Depth
<1>4. x.stack = <<>> => Len(x.stack) = 0 BY EmptySeq
<1> QED BY <1>1, <1>2, <1>3, <1>4 DEF Depth, Top, Good, Contents

\* The same calls, served as well with other containers.
LEMMA Recast ==
  ASSUME NEW x, Good(x), NEW y, IsConn(y), Contents(y), y.obj = x.obj, y.trans = x.trans,
         y.stack \in Seq(FrameType), Len(y.stack) = Len(x.stack),
         \A i \in DOMAIN x.stack : /\ Serves(y, y.stack[i]) /\ y.stack[i].kind = x.stack[i].kind
                                   /\ y.stack[i].pc = x.stack[i].pc
  PROVE  Good(y)
<1>1. Depth(y) = Depth(x) /\ DOMAIN y.stack = DOMAIN x.stack BY SeqFacts DEF Depth, Good
<1>2. \A i \in DOMAIN x.stack : Running(y.stack[i]) <=> Running(x.stack[i]) BY DEF Running
<1>3. Stacked(y.stack) BY <1>1, <1>2 DEF Good, Stacked
<1>4. \A i \in DOMAIN x.stack : Sits(y.trans, i, y.stack[i])
  BY <1>2 DEF Good, Sits
<1>5. y.obj # "live" => y.stack = <<>>
  <2> SUFFICES ASSUME y.obj # "live" PROVE y.stack = <<>> OBVIOUS
  <2>1. Len(x.stack) = 0 BY EmptySeq DEF Good
  <2> QED BY <2>1, EmptySeq
<1> QED BY <1>1, <1>3, <1>4, <1>5 DEF Good

\* A call begins where the innermost one is in a callback, or in close().
LEMMA PushGood ==
  ASSUME NEW x, Good(x), x.obj = "live", NEW f, Serves(x, f), Sits(x.trans, Depth(x) + 1, f),
         Depth(x) = 0 \/ Top(x).kind = "close" \/ Top(x).pc \in {"in", "caught"},
         f.kind = "notifs" => Depth(x) = 0 \/ Running(Top(x))
  PROVE  Good(Push(x, f))
<1> DEFINE q == Append(x.stack, f)
           y == Push(x, f)
           n == Depth(x)
<1>1. f \in FrameType /\ x.stack \in Seq(FrameType) BY DEF Serves, Good
<1>2. /\ q \in Seq(FrameType) /\ Len(q) = Len(x.stack) + 1 /\ q[Len(x.stack) + 1] = f
      /\ \A i \in 1..Len(x.stack) : q[i] = x.stack[i]
  BY <1>1, AppendProperties
<1>3. y = [x EXCEPT !.stack = q] BY DEF Push
<1> HIDE DEF q, y
<1>4. /\ IsConn(y) /\ y.stack = q /\ y.recs = x.recs /\ y.handlers = x.handlers
      /\ y.homed = x.homed /\ y.inbox = x.inbox /\ y.obj = x.obj /\ y.trans = x.trans
      /\ y.over = x.over
  BY <1>3 DEF Good, IsConn
<1>5. n \in Nat /\ DOMAIN x.stack = 1..n /\ n = Len(x.stack) /\ x.trans \in Nat
  BY StackFacts
<1>6. DOMAIN q = 1..n + 1 /\ q[n + 1] = f /\ (\A i \in 1..n : q[i] = x.stack[i]) /\ Len(q) = n + 1
  BY <1>2, <1>5, SeqFacts
<1>7. n # 0 => Top(x) = x.stack[n] BY DEF Top
<1> HIDE DEF n
<1>8. Stacked(q)
  <2>1. ASSUME NEW i \in DOMAIN q, i < Len(q)
        PROVE  q[i].kind = "close" \/ q[i].pc \in {"in", "caught"}
    <3>1. i \in 1..n /\ q[i] = x.stack[i] BY <1>5, <1>6, <2>1
    <3>2. CASE i < n BY <1>5, <3>1, <3>2 DEF Good, Stacked
    <3>3. CASE i = n BY <1>5, <1>7, <3>1, <3>3 DEF n
    <3> QED BY <1>5, <3>1, <3>2, <3>3
  <2>2. ASSUME NEW i \in DOMAIN q, NEW j \in DOMAIN q, q[i].kind = "notifs", j < i
        PROVE  Running(q[j])
    <3>1. j \in 1..n /\ q[j] = x.stack[j] BY <1>5, <1>6, <2>2
    <3>2. CASE i \in 1..n BY <1>5, <1>6, <2>2, <3>1, <3>2 DEF Good, Stacked
    <3>3. CASE i = n + 1
      <4>1. f.kind = "notifs" /\ n # 0 BY <1>5, <1>6, <2>2, <3>1, <3>3
      <4>2. Running(x.stack[n]) BY <1>7, <4>1 DEF n
      <4>3. CASE j = n BY <3>1, <4>2, <4>3
      <4>4. CASE j < n
        <5>1. n \in DOMAIN x.stack /\ x.stack[n].kind = "notifs"
          BY <1>5, <4>1, <4>2 DEF Running
        <5> QED BY <1>5, <3>1, <4>4, <5>1 DEF Good, Stacked
      <4> QED BY <1>5, <3>1, <4>3, <4>4
    <3> QED BY <1>5, <1>6, <3>2, <3>3
  <2> QED BY <2>1, <2>2 DEF Stacked
<1>9. \A g : Serves(x, g) => Serves(y, g) BY <1>4 DEF Serves
<1>10. ASSUME NEW i \in DOMAIN q PROVE Serves(y, q[i]) /\ Sits(y.trans, i, q[i])
  <2>1. CASE i \in 1..n
    <3>1. Serves(x, x.stack[i]) /\ Sits(x.trans, i, x.stack[i]) BY <1>5, <2>1 DEF Good
    <3> QED BY <1>4, <1>6, <1>9, <2>1, <3>1
  <2>2. CASE i = n + 1 BY <1>4, <1>6, <1>9, <2>2 DEF n
  <2> QED BY <1>5, <1>6, <2>1, <2>2
<1>11. Contents(y) BY <1>4 DEF Good, Contents
<1>12. y.trans <= Depth(y) + 1
  <2>1. Depth(y) = n + 1 BY <1>4, <1>6 DEF Depth
  <2>2. x.trans <= n + 1 BY DEF Good, n
  <2> QED BY <1>4, <1>5, <2>1, <2>2
<1> QED BY <1>2, <1>4, <1>8, <1>10, <1>11, <1>12 DEF Good, y

\* It is the innermost one then.
LEMMA PushTop ==
  ASSUME NEW x, Good(x), NEW f, Serves(x, f)
  PROVE  Push(x, f).obj = x.obj /\ Top(Push(x, f)) = f
<1> DEFINE q == Append(x.stack, f)
           y == Push(x, f)
<1>1. f \in FrameType /\ x.stack \in Seq(FrameType) BY DEF Serves, Good
<1>2. Len(q) = Len(x.stack) + 1 /\ q[Len(x.stack) + 1] = f BY <1>1, AppendProperties
<1>3. y = [x EXCEPT !.stack = q] BY DEF Push
<1> HIDE DEF q, y
<1>4. y.stack = q /\ y.obj = x.obj BY <1>3 DEF Good, IsConn
<1> QED BY <1>2, <1>4 DEF Top, Depth, y

\* The stack without its innermost call.
LEMMA FrontFacts ==
  ASSUME NEW S, NEW q \in Seq(S), Len(q) # 0
  PROVE  /\ Front(q) \in Seq(S) /\ Len(Front(q)) = Len(q) - 1
         /\ DOMAIN Front(q) = 1..Len(q) - 1
         /\ \A i \in 1..Len(q) - 1 : Front(q)[i] = q[i]
<1>1. Len(q) \in Nat /\ \A i \in 1..Len(q) : q[i] \in S BY SeqFacts
<1> DEFINE a == SubSeq(q, 1, Len(q) - 1)
           n == Len(q) - 1
<1>2. n \in Int /\ 1 \in Int /\ n \in Nat /\ \A i \in 1..n : q[i] \in S BY <1>1
<1>3. Front(q) = SubSeq(q, 1, n) BY DEF Front
<1> HIDE DEF n
<1>4. /\ SubSeq(q, 1, n) \in Seq(S) /\ Len(SubSeq(q, 1, n)) = IF 1 <= n THEN n - 1 + 1 ELSE 0
      /\ \A i \in 1..n - 1 + 1 : SubSeq(q, 1, n)[i] = q[1 + i - 1]
  BY <1>2, SubSeqProperties
<1> DEFINE b == Front(q)
<1>5. /\ b \in Seq(S) /\ Len(b) = IF 1 <= n THEN n - 1 + 1 ELSE 0
      /\ \A i \in 1..n - 1 + 1 : b[i] = q[1 + i - 1]
  BY <1>3, <1>4
<1> HIDE DEF b
<1>6. Len(b) = n /\ \A i \in 1..n : b[i] = q[i] BY <1>2, <1>5
<1>7. DOMAIN b = 1..n BY <1>5, <1>6, SeqFacts
<1> QED BY <1>5, <1>6, <1>7 DEF b, n

\* A call ends when no transaction of its own is open.
LEMMA PopGood ==
  ASSUME NEW x, Good(x), Depth(x) # 0, x.trans <= Depth(x)
  PROVE  Good(Pop(x)) /\ Depth(Pop(x)) = Depth(x) - 1
<1> DEFINE q == Front(x.stack)
           y == Pop(x)
           n == Depth(x) - 1
<1>1. /\ Depth(x) \in Nat /\ DOMAIN x.stack = 1..Depth(x) /\ Depth(x) = Len(x.stack)
      /\ x.obj = "live"
  BY StackFacts
<1>2. /\ q \in Seq(FrameType) /\ Len(q) = n /\ DOMAIN q = 1..n
      /\ \A i \in 1..n : q[i] = x.stack[i]
  BY <1>1, FrontFacts DEF Good
<1>3. y = [x EXCEPT !.stack = q] BY DEF Pop
<1> HIDE DEF q, y
<1>4. /\ IsConn(y) /\ y.stack = q /\ y.recs = x.recs /\ y.handlers = x.handlers
      /\ y.homed = x.homed /\ y.inbox = x.inbox /\ y.obj = x.obj /\ y.trans = x.trans
      /\ y.over = x.over
  BY <1>3 DEF Good, IsConn
<1>5. n \in Nat /\ n < Depth(x) /\ \A i \in 1..n : i \in DOMAIN x.stack /\ i < Len(x.stack)
  BY <1>1
<1>6. Depth(y) = n BY <1>2, <1>4 DEF Depth
<1> HIDE DEF n
<1>7. Stacked(q)
  <2>1. \A i \in DOMAIN q : q[i].kind = "close" \/ q[i].pc \in {"in", "caught"}
    BY <1>2, <1>5 DEF Good, Stacked
  <2>2. \A i, j \in DOMAIN q : q[i].kind = "notifs" /\ j < i => Running(q[j])
    BY <1>2, <1>5 DEF Good, Stacked
  <2> QED BY <2>1, <2>2 DEF Stacked
<1>8. \A g : Serves(x, g) => Serves(y, g) BY <1>4 DEF Serves
<1>9. \A i \in DOMAIN q : Serves(y, q[i]) /\ Sits(y.trans, i, q[i])
  BY <1>2, <1>4, <1>5, <1>8 DEF Good
<1>10. Contents(y) BY <1>4 DEF Good, Contents
<1>11. y.trans <= Depth(y) + 1 BY <1>1, <1>4, <1>6 DEF n, Good, Contents
<1> QED BY <1>1, <1>2, <1>4, <1>6, <1>7, <1>9, <1>10, <1>11 DEF Good, y, n

\* The innermost call goes on.
LEMMA SetTopGood ==
  ASSUME NEW x, Good(x), Depth(x) # 0, NEW f, Serves(x, f), f.kind = Top(x).kind,
         Sits(x.trans, Depth(x), f)
  PROVE  Good(SetTop(x, f)) /\ Depth(SetTop(x, f)) = Depth(x) /\ Top(SetTop(x, f)) = f
<1> DEFINE n == Depth(x)
           q == [x.stack EXCEPT ![n] = f]
           y == SetTop(x, f)
<1>1. n \in Nat /\ DOMAIN x.stack = 1..n /\ n = Len(x.stack) /\ x.obj = "live"
  BY StackFacts
<1>2. f \in FrameType /\ x.stack \in Seq(FrameType) /\ n \in 1..Len(x.stack)
  BY <1>1 DEF Serves, Good
<1>3. /\ q \in Seq(FrameType) /\ Len(q) = Len(x.stack)
      /\ \A i \in 1..Len(x.stack) : q[i] = IF i = n THEN f ELSE x.stack[i]
  BY <1>2, ExceptSeq
<1>4. y = [x EXCEPT !.stack = q] BY DEF SetTop, Good, IsConn
<1>5. Top(x) = x.stack[n] BY DEF Top
<1> HIDE DEF q, y
<1>6. /\ IsConn(y) /\ y.stack = q /\ y.recs = x.recs /\ y.handlers = x.handlers
      /\ y.homed = x.homed /\ y.inbox = x.inbox /\ y.obj = x.obj /\ y.trans = x.trans
      /\ y.over = x.over
  BY <1>4 DEF Good, IsConn
<1>7. Depth(y) = n BY <1>1, <1>3, <1>6 DEF Depth
<1>8. Top(y) = f BY <1>1, <1>2, <1>3, <1>6, <1>7 DEF Top
<1>9. DOMAIN q = 1..n BY <1>1, <1>3, SeqFacts
<1>10. \A i \in 1..n : q[i].kind = x.stack[i].kind BY <1>1, <1>3, <1>5
<1> HIDE DEF n
<1>11. Stacked(q)
  <2>1. ASSUME NEW i \in DOMAIN q, i < Len(q)
        PROVE  q[i].kind = "close" \/ q[i].pc \in {"in", "caught"}
    <3>1. i # n /\ q[i] = x.stack[i] /\ i \in DOMAIN x.stack BY <1>1, <1>3, <1>9, <2>1
    <3> QED BY <1>3, <2>1, <3>1 DEF Good, Stacked
  <2>2. ASSUME NEW i \in DOMAIN q, NEW j \in DOMAIN q, q[i].kind = "notifs", j < i
        PROVE  Running(q[j])
    <3>1. j # n /\ q[j] = x.stack[j] /\ j \in DOMAIN x.stack BY <1>1, <1>3, <1>9, <2>2
    <3>2. i \in DOMAIN x.stack /\ x.stack[i].kind = "notifs" BY <1>1, <1>9, <1>10, <2>2
    <3> QED BY <2>2, <3>1, <3>2 DEF Good, Stacked
  <2> QED BY <2>1, <2>2 DEF Stacked
<1>12. \A g : Serves(x, g) => Serves(y, g) BY <1>6 DEF Serves
<1>13. ASSUME NEW i \in DOMAIN q PROVE Serves(y, q[i]) /\ Sits(y.trans, i, q[i])
  <2>1. CASE i = n BY <1>1, <1>3, <1>6, <1>9, <1>12, <2>1 DEF n
  <2>2. CASE i # n BY <1>1, <1>3, <1>6, <1>9, <1>12, <2>2 DEF Good
  <2> QED BY <2>1, <2>2
<1>14. Contents(y) BY <1>6 DEF Good, Contents
<1>15. y.trans <= Depth(y) + 1 BY <1>6, <1>7 DEF Good, n
<1> QED BY <1>1, <1>3, <1>6, <1>7, <1>8, <1>11, <1>13, <1>14, <1>15 DEF Good, y, n

----------------------------------------------------------------------------
(* What a call in progress does next.                                      *)

\* The parts of a call in progress.
IsFrame(f) ==
  f = [kind |-> f.kind, pc |-> f.pc, await |-> f.await, msg |-> f.msg, at |-> f.at,
       stop |-> f.stop, called |-> f.called, due |-> f.due, ops |-> f.ops]

\* Their types.
Parts(f) ==
  /\ f.kind \in {"notifs", "notice", "commit", "close"}
  /\ f.pc \in {"loop", "in", "caught", "wait", "trans", "receivers", "handlers"}
  /\ f.await \in {"no", "block", "timed"} /\ f.msg \in {0} \cup Range(Channel)
  /\ f.at \in Receiver \cup Handler \cup {End}
  /\ f.stop \in Receiver \cup Handler \cup {End}
  /\ f.called \in Seq(Receiver) \cup Seq(Handler)
  /\ f.due \in (SUBSET Receiver) \cup (SUBSET Handler) /\ f.ops \in 0..MaxOps

\* A call in progress is a record of these parts.
LEMMA FrameParts ==
  ASSUME NEW f
  PROVE  f \in FrameType <=> IsFrame(f) /\ Parts(f)
BY DEF FrameType, IsFrame, Parts

\* A call that has just begun.
LEMMA FreshFacts ==
  ASSUME NEW kind \in {"notifs", "notice", "commit", "close"},
         NEW await \in {"no", "block", "timed"},
         NEW pc \in {"loop", "in", "caught", "wait", "trans", "receivers", "handlers"}
  PROVE  LET f == Frame(kind, pc, await)
         IN  /\ f \in FrameType /\ f.kind = kind /\ f.pc = pc /\ f.await = await
             /\ f.msg = 0 /\ f.at = End /\ f.stop = End /\ f.called = <<>> /\ f.due = {}
             /\ f.ops = 0
<1> DEFINE f == Frame(kind, pc, await)
           e == <<>>
<1>1. f = [kind |-> kind, pc |-> pc, await |-> await, msg |-> 0, at |-> End, stop |-> End,
           called |-> e, due |-> {}, ops |-> 0]
  BY DEF Frame
<1>2. e \in Seq(Receiver) BY EmptySeq
<1>3. 0 \in 0..MaxOps BY ObserversAssumption
<1> HIDE DEF f, e
<1>4. /\ IsFrame(f) /\ f.kind = kind /\ f.pc = pc /\ f.await = await /\ f.msg = 0 /\ f.at = End
      /\ f.stop = End /\ f.called = e /\ f.due = {} /\ f.ops = 0
  BY <1>1 DEF IsFrame
<1>5. Parts(f) BY <1>2, <1>3, <1>4 DEF Parts
<1> QED BY <1>4, <1>5, FrameParts DEF f, e

\* get_notifs() before the first notification, and await_notification() after it.
LEMMA FreshServes ==
  ASSUME NEW x, NEW await \in {"no", "block", "timed"}
  PROVE  /\ Serves(x, Frame("notifs", "loop", await))
         /\ Serves(x, Frame("notifs", "wait", await))
         /\ Serves(x, Frame("close", "trans", "no"))
         /\ Serves(x, Frame("commit", "caught", "no"))
BY FreshFacts DEF Serves

\* Nothing has been called yet.
LEMMA NoneCalled ==
  /\ <<>> \in Seq(Receiver) /\ <<>> \in Seq(Handler)
  /\ IsInjective(<<>>) /\ DOMAIN <<>> = {} /\ Range(<<>>) = {}
<1>1. DOMAIN <<>> = {} OBVIOUS
<1> QED BY <1>1, EmptySeq DEF IsInjective, Range

\* process_notice() before the first handler.
LEMMA NoticeServes ==
  ASSUME NEW x, Contents(x), NEW f,
         f = [Frame("notice", "loop", "no") EXCEPT
                !.at = End, !.stop = First(x.handlers), !.due = Range(x.handlers)]
  PROVE  Serves(x, f) /\ f.kind = "notice" /\ f.pc = "loop"
<1> DEFINE b == First(x.handlers)
           d == Range(x.handlers)
           g == Frame("notice", "loop", "no")
<1>1. /\ g \in FrameType /\ g.kind = "notice" /\ g.pc = "loop" /\ g.msg = 0
      /\ g.called = <<>> /\ g.await = "no" /\ g.ops = 0
  BY FreshFacts
<1>2. f = [g EXCEPT !.at = End, !.stop = b, !.due = d] OBVIOUS
<1>3. Lists(x.handlers, Handler) BY DEF Contents
<1>4. b \in Within(x.handlers) /\ Position(x.handlers, b) = 1 BY <1>3, FirstFacts
<1>5. d \subseteq Handler BY <1>3, SeqFacts DEF Lists
<1>6. b \in Handler \cup {End} BY <1>4, <1>5 DEF Within
<1> HIDE DEF b, d, g
<1>7. /\ IsFrame(f) /\ f.kind = "notice" /\ f.pc = "loop" /\ f.msg = 0 /\ f.called = <<>>
      /\ f.await = "no" /\ f.ops = 0 /\ f.at = End /\ f.stop = b /\ f.due = d
  <2>1. IsFrame(g) BY <1>1, FrameParts
  <2> QED BY <1>1, <1>2, <2>1 DEF IsFrame
<1>8. f \in FrameType
  <2>1. f.called \in Seq(Receiver) \cup Seq(Handler) BY <1>7, NoneCalled
  <2>2. f.ops \in 0..MaxOps BY <1>7, ObserversAssumption
  <2>3. f.due \in (SUBSET Receiver) \cup (SUBSET Handler)
    <3>1. f.due \in SUBSET Handler BY <1>5, <1>7
    <3> QED BY <3>1
  <2>4. /\ f.at \in Receiver \cup Handler \cup {End}
        /\ f.stop \in Receiver \cup Handler \cup {End}
    BY <1>6, <1>7
  <2>5. Parts(f) BY <1>7, <2>1, <2>2, <2>3, <2>4 DEF Parts
  <2> QED BY <1>7, <2>5, FrameParts
<1>9. Reports(x.handlers, f)
  <2> DEFINE s == x.handlers
  <2>1. \A h \in Within(s) : Position(s, h) \in Nat /\ Position(s, h) >= 1
    <3>1. Len(s) \in Nat BY <1>3, SeqFacts DEF Lists
    <3> QED BY <1>3, <3>1, PositionFacts
  <2>2. \A h \in Range(s) : h \in Within(s) BY DEF Within
  <2>3. \A h \in Range(s) : ~Before(s, h, b) BY <1>4, <2>1, <2>2 DEF Before
  <2>4. \A h \in Range(s) : Before(s, h, End) BY <1>3, OrderFacts
  <2>5. Backwards(s, f) BY <1>7, NoneCalled DEF Backwards
  <2> QED BY <1>4, <1>7, <2>3, <2>4, <2>5, NoneCalled DEF Reports, Within, d
<1> QED BY <1>7, <1>8, <1>9 DEF Serves

\* One more has been called.
LEMMA CalledFacts ==
  ASSUME NEW S, NEW q \in Seq(S), IsInjective(q), NEW e \in S, e \notin Range(q)
  PROVE  /\ Append(q, e) \in Seq(S) /\ IsInjective(Append(q, e))
         /\ Range(Append(q, e)) = Range(q) \cup {e}
         /\ DOMAIN Append(q, e) = 1..Len(q) + 1 /\ Len(q) \in Nat /\ DOMAIN q = 1..Len(q)
         /\ Append(q, e)[Len(q) + 1] = e /\ \A i \in 1..Len(q) : Append(q, e)[i] = q[i]
<1> DEFINE p == Append(q, e)
           n == Len(q)
<1>1. /\ p \in Seq(S) /\ Len(p) = n + 1 /\ p[n + 1] = e /\ \A i \in 1..n : p[i] = q[i]
  BY AppendProperties
<1>2. n \in Nat /\ DOMAIN q = 1..n BY SeqFacts
<1> HIDE DEF p, n
<1>3. DOMAIN p = 1..n + 1 BY <1>1, SeqFacts
<1>4. \A i \in 1..n : q[i] # e BY <1>2 DEF Range
<1>5. IsInjective(p)
  <2> SUFFICES ASSUME NEW i \in DOMAIN p, NEW j \in DOMAIN p, p[i] = p[j] PROVE i = j
    BY DEF IsInjective
  <2>1. CASE i \in 1..n /\ j \in 1..n BY <1>1, <1>2, <2>1 DEF IsInjective
  <2>2. CASE i = n + 1 BY <1>1, <1>2, <1>3, <1>4, <2>2
  <2>3. CASE j = n + 1 BY <1>1, <1>2, <1>3, <1>4, <2>3
  <2> QED BY <1>2, <1>3, <2>1, <2>2, <2>3
<1>6. Range(p) = Range(q) \cup {e}
  <2>1. ASSUME NEW i \in DOMAIN p PROVE p[i] \in Range(q) \cup {e}
    <3>1. CASE i \in 1..n BY <1>1, <1>2, <3>1 DEF Range
    <3>2. CASE i = n + 1 BY <1>1, <3>2
    <3> QED BY <1>2, <1>3, <3>1, <3>2
  <2>2. ASSUME NEW i \in DOMAIN q PROVE q[i] \in Range(p)
    <3>1. i \in DOMAIN p /\ p[i] = q[i] BY <1>1, <1>2, <1>3
    <3> QED BY <3>1 DEF Range
  <2>3. e \in Range(p)
    <3>1. n + 1 \in DOMAIN p BY <1>2, <1>3
    <3> QED BY <1>1, <3>1 DEF Range
  <2> QED BY <2>1, <2>2, <2>3 DEF Range
<1> QED BY <1>1, <1>2, <1>3, <1>5, <1>6 DEF p, n

\* A receiver is called that has not been called.
LEMMA CallReceiverServes ==
  ASSUME NEW x, Contents(x), NEW f, Serves(x, f), f.kind = "notifs", f.pc = "loop",
         f.msg # 0, f.at # f.stop, NEW g, g = [f EXCEPT !.pc = "in", !.called = Append(@, f.at)]
  PROVE  Serves(x, g) /\ g.kind = "notifs" /\ g.pc = "in" /\ g.msg = f.msg
<1> DEFINE s == x.recs
           p == Append(f.called, f.at)
<1>1. Lists(s, Receiver) BY DEF Contents
<1>2. Delivers(s, f) /\ f \in FrameType BY DEF Serves
<1>3. f.at \in Within(s) /\ f.stop \in Within(s) /\ ~Before(s, f.stop, f.at) BY <1>2 DEF Delivers
<1>4. Before(s, f.at, f.stop) BY <1>1, <1>3, OrderFacts
<1>5. f.at \in Range(s) /\ f.at \in Receiver
  <2>1. f.at # End BY <1>1, <1>3, <1>4, OrderFacts
  <2>2. f.at \in Range(s) BY <1>3, <2>1 DEF Within
  <2> QED BY <1>1, <2>2, OrderFacts
<1>6. ~Before(s, f.at, f.at) BY <1>1, <1>3, OrderFacts
<1>7. f.at \in f.due BY <1>2, <1>4, <1>5, <1>6 DEF Delivers
<1>8. f.at \notin Range(f.called) /\ Channel[f.at] = f.msg
  BY <1>2, <1>6, <1>7 DEF Delivers
<1>9. p \in Seq(Receiver) /\ IsInjective(p) /\ Range(p) = Range(f.called) \cup {f.at}
  BY <1>2, <1>5, <1>8, CalledFacts DEF Delivers
<1>10. g = [f EXCEPT !.pc = "in", !.called = p] /\ IsFrame(f) /\ Parts(f)
  BY <1>2, FrameParts DEF IsFrame
<1> HIDE DEF p, s
<1>11. /\ IsFrame(g) /\ g.kind = f.kind /\ g.pc = "in" /\ g.await = f.await /\ g.msg = f.msg
       /\ g.at = f.at /\ g.stop = f.stop /\ g.called = p /\ g.due = f.due /\ g.ops = f.ops
  BY <1>10 DEF IsFrame
<1>12. Parts(g) BY <1>9, <1>10, <1>11 DEF Parts
<1>13. Delivers(s, g)
  <2>1. ASSUME NEW r \in f.due
        PROVE  r \in Range(p) <=> Before(s, r, f.at) \/ r = f.at
    BY <1>2, <1>9 DEF Delivers
  <2> QED BY <1>2, <1>4, <1>8, <1>9, <1>11, <2>1 DEF Delivers
<1> QED BY <1>11, <1>12, <1>13, FrameParts DEF Serves, s

\* What a receiver throws is caught.
LEMMA CaughtServes ==
  ASSUME NEW x, NEW f, Serves(x, f), Running(f), NEW g, g = [f EXCEPT !.pc = "caught", !.ops = 0]
  PROVE  Serves(x, g) /\ g.kind = "notifs" /\ g.pc = "caught"
<1>1. f.msg # 0 /\ Delivers(x.recs, f) /\ IsFrame(f) /\ Parts(f)
  BY FrameParts DEF Serves, Running
<1>2. /\ IsFrame(g) /\ g.kind = f.kind /\ g.pc = "caught" /\ g.await = f.await /\ g.msg = f.msg
      /\ g.at = f.at /\ g.stop = f.stop /\ g.called = f.called /\ g.due = f.due /\ g.ops = 0
  BY <1>1 DEF IsFrame
<1>3. Parts(g) BY <1>1, <1>2, ObserversAssumption DEF Parts
<1>4. Delivers(x.recs, g) BY <1>1, <1>2 DEF Delivers, Running
<1> QED BY <1>1, <1>2, <1>3, <1>4, FrameParts DEF Serves, Running

\* A callback calls the connection.
LEMMA SpentServes ==
  ASSUME NEW x, NEW f, Serves(x, f), f.ops < MaxOps, NEW g, g = [f EXCEPT !.ops = @ + 1]
  PROVE  Serves(x, g) /\ g.kind = f.kind /\ g.pc = f.pc /\ g.msg = f.msg /\ g.due = f.due
         /\ g.at = f.at /\ g.stop = f.stop /\ g.called = f.called
<1>1. IsFrame(f) /\ Parts(f) BY FrameParts DEF Serves
<1> DEFINE n == f.ops + 1
<1>2. g = [f EXCEPT !.ops = n] BY <1>1 DEF IsFrame
<1>3. n \in 0..MaxOps BY <1>1, ObserversAssumption DEF Parts
<1> HIDE DEF n
<1>4. /\ IsFrame(g) /\ g.kind = f.kind /\ g.pc = f.pc /\ g.await = f.await /\ g.msg = f.msg
      /\ g.at = f.at /\ g.stop = f.stop /\ g.called = f.called /\ g.due = f.due /\ g.ops = n
  BY <1>1, <1>2 DEF IsFrame
<1>5. Parts(g) BY <1>1, <1>3, <1>4 DEF Parts
<1>6. Delivers(x.recs, f) => Delivers(x.recs, g) BY <1>4 DEF Delivers
<1>7. Reports(x.handlers, f) => Reports(x.handlers, g) BY <1>4 DEF Reports, Backwards
<1> QED BY <1>4, <1>5, <1>6, <1>7, FrameParts DEF Serves

\* Between the place of an iterator and the next there is nothing.
LEMMA NextPlace ==
  ASSUME NEW S, NEW s, Lists(s, S), NEW a \in Within(s), NEW b \in Within(s),
         Position(s, b) = Position(s, a) + 1, NEW e \in Within(s)
  PROVE  /\ Before(s, e, b) <=> Before(s, e, a) \/ e = a
         /\ Before(s, b, e) => Before(s, a, e)
         /\ Before(s, a, e) => ~Before(s, e, b)
<1>1. Len(s) \in Nat BY SeqFacts DEF Lists
<1>2. Position(s, a) \in Nat /\ Position(s, b) \in Nat /\ Position(s, e) \in Nat
  BY <1>1, PositionFacts
<1>3. Position(s, e) = Position(s, a) => e = a BY PositionFacts
<1> QED BY <1>2, <1>3 DEF Before

\* The iterator of a delivery moves on.
MovedOn(x, f) == [f EXCEPT !.pc = "loop", !.at = Succ(x.recs, f.at), !.ops = 0]

\* What has been called is then before the iterator.
LEMMA NextReceiverServes ==
  ASSUME NEW x, Contents(x), NEW f, Serves(x, f), f.kind = "notifs", f.pc \in {"in", "caught"},
         NEW g, g = MovedOn(x, f)
  PROVE  Serves(x, g) /\ g.kind = "notifs" /\ g.pc = "loop"
<1> DEFINE s == x.recs
           b == Succ(s, f.at)
<1>1. Lists(s, Receiver) BY DEF Contents
<1>2. f.msg # 0 /\ Delivers(s, f) /\ IsFrame(f) /\ Parts(f) BY FrameParts DEF Serves
<1>3. f.at \in Within(s) /\ f.stop \in Within(s) /\ Before(s, f.at, f.stop)
  BY <1>2 DEF Delivers
<1>4. f.at \in Range(s)
  <2>1. f.at # End BY <1>1, <1>3, OrderFacts
  <2> QED BY <1>3, <2>1 DEF Within
<1>5. b \in Within(s) /\ Position(s, b) = Position(s, f.at) + 1 BY <1>1, <1>4, SuccFacts
<1>6. g = [f EXCEPT !.pc = "loop", !.at = b, !.ops = 0] BY DEF MovedOn
<1> HIDE DEF b, s
<1>7. /\ IsFrame(g) /\ g.kind = f.kind /\ g.pc = "loop" /\ g.await = f.await /\ g.msg = f.msg
      /\ g.at = b /\ g.stop = f.stop /\ g.called = f.called /\ g.due = f.due /\ g.ops = 0
  BY <1>2, <1>6 DEF IsFrame
<1>8. b \in Receiver \cup {End}
  <2>1. \A e \in Range(s) : e \in Receiver BY <1>1, OrderFacts
  <2> QED BY <1>5, <2>1 DEF Within
<1>9. Parts(g) BY <1>2, <1>7, <1>8, ObserversAssumption DEF Parts
<1>10. \A e \in Within(s) :
         /\ Before(s, e, b) <=> Before(s, e, f.at) \/ e = f.at
         /\ Before(s, f.at, e) => ~Before(s, e, b)
  BY <1>1, <1>3, <1>5, NextPlace
<1>11. Delivers(s, g)
  <2>1. \A e \in Range(s) : e \in Within(s) BY DEF Within
  <2>2. ~Before(s, f.stop, b) BY <1>3, <1>10
  <2>3. ASSUME NEW r \in Range(s), ~Before(s, r, b), Before(s, r, f.stop) PROVE r \in f.due
    BY <1>2, <1>10, <2>1, <2>3 DEF Delivers
  <2>4. ASSUME NEW r \in f.due PROVE r \in Range(f.called) <=> Before(s, r, b)
    <3>1. r \in Within(s) BY <1>2, <2>1 DEF Delivers
    <3> QED BY <1>2, <1>10, <3>1 DEF Delivers
  <2> QED BY <1>2, <1>5, <1>7, <2>2, <2>3, <2>4 DEF Delivers
<1> QED BY <1>7, <1>9, <1>11, FrameParts DEF Serves, s, b

\* A delivery begins with a notification of channel ch.
Notified(x, f, ch) ==
  [f EXCEPT !.await = "no", !.msg = ch, !.at = lower_bound(x.recs, ch),
            !.stop = lower_bound(x.recs, ch + 1),
            !.due = {r \in Range(x.recs) : Channel[r] = ch}]

\* The next notification goes to all receivers of its channel.
LEMMA NotificationServes ==
  ASSUME NEW x, Contents(x), NEW f, Serves(x, f), f.kind = "notifs", f.pc = "loop", f.msg = 0,
         f.called = <<>>, NEW ch \in Range(Channel), NEW g, g = Notified(x, f, ch)
  PROVE  Serves(x, g) /\ g.kind = "notifs" /\ g.pc = "loop"
<1> DEFINE s == x.recs
           a == lower_bound(s, ch)
           b == lower_bound(s, ch + 1)
           d == {r \in Range(s) : Channel[r] = ch}
<1>1. Lists(s, Receiver) /\ Sorted(s) BY DEF Contents
<1>2. IsFrame(f) /\ Parts(f) BY FrameParts DEF Serves
<1>3. ch \in Nat /\ ch + 1 \in Nat /\ ch # 0 /\ \A r \in Range(s) : Channel[r] \in Nat
  <2>1. \A r \in Range(s) : r \in Receiver BY <1>1, OrderFacts
  <2>2. \A k \in Range(Channel) : k \in Nat \ {0} BY ObserversAssumption DEF Range
  <2> QED BY <2>1, <2>2, ObserversAssumption
<1>4. a \in Within(s) /\ \A r \in Range(s) : Before(s, r, a) <=> Channel[r] < ch
  BY <1>1, <1>3, LowerBoundFacts
<1>5. b \in Within(s) /\ \A r \in Range(s) : Before(s, r, b) <=> Channel[r] < ch + 1
  BY <1>1, <1>3, LowerBoundFacts
<1>6. g = [f EXCEPT !.await = "no", !.msg = ch, !.at = a, !.stop = b, !.due = d]
  BY DEF Notified
<1>7. d \subseteq Range(s) /\ \A r \in Range(s) : r \in d <=> Channel[r] = ch OBVIOUS
<1> HIDE DEF a, b, d, s
<1>8. /\ IsFrame(g) /\ g.kind = f.kind /\ g.pc = f.pc /\ g.await = "no" /\ g.msg = ch
      /\ g.at = a /\ g.stop = b /\ g.called = f.called /\ g.due = d /\ g.ops = f.ops
  BY <1>2, <1>6 DEF IsFrame
<1>9. \A e \in Range(s) : e \in Receiver /\ e \in Within(s) BY <1>1, OrderFacts
<1>10. Parts(g)
  <2>1. a \in Receiver \cup {End} /\ b \in Receiver \cup {End} /\ d \subseteq Receiver
    BY <1>4, <1>5, <1>7, <1>9 DEF Within
  <2> QED BY <1>2, <1>8, <2>1 DEF Parts
<1>11. ~Before(s, b, a)
  <2> SUFFICES ASSUME Before(s, b, a) PROVE FALSE OBVIOUS
  <2>1. b # End /\ ~Before(s, b, b) BY <1>1, <1>4, <1>5, OrderFacts
  <2>2. b \in Range(s) BY <1>5, <2>1 DEF Within
  <2>3. Channel[b] < ch /\ ~(Channel[b] < ch + 1) BY <1>4, <1>5, <2>1, <2>2
  <2> QED BY <1>3, <2>2, <2>3
<1>12. \A r \in Range(s) : ~Before(s, r, a) /\ Before(s, r, b) <=> r \in d
  BY <1>3, <1>4, <1>5, <1>7
<1>13. Delivers(s, g)
  BY <1>4, <1>5, <1>7, <1>8, <1>11, <1>12, NoneCalled DEF Delivers
<1> QED BY <1>3, <1>8, <1>10, <1>13, FrameParts DEF Serves, s, a, b, d

\* The handler before the iterator of a message is called.
HandlerCalled(x, f) ==
  [f EXCEPT !.pc = "in", !.called = Append(@, Pred(x.handlers, f.at))]

\* It has not been called before.
LEMMA CallHandlerServes ==
  ASSUME NEW x, Contents(x), NEW f, Serves(x, f), f.kind = "notice", f.pc = "loop",
         f.at # f.stop, NEW g, g = HandlerCalled(x, f)
  PROVE  Serves(x, g) /\ g.kind = "notice" /\ g.pc = "in" /\ g.msg = f.msg
<1> DEFINE s == x.handlers
           e == Pred(s, f.at)
           p == Append(f.called, e)
<1>1. Lists(s, Handler) BY DEF Contents
<1>2. Reports(s, f) /\ f \in FrameType BY DEF Serves
<1>3. f.at \in Within(s) /\ f.stop \in Within(s) BY <1>2 DEF Reports
<1>4. Before(s, f.stop, f.at)
  <2>1. ~Before(s, f.at, f.stop)
    <3>1. CASE f.at \in Range(s) BY <1>2, <3>1 DEF Reports
    <3>2. CASE f.at = End BY <1>1, <1>3, <3>2, OrderFacts
    <3> QED BY <1>3, <3>1, <3>2 DEF Within
  <2> QED BY <1>1, <1>3, <2>1, OrderFacts
<1>5. Position(s, f.at) # 1
  <2>1. Len(s) \in Nat BY <1>1, SeqFacts DEF Lists
  <2>2. Position(s, f.stop) \in 1..Len(s) + 1 /\ Position(s, f.at) \in 1..Len(s) + 1
    BY <1>1, <1>3, PositionFacts
  <2> QED BY <1>4, <2>1, <2>2 DEF Before
<1>6. e \in Range(s) /\ Position(s, e) + 1 = Position(s, f.at) BY <1>1, <1>3, <1>5, PredFacts
<1>7. e \in Handler /\ e \in Within(s) BY <1>1, <1>6, OrderFacts
<1> HIDE DEF e
<1>8. Position(s, f.at) = Position(s, e) + 1 BY <1>6
<1>9. Before(s, e, f.at) /\ ~Before(s, e, e)
  <2>1. ~Before(s, e, e) BY <1>1, <1>7, OrderFacts
  <2> QED BY <1>1, <1>3, <1>7, <1>8, <2>1, NextPlace
<1>10. e \in f.due /\ e \notin Range(f.called) BY <1>2, <1>6, <1>9 DEF Reports
<1>11. /\ p \in Seq(Handler) /\ IsInjective(p) /\ Range(p) = Range(f.called) \cup {e}
       /\ DOMAIN p = 1..Len(f.called) + 1 /\ Len(f.called) \in Nat
       /\ DOMAIN f.called = 1..Len(f.called) /\ p[Len(f.called) + 1] = e
       /\ \A i \in 1..Len(f.called) : p[i] = f.called[i]
  BY <1>2, <1>7, <1>10, CalledFacts DEF Reports
<1>12. g = [f EXCEPT !.pc = "in", !.called = p] /\ IsFrame(f) /\ Parts(f)
  <2>1. g = [f EXCEPT !.pc = "in", !.called = Append(@, e)]
    BY DEF e, s, HandlerCalled
  <2> QED BY <1>2, <2>1, FrameParts DEF IsFrame
<1> HIDE DEF p, s
<1>13. /\ IsFrame(g) /\ g.kind = f.kind /\ g.pc = "in" /\ g.await = f.await /\ g.msg = f.msg
       /\ g.at = f.at /\ g.stop = f.stop /\ g.called = p /\ g.due = f.due /\ g.ops = f.ops
  BY <1>12 DEF IsFrame
<1>14. Parts(g) BY <1>11, <1>12, <1>13 DEF Parts
<1>15. Backwards(s, g)
  <2> DEFINE n == Len(f.called)
  <2> SUFFICES ASSUME NEW i \in DOMAIN p, NEW j \in DOMAIN p, i < j, p[i] \in f.due, p[j] \in f.due
               PROVE  Before(s, p[j], p[i])
    BY <1>13 DEF Backwards
  <2>1. i \in 1..n /\ p[i] = f.called[i] BY <1>11
  <2>2. CASE j \in 1..n BY <1>2, <1>11, <2>1, <2>2 DEF Reports, Backwards
  <2>3. CASE j = n + 1
    <3> DEFINE a == f.called[i]
    <3>1. p[j] = e /\ p[i] = a BY <1>11, <2>1, <2>3
    <3>2. a \in Range(f.called) /\ a \in f.due BY <1>11, <2>1 DEF Range
    <3>3. ~Before(s, a, f.at) /\ a \in Within(s) BY <1>2, <3>2 DEF Reports, Within
    <3>4. a = f.at \/ Before(s, f.at, a) BY <1>1, <1>3, <3>3, OrderFacts
    <3>5. Before(s, e, a) BY <1>1, <1>3, <1>7, <1>9, <3>3, <3>4, OrderFacts
    <3> QED BY <3>1, <3>5
  <2> QED BY <1>11, <2>2, <2>3
<1>16. Reports(s, g)
  <2>1. ASSUME NEW h \in f.due
        PROVE  h \in Range(p) <=> ~Before(s, h, f.at) \/ h = e
    BY <1>2, <1>11 DEF Reports
  <2>2. e = Pred(s, f.at) BY DEF e, s
  <2> QED BY <1>2, <1>4, <1>11, <1>13, <1>15, <2>1, <2>2 DEF Reports
<1> QED BY <1>13, <1>14, <1>16, FrameParts DEF Serves, s

\* The iterator of a message moves back.
LEMMA HandlerReturnsServes ==
  ASSUME NEW x, Contents(x), NEW f, Serves(x, f), f.kind = "notice", f.pc = "in", NEW g,
         g = [f EXCEPT !.pc = "loop", !.at = Pred(x.handlers, f.at), !.ops = 0]
  PROVE  Serves(x, g) /\ g.kind = "notice" /\ g.pc = "loop"
<1> DEFINE s == x.handlers
           e == Pred(s, f.at)
<1>1. Lists(s, Handler) BY DEF Contents
<1>2. Reports(s, f) /\ f.msg = 0 /\ IsFrame(f) /\ Parts(f) BY FrameParts DEF Serves
<1>3. f.at \in Within(s) /\ f.stop \in Within(s) /\ Before(s, f.stop, f.at)
  BY <1>2 DEF Reports
<1>4. Position(s, f.at) # 1
  <2>1. Len(s) \in Nat BY <1>1, SeqFacts DEF Lists
  <2>2. Position(s, f.stop) \in 1..Len(s) + 1 /\ Position(s, f.at) \in 1..Len(s) + 1
    BY <1>1, <1>3, PositionFacts
  <2> QED BY <1>3, <2>1, <2>2 DEF Before
<1>5. e \in Range(s) /\ Position(s, e) + 1 = Position(s, f.at) BY <1>1, <1>3, <1>4, PredFacts
<1>6. e \in Handler /\ e \in Within(s) BY <1>1, <1>5, OrderFacts
<1>7. g = [f EXCEPT !.pc = "loop", !.at = e, !.ops = 0] OBVIOUS
<1>8. e = Pred(s, f.at) OBVIOUS
<1> HIDE DEF e, s
<1>9. /\ IsFrame(g) /\ g.kind = f.kind /\ g.pc = "loop" /\ g.await = f.await /\ g.msg = f.msg
      /\ g.at = e /\ g.stop = f.stop /\ g.called = f.called /\ g.due = f.due /\ g.ops = 0
  BY <1>2, <1>7 DEF IsFrame
<1>10. Parts(g) BY <1>2, <1>6, <1>9, ObserversAssumption DEF Parts
<1>11. Position(s, f.at) = Position(s, e) + 1 BY <1>5
<1>12. \A a \in Within(s) : Before(s, a, f.at) <=> Before(s, a, e) \/ a = e
  BY <1>1, <1>3, <1>6, <1>11, NextPlace
<1>13. ~Before(s, e, e) BY <1>1, <1>6, OrderFacts
<1>14. \A h \in Range(s) : h \in Within(s) BY DEF Within
<1>15. ASSUME NEW h \in f.due PROVE h \in Range(f.called) <=> ~Before(s, h, e)
  <2>1. h \in Within(s) BY <1>2, <1>14 DEF Reports
  <2> QED BY <1>2, <1>8, <1>12, <1>13, <2>1 DEF Reports
<1>16. \A h \in Range(s) : Before(s, h, e) => h \in f.due BY <1>2, <1>12, <1>14 DEF Reports
<1>17. Backwards(s, g) BY <1>2, <1>9 DEF Reports, Backwards
<1>18. Reports(s, g) BY <1>2, <1>6, <1>9, <1>15, <1>16, <1>17 DEF Reports
<1> QED BY <1>2, <1>9, <1>10, <1>18, FrameParts DEF Serves, s

----------------------------------------------------------------------------
(* What does not concern callbacks: the libpq connection.                  *)

\* A call that does nothing.
LEMMA SameSelf == ASSUME NEW x, IsConn(x) PROVE Same(x, x)
BY DEF Same

\* It goes from one call to the next.
LEMMA SameTwice ==
  ASSUME NEW x, NEW y, NEW z, Same(x, y), Same(y, z)
  PROVE  Same(x, z)
BY DEF Same

\* The members that concern the handle.
LEMMA HandleSame ==
  ASSUME NEW x, IsConn(x), NEW a, NEW b, NEW d, NEW s
  PROVE  /\ Same(x, [x EXCEPT !.completed = a])
         /\ Same(x, [x EXCEPT !.connecting = b])
         /\ Same(x, [x EXCEPT !.status = s])
         /\ Same(x, [x EXCEPT !.conn = d, !.status = s])
         /\ Same(x, [x EXCEPT !.connecting = b, !.status = s])
         /\ Same(x, [x EXCEPT !.conn = d, !.connecting = b])
         /\ Same(x, [x EXCEPT !.status = s, !.conn = d, !.inbox = <<>>])
<1> DEFINE e == <<>>
<1>1. Same(x, [x EXCEPT !.completed = a]) BY DEF Same, IsConn
<1>2. Same(x, [x EXCEPT !.connecting = b]) BY DEF Same, IsConn
<1>3. Same(x, [x EXCEPT !.status = s]) BY DEF Same, IsConn
<1>4. Same(x, [x EXCEPT !.conn = d, !.status = s])
  <2> SUFFICES ASSUME NEW y, y = [x EXCEPT !.conn = d, !.status = s] PROVE Same(x, y) OBVIOUS
  <2>1. IsConn(y) BY DEF IsConn
  <2>2. /\ y.obj = x.obj /\ y.trans = x.trans /\ y.over = x.over /\ y.recs = x.recs
        /\ y.inbox = x.inbox
        /\ y.handlers = x.handlers /\ y.homed = x.homed /\ y.stack = x.stack
    BY DEF IsConn
  <2> QED BY <2>1, <2>2 DEF Same
<1>5. Same(x, [x EXCEPT !.connecting = b, !.status = s])
  <2> SUFFICES ASSUME NEW y, y = [x EXCEPT !.connecting = b, !.status = s] PROVE Same(x, y) OBVIOUS
  <2>1. IsConn(y) BY DEF IsConn
  <2>2. /\ y.obj = x.obj /\ y.trans = x.trans /\ y.over = x.over /\ y.recs = x.recs
        /\ y.inbox = x.inbox
        /\ y.handlers = x.handlers /\ y.homed = x.homed /\ y.stack = x.stack
    BY DEF IsConn
  <2> QED BY <2>1, <2>2 DEF Same
<1>6. Same(x, [x EXCEPT !.conn = d, !.connecting = b])
  <2> SUFFICES ASSUME NEW y, y = [x EXCEPT !.conn = d, !.connecting = b] PROVE Same(x, y) OBVIOUS
  <2>1. IsConn(y) BY DEF IsConn
  <2>2. /\ y.obj = x.obj /\ y.trans = x.trans /\ y.over = x.over /\ y.recs = x.recs
        /\ y.inbox = x.inbox
        /\ y.handlers = x.handlers /\ y.homed = x.homed /\ y.stack = x.stack
    BY DEF IsConn
  <2> QED BY <2>1, <2>2 DEF Same
<1>7. Same(x, [x EXCEPT !.status = s, !.conn = d, !.inbox = e])
  <2>1. e = <<>> OBVIOUS
  <2> HIDE DEF e
  <2> SUFFICES ASSUME NEW y, y = [x EXCEPT !.status = s, !.conn = d, !.inbox = e]
               PROVE  Same(x, y)
    OBVIOUS
  <2>2. IsConn(y) BY DEF IsConn
  <2>3. /\ y.obj = x.obj /\ y.trans = x.trans /\ y.over = x.over /\ y.recs = x.recs /\ y.inbox = e
        /\ y.handlers = x.handlers /\ y.homed = x.homed /\ y.stack = x.stack
    BY DEF IsConn
  <2> QED BY <2>1, <2>2, <2>3 DEF Same
<1> QED BY <1>1, <1>2, <1>3, <1>4, <1>5, <1>6, <1>7

\* libpq: the handle changes its state.
LEMMA StatusSame ==
  ASSUME NEW x, IsConn(x), NEW st
  PROVE  /\ Same(x, [x EXCEPT !.status[x.conn] = st])
         /\ Same(x, [x EXCEPT !.connecting = FALSE, !.status[x.conn] = st])
<1> DEFINE s == [x.status EXCEPT ![x.conn] = st]
<1>1. /\ [x EXCEPT !.status[x.conn] = st] = [x EXCEPT !.status = s]
      /\ [x EXCEPT !.connecting = FALSE, !.status[x.conn] = st]
           = [x EXCEPT !.connecting = FALSE, !.status = s]
  BY DEF IsConn
<1> HIDE DEF s
<1>2. Same(x, [x EXCEPT !.status = s]) BY HandleSame
<1>3. Same(x, [x EXCEPT !.connecting = FALSE, !.status = s]) BY HandleSame
<1> QED BY <1>1, <1>2, <1>3

\* A new handle.
LEMMA ConnectSame ==
  ASSUME NEW x, IsConn(x), NEW st, NEW y \in Connect(x, st)
  PROVE  Same(x, y)
<1> DEFINE h == CHOOSE k \in Free(x) : TRUE
           s == [x.status EXCEPT ![h] = st]
<1>1. y = [x EXCEPT !.conn = h, !.status[h] = st] BY DEF Connect
<1> HIDE DEF h
<1>2. y = [x EXCEPT !.conn = h, !.status = s] BY <1>1 DEF IsConn
<1> HIDE DEF s
<1>3. Same(x, [x EXCEPT !.conn = h, !.status = s]) BY HandleSame
<1> QED BY <1>2, <1>3

\* disconnect() and the handle dropped after an exception.
LEMMA DisconnectSame ==
  ASSUME NEW x, IsConn(x)
  PROVE  /\ Same(x, do_disconnect(x))
         /\ Same(x, [do_disconnect(x) EXCEPT !.completed = FALSE])
<1> DEFINE y == do_dropconnect(x)
           s == [y.status EXCEPT ![y.conn] = "free"]
           z == do_disconnect(x)
<1>1. Same(x, y) BY HandleSame DEF do_dropconnect
<1>2. z = IF y.conn = Null THEN y ELSE PQfinish(y) BY DEF do_disconnect
<1> HIDE DEF y
<1>3. PQfinish(y) = [y EXCEPT !.status = s, !.conn = Null, !.inbox = <<>>]
  BY <1>1 DEF PQfinish, Same, IsConn
<1> HIDE DEF s, z
<1>4. Same(y, PQfinish(y))
  <2>1. IsConn(y) BY <1>1 DEF Same
  <2>2. Same(y, [y EXCEPT !.status = s, !.conn = Null, !.inbox = <<>>]) BY <2>1, HandleSame
  <2> QED BY <1>3, <2>2
<1>5. Same(x, z) BY <1>1, <1>2, <1>4, SameTwice
<1>6. Same(z, [z EXCEPT !.completed = FALSE])
  <2>1. IsConn(z) BY <1>5 DEF Same
  <2> QED BY <2>1, HandleSame
<1> QED BY <1>5, <1>6, SameTwice DEF z

\* All outcomes of a call are the same state as far as callbacks are concerned.
AllSame(x, os) == \A o \in os : Same(x, o.x)

\* A call that is followed by another.
LEMMA AllSameTwice ==
  ASSUME NEW x, NEW y, Same(x, y), NEW os, AllSame(y, os)
  PROVE  AllSame(x, os)
BY SameTwice DEF AllSame

\* An outcome's state.
LEMMA OutState == \A y, e : Out(y, e).x = y /\ Out(y, e).exc = e /\ Ok(y) = Out(y, "ok")
BY DEF Ok, Out

\* do_startconnect(), in all policies.
LEMMA StartSame ==
  ASSUME NEW x, IsConn(x)
  PROVE  AllSame(x, do_startconnect(x)) /\ AllSame(x, normalconnect(x))
<1>1. Same(x, x) BY SameSelf
<1>2. AllSame(x, normalconnect(x))
  <2> SUFFICES ASSUME NEW o \in normalconnect(x) PROVE Same(x, o.x) BY DEF AllSame
  <2>1. o = Ok(x) \/ o = Out(x, "broken") \/ \E y \in Connect(x, "ok") : o = Ok(y)
    BY DEF normalconnect
  <2> QED BY <1>1, <2>1, ConnectSame, OutState
<1>3. AllSame(x, start_async(x))
  <2> SUFFICES ASSUME NEW o \in start_async(x) PROVE Same(x, o.x) BY DEF AllSame
  <2>1. \/ o = Ok(x)
        \/ \E y \in Connect(x, "connecting") : o = Ok([y EXCEPT !.connecting = TRUE])
        \/ \E y \in Connect(x, "bad") :
             o = Out([y EXCEPT !.conn = Null, !.connecting = FALSE], "broken")
    BY DEF start_async
  <2>2. CASE o = Ok(x) BY <1>1, <2>2, OutState
  <2>3. ASSUME NEW y \in Connect(x, "connecting"), o = Ok([y EXCEPT !.connecting = TRUE])
        PROVE  Same(x, o.x)
    <3>1. Same(x, y) /\ IsConn(y) BY ConnectSame DEF Same
    <3>2. Same(y, [y EXCEPT !.connecting = TRUE]) BY <3>1, HandleSame
    <3>3. o.x = [y EXCEPT !.connecting = TRUE] BY <2>3, OutState
    <3> QED BY <3>1, <3>2, <3>3, SameTwice
  <2>4. ASSUME NEW y \in Connect(x, "bad"),
               o = Out([y EXCEPT !.conn = Null, !.connecting = FALSE], "broken")
        PROVE  Same(x, o.x)
    <3>1. Same(x, y) /\ IsConn(y) BY ConnectSame DEF Same
    <3>2. Same(y, [y EXCEPT !.conn = Null, !.connecting = FALSE]) BY <3>1, HandleSame
    <3>3. o.x = [y EXCEPT !.conn = Null, !.connecting = FALSE] BY <2>4, OutState
    <3> QED BY <3>1, <3>2, <3>3, SameTwice
  <2> QED BY <2>1, <2>2, <2>3, <2>4
<1>4. AllSame(x, {Ok(x)}) BY <1>1, OutState DEF AllSame
<1> QED BY <1>2, <1>3, <1>4 DEF do_startconnect

\* do_completeconnect(), in all policies.
LEMMA FinishSame ==
  ASSUME NEW x, IsConn(x)
  PROVE  AllSame(x, do_completeconnect(x))
<1>1. AllSame(x, {Ok(x)}) BY SameSelf, OutState DEF AllSame
<1>2. AllSame(x, complete_async(x))
  <2> DEFINE y == [x EXCEPT !.connecting = FALSE, !.status[x.conn] = "ok"]
             z == [x EXCEPT !.connecting = FALSE, !.status[x.conn] = "bad"]
  <2>1. Same(x, x) /\ Same(x, y) /\ Same(x, z) BY SameSelf, StatusSame
  <2>2. \A o \in complete_async(x) : o = Ok(x) \/ o = Ok(y) \/ o = Out(z, "broken")
    BY DEF complete_async
  <2> HIDE DEF y, z
  <2> QED BY <2>1, <2>2, OutState DEF AllSame
<1> QED BY <1>1, <1>2, StartSame DEF do_completeconnect

\* The end of activate()'s try block.
LEMMA CompletedSame ==
  ASSUME NEW x, IsConn(x)
  PROVE  AllSame(x, Completed(x))
<1> DEFINE y == [x EXCEPT !.completed = TRUE]
           z == [do_disconnect(y) EXCEPT !.completed = FALSE]
<1>1. Same(x, y) BY HandleSame
<1>2. Completed(x) = IF is_open(y) THEN SetupState(y) ELSE {Out(y, "broken")}
  BY DEF Completed
<1> HIDE DEF y
<1>3. Same(y, y) /\ Same(y, z)
  <2>1. IsConn(y) BY <1>1 DEF Same
  <2> QED BY <2>1, SameSelf, DisconnectSame
<1>4. \A o \in SetupState(y) : o = Out(z, "broken") \/ o = Ok(y) \/ o = Out(y, "unsupported")
  BY DEF SetupState
<1> HIDE DEF z
<1>5. AllSame(y, Completed(x)) BY <1>2, <1>3, <1>4, OutState DEF AllSame
<1> QED BY <1>1, <1>5, AllSameTwice

\* The whole of it.
LEMMA AttemptSame ==
  ASSUME NEW x, IsConn(x)
  PROVE  AllSame(x, Attempt(x))
<1>1. ASSUME NEW y, IsConn(y) PROVE AllSame(y, Complete(y))
  <2> SUFFICES ASSUME NEW o \in Complete(y) PROVE Same(y, o.x) BY DEF AllSame
  <2>1. PICK q \in do_completeconnect(y) : o \in IF q.exc = "ok" THEN Completed(q.x) ELSE {q}
    BY DEF Complete, Then
  <2>2. Same(y, q.x) /\ IsConn(q.x) BY <1>1, FinishSame DEF AllSame, Same
  <2>3. o = q \/ o \in Completed(q.x) BY <2>1
  <2>4. o \in Completed(q.x) => Same(q.x, o.x) BY <2>2, CompletedSame DEF AllSame
  <2> QED BY <2>2, <2>3, <2>4, SameTwice
<1> SUFFICES ASSUME NEW o \in Attempt(x) PROVE Same(x, o.x) BY DEF AllSame
<1>2. PICK p \in do_startconnect(x) : o \in IF p.exc = "ok" THEN Complete(p.x) ELSE {p}
  BY DEF Attempt, Then
<1>3. Same(x, p.x) /\ IsConn(p.x) BY StartSame DEF AllSame, Same
<1>4. o = p \/ o \in Complete(p.x) BY <1>2
<1>5. o \in Complete(p.x) => Same(p.x, o.x) BY <1>1, <1>3 DEF AllSame
<1> QED BY <1>3, <1>4, <1>5, SameTwice

\* activate().
LEMMA ActivateSame ==
  ASSUME NEW x, IsConn(x)
  PROVE  AllSame(x, activate(x))
<1> SUFFICES ASSUME NEW o \in activate(x) PROVE Same(x, o.x) BY DEF AllSame
<1>1. CASE is_open(x)
  <2>1. o = Ok(x) BY <1>1 DEF activate
  <2> QED BY <2>1, SameSelf, OutState
<1>2. CASE ~is_open(x)
  <2>1. PICK p \in Attempt(x) :
          o = CASE p.exc = "ok"     -> p
                [] p.exc = "broken" -> Out([disconnect(p.x) EXCEPT !.completed = FALSE],
                                           "broken")
                [] OTHER            -> Out([p.x EXCEPT !.completed = FALSE], p.exc)
    BY <1>2 DEF activate
  <2>2. Same(x, p.x) /\ IsConn(p.x) BY AttemptSame DEF AllSame, Same
  <2> DEFINE y == [do_disconnect(p.x) EXCEPT !.completed = FALSE]
             z == [p.x EXCEPT !.completed = FALSE]
  <2>3. Same(p.x, y) /\ Same(p.x, z) BY <2>2, DisconnectSame, HandleSame
  <2>4. o = p \/ o = Out(y, "broken") \/ o = Out(z, p.exc) BY <2>1 DEF disconnect
  <2> HIDE DEF y, z
  <2>5. o.x = p.x \/ o.x = y \/ o.x = z BY <2>4, OutState
  <2> QED BY <2>2, <2>3, <2>5, SameTwice
<1> QED BY <1>1, <1>2

\* The other calls that talk to libpq.
LEMMA CallsSame ==
  ASSUME NEW x, IsConn(x)
  PROVE  /\ AllSame(x, query(x)) /\ AllSame(x, consume_input(x))
         /\ AllSame(x, deactivate(x)) /\ AllSame(x, dbname(x))
<1>1. Same(x, x) BY SameSelf
<1> DEFINE y == [do_disconnect(x) EXCEPT !.completed = FALSE]
           z == [x EXCEPT !.status[x.conn] = "bad"]
           u == [x EXCEPT !.completed = FALSE]
           v == do_disconnect(u)
<1>2. Same(x, y) /\ Same(x, z) BY DisconnectSame, StatusSame
<1>3. Same(x, u) BY HandleSame
<1>4. \A o \in query(x) : o = Ok(x) \/ o = Out(y, "broken") BY DEF query, disconnect
<1>5. \A o \in consume_input(x) : o = Ok(x) \/ o = Out(z, "broken") BY DEF consume_input
<1>6. \A o \in deactivate(x) : o = Ok(x) \/ o = Out(x, "usage") \/ o = Ok(v) BY DEF deactivate
<1> HIDE DEF u
<1>7. Same(u, v)
  <2>1. IsConn(u) BY <1>3 DEF Same
  <2> QED BY <2>1, DisconnectSame
<1> HIDE DEF y, z, v
<1>8. Same(x, v) BY <1>3, <1>7, SameTwice
<1>9. AllSame(x, query(x)) BY <1>1, <1>2, <1>4, OutState DEF AllSame
<1>10. AllSame(x, consume_input(x)) BY <1>1, <1>2, <1>5, OutState DEF AllSame
<1>11. AllSame(x, deactivate(x)) BY <1>1, <1>6, <1>8, OutState DEF AllSame
<1>12. AllSame(x, dbname(x))
  <2>1. AllSame(x, {Ok(x)}) BY <1>1, OutState DEF AllSame
  <2> QED BY <2>1, ActivateSame DEF dbname
<1> QED BY <1>9, <1>10, <1>11, <1>12

\* The constructor.
LEMMA InitSame ==
  ASSUME NEW x, IsConn(x)
  PROVE  AllSame(x, init(x))
<1> SUFFICES ASSUME NEW o \in init(x) PROVE Same(x, o.x) BY DEF AllSame
<1> DEFINE Ready(y) == IF is_ready(y) THEN activate(y) ELSE {Ok(y)}
<1>1. o \in Then(do_startconnect(x), Ready) BY DEF init
<1>2. PICK p \in do_startconnect(x) : o \in IF p.exc = "ok" THEN Ready(p.x) ELSE {p}
  BY <1>1 DEF Then
<1>3. Same(x, p.x) /\ IsConn(p.x) BY StartSame DEF AllSame, Same
<1>4. o = p \/ o = Ok(p.x) \/ o \in activate(p.x) BY <1>2
<1>5. o \in activate(p.x) => Same(p.x, o.x) BY <1>3, ActivateSame DEF AllSame
<1>6. Ok(p.x).x = p.x BY OutState
<1> QED BY <1>3, <1>4, <1>5, <1>6, SameTwice

----------------------------------------------------------------------------
(* What calls do to the state.                                             *)

\* The client's code runs, outside or in a receiver.
Calls(x) == x.obj = "live" /\ (Depth(x) = 0 \/ Running(Top(x)))

\* A state that is the same is called from the same place.
LEMMA SameCalls ==
  ASSUME NEW x, NEW y, Same(x, y)
  PROVE  Depth(y) = Depth(x) /\ Top(y) = Top(x) /\ (Calls(x) => Calls(y))
BY DEF Same, Calls, Depth, Top

\* process_notice() where a callback runs, has thrown, or close() is under way.
LEMMA NoticeGood ==
  ASSUME NEW x, Good(x), x.obj = "live",
         Depth(x) = 0 \/ Top(x).kind = "close" \/ Top(x).pc \in {"in", "caught"}
  PROVE  Good(process_notice(x))
<1> DEFINE f == [Frame("notice", "loop", "no") EXCEPT
                   !.at = End, !.stop = First(x.handlers), !.due = Range(x.handlers)]
<1>1. process_notice(x) = Push(x, f) BY DEF process_notice
<1>2. Serves(x, f) /\ f.kind = "notice" /\ f.pc = "loop" BY NoticeServes DEF Good
<1> HIDE DEF f
<1>3. Sits(x.trans, Depth(x) + 1, f) BY <1>2 DEF Sits, Running, Good
<1> QED BY <1>1, <1>2, <1>3, PushGood

\* The outcomes of get_notifs(): nothing has happened that concerns callbacks, or
\* it waits, or outside transactions it begins to deliver.
Gets(x, await, o) ==
  \E y :
    /\ Same(x, y)
    /\ \/ o.x = y
       \/ o.exc = "ok" /\ await # "no" /\ o.x = Push(y, Frame("notifs", "wait", await))
       \/ o.exc = "ok" /\ y.trans = 0 /\ o.x = Push(y, Frame("notifs", "loop", await))

\* A failure, or get_notifs() in a transaction, changes nothing.
LEMMA GetsNothing ==
  ASSUME NEW x, NEW await, NEW o, Gets(x, await, o),
         o.exc # "ok" \/ (await = "no" /\ x.trans # 0)
  PROVE  Same(x, o.x)
BY DEF Gets, Same

\* get_notifs() after something that does not concern callbacks.
LEMMA GetsAfter ==
  ASSUME NEW x, NEW y, Same(x, y), NEW await, NEW o, Gets(y, await, o)
  PROVE  Gets(x, await, o)
<1>1. PICK z : /\ Same(y, z)
               /\ \/ o.x = z
                  \/ /\ o.exc = "ok" /\ await # "no"
                     /\ o.x = Push(z, Frame("notifs", "wait", await))
                  \/ /\ o.exc = "ok" /\ z.trans = 0
                     /\ o.x = Push(z, Frame("notifs", "loop", await))
  BY DEF Gets
<1>2. Same(x, z) BY <1>1, SameTwice
<1> QED BY <1>1, <1>2 DEF Gets

\* A call that fails, or ends before get_notifs().
LEMMA GetsSame ==
  ASSUME NEW x, NEW await, NEW o, Same(x, o.x)
  PROVE  Gets(x, await, o)
BY DEF Gets

\* get_notifs().
LEMMA GetNotifsGets ==
  ASSUME NEW x, IsConn(x), NEW await, NEW o \in get_notifs(x, await)
  PROVE  Gets(x, await, o)
<1>1. ASSUME NEW y, Same(x, y), o = Ok(GotNone(y, await)) PROVE Gets(x, await, o)
  <2> DEFINE z == Push(y, Frame("notifs", "wait", await))
  <2>1. GotNone(y, await) = IF await = "no" THEN y ELSE z BY DEF GotNone
  <2>2. o.exc = "ok" /\ o.x = GotNone(y, await) BY <1>1, OutState
  <2> QED BY <1>1, <2>1, <2>2 DEF Gets
<1>2. CASE ~is_open(x)
  <2>1. o = Ok(GotNone(x, await)) BY <1>2 DEF get_notifs
  <2> QED BY <1>1, <2>1, SameSelf
<1>3. CASE is_open(x)
  <2>1. PICK p \in consume_input(x) :
          o \in IF p.exc = "ok"
                THEN IF p.x.trans # 0 THEN {Ok(GotNone(p.x, await))}
                     ELSE {Ok(Push(p.x, Frame("notifs", "loop", await)))}
                ELSE {p}
    BY <1>3 DEF get_notifs, Then
  <2>2. Same(x, p.x) BY CallsSame DEF AllSame
  <2>3. CASE o = p BY <2>2, <2>3, GetsSame
  <2>4. CASE o = Ok(GotNone(p.x, await)) BY <1>1, <2>2, <2>4
  <2>5. CASE p.x.trans = 0 /\ o = Ok(Push(p.x, Frame("notifs", "loop", await)))
    <3> DEFINE z == Push(p.x, Frame("notifs", "loop", await))
    <3>1. o.exc = "ok" /\ o.x = z BY <2>5, OutState
    <3> QED BY <2>2, <2>5, <3>1 DEF Gets
  <2> QED BY <2>1, <2>3, <2>4, <2>5
<1> QED BY <1>2, <1>3

\* await_notification() and Exec(), which connect first.
LEMMA CallsGet ==
  ASSUME NEW x, IsConn(x)
  PROVE  /\ \A await : \A o \in await_notification(x, await) : Gets(x, await, o)
         /\ \A o \in Exec(x) : Gets(x, "no", o)
<1>1. ASSUME NEW await, NEW o \in await_notification(x, await) PROVE Gets(x, await, o)
  <2>1. PICK p \in activate(x) : o \in IF p.exc = "ok" THEN get_notifs(p.x, await) ELSE {p}
    BY DEF await_notification, Then
  <2>2. Same(x, p.x) /\ IsConn(p.x) BY ActivateSame DEF AllSame, Same
  <2>3. o = p \/ o \in get_notifs(p.x, await) BY <2>1
  <2> QED BY <2>2, <2>3, GetNotifsGets, GetsAfter, GetsSame
<1>2. ASSUME NEW o \in Exec(x) PROVE Gets(x, "no", o)
  <2> DEFINE Rest(y) == Then(query(y), LAMBDA z : get_notifs(z, "no"))
  <2>1. PICK p \in activate(x) : o \in IF p.exc = "ok" THEN Rest(p.x) ELSE {p}
    BY DEF Exec, Then
  <2>2. Same(x, p.x) /\ IsConn(p.x) BY ActivateSame DEF AllSame, Same
  <2>3. CASE o = p BY <2>2, <2>3, GetsSame
  <2>4. CASE o \in Rest(p.x)
    <3>1. PICK q \in query(p.x) : o \in IF q.exc = "ok" THEN get_notifs(q.x, "no") ELSE {q}
      BY <2>4 DEF Then
    <3>2. Same(p.x, q.x) /\ IsConn(q.x) BY <2>2, CallsSame DEF AllSame, Same
    <3>3. o = q \/ o \in get_notifs(q.x, "no") BY <3>1
    <3>4. Same(x, q.x) BY <2>2, <3>2, SameTwice
    <3> QED BY <3>2, <3>3, <3>4, GetNotifsGets, GetsAfter, GetsSame
  <2> QED BY <2>1, <2>3, <2>4
<1> QED BY <1>1, <1>2

\* The client's calls of get_notifs() leave a good state.
LEMMA GetsGood ==
  ASSUME NEW x, Good(x), Calls(x), NEW await \in {"no", "block", "timed"}, NEW o,
         Gets(x, await, o)
  PROVE  Good(o.x)
<1>1. PICK y : /\ Same(x, y)
               /\ \/ o.x = y
                  \/ o.x = Push(y, Frame("notifs", "wait", await))
                  \/ y.trans = 0 /\ o.x = Push(y, Frame("notifs", "loop", await))
  BY DEF Gets
<1>2. Good(y) /\ Calls(y) BY <1>1, SameGood, SameCalls
<1>3. /\ y.obj = "live" /\ (Depth(y) = 0 \/ Running(Top(y)))
      /\ Depth(y) = 0 \/ Top(y).kind = "close" \/ Top(y).pc \in {"in", "caught"}
  BY <1>2 DEF Calls, Running
<1>4. CASE o.x = Push(y, Frame("notifs", "wait", await))
  <2> DEFINE f == Frame("notifs", "wait", await)
  <2>1. Serves(y, f) /\ f.kind = "notifs" /\ f.pc = "wait" BY FreshServes, FreshFacts
  <2> HIDE DEF f
  <2>2. Sits(y.trans, Depth(y) + 1, f) BY <1>2, <2>1 DEF Sits, Running, Good
  <2> QED BY <1>2, <1>3, <1>4, <2>1, <2>2, PushGood DEF f
<1>5. CASE y.trans = 0 /\ o.x = Push(y, Frame("notifs", "loop", await))
  <2> DEFINE f == Frame("notifs", "loop", await)
  <2>1. Serves(y, f) /\ f.kind = "notifs" /\ f.pc = "loop" BY FreshServes, FreshFacts
  <2> HIDE DEF f
  <2>2. Sits(y.trans, Depth(y) + 1, f) BY <1>5, <2>1 DEF Sits, Running
  <2> QED BY <1>2, <1>3, <1>5, <2>1, <2>2, PushGood DEF f
<1> QED BY <1>1, <1>2, <1>4, <1>5

\* A call that fails may be reported.
LEMMA ReportedGood ==
  ASSUME NEW x, Good(x), Calls(x), NEW o, Gets(x, "no", o)
  PROVE  Good(o.x) /\ (o.exc # "ok" => Good(process_notice(o.x)))
<1>1. Good(o.x) BY GetsGood
<1>2. ASSUME o.exc # "ok" PROVE Good(process_notice(o.x))
  <2>1. Same(x, o.x) BY <1>2, GetsNothing
  <2>2. Calls(o.x) BY <2>1, SameCalls
  <2> QED BY <1>1, <2>2, NoticeGood DEF Calls, Running
<1> QED BY <1>1, <1>2

----------------------------------------------------------------------------
(* Transactions, and calls that end.                                       *)

\* y is x but for its transaction, which k tells the place of.
Registers(x, y, k) ==
  \/ y = [x EXCEPT !.trans = k] /\ x.over \in BOOLEAN
  \/ y = [x EXCEPT !.trans = k, !.over = FALSE]
  \/ y = [x EXCEPT !.over = TRUE] /\ x.trans = k

\* Registering and unregistering a transaction, and a commit() that fails.
LEMMA TransParts ==
  ASSUME NEW x, IsConn(x), NEW k, NEW y, Registers(x, y, k)
  PROVE  /\ IsConn(y) /\ y.trans = k /\ y.over \in BOOLEAN /\ y.stack = x.stack /\ y.recs = x.recs
         /\ y.handlers = x.handlers /\ y.homed = x.homed /\ y.inbox = x.inbox /\ y.obj = x.obj
         /\ Depth(y) = Depth(x) /\ Top(y) = Top(x)
<1> DEFINE Kept == /\ y.stack = x.stack /\ y.recs = x.recs /\ y.handlers = x.handlers
                   /\ y.homed = x.homed /\ y.inbox = x.inbox /\ y.obj = x.obj
<1>1. CASE y = [x EXCEPT !.trans = k] /\ x.over \in BOOLEAN
  <2>1. IsConn(y) BY <1>1 DEF IsConn
  <2>2. y.trans = k /\ y.over \in BOOLEAN /\ Kept BY <1>1 DEF IsConn
  <2> QED BY <2>1, <2>2 DEF Depth, Top
<1>2. CASE y = [x EXCEPT !.trans = k, !.over = FALSE]
  <2>1. IsConn(y) BY <1>2 DEF IsConn
  <2>2. y.trans = k /\ y.over \in BOOLEAN /\ Kept BY <1>2 DEF IsConn
  <2> QED BY <2>1, <2>2 DEF Depth, Top
<1>3. CASE y = [x EXCEPT !.over = TRUE] /\ x.trans = k
  <2>1. IsConn(y) BY <1>3 DEF IsConn
  <2>2. y.trans = k /\ y.over \in BOOLEAN /\ Kept BY <1>3 DEF IsConn
  <2> QED BY <2>1, <2>2 DEF Depth, Top
<1> QED BY <1>1, <1>2, <1>3 DEF Registers

\* A transaction is opened where the client's code runs.
LEMMA RegisterGood ==
  ASSUME NEW x, Good(x), Calls(x), x.trans = 0, NEW y, y = [x EXCEPT !.trans = Depth(x) + 1]
  PROVE  Good(y) /\ Calls(y)
<1>1. /\ IsConn(y) /\ y.trans = Depth(x) + 1 /\ y.over \in BOOLEAN
      /\ y.stack = x.stack /\ y.recs = x.recs
      /\ y.handlers = x.handlers /\ y.homed = x.homed /\ y.inbox = x.inbox /\ y.obj = x.obj
      /\ Depth(y) = Depth(x) /\ Top(y) = Top(x)
  <2>1. IsConn(x) /\ x.over \in BOOLEAN BY DEF Good, Contents
  <2> DEFINE k == Depth(x) + 1
  <2>2. Registers(x, y, k) BY <2>1 DEF Registers
  <2>3. k = Depth(x) + 1 OBVIOUS
  <2> HIDE DEF k
  <2> QED BY <2>1, <2>2, <2>3, TransParts
<1>2. Depth(x) \in Nat /\ DOMAIN x.stack = 1..Depth(x) /\ Depth(x) = Len(x.stack)
  BY StackFacts
<1>3. Contents(y) BY <1>1, <1>2 DEF Good, Contents
<1>4. \A f : Serves(x, f) => Serves(y, f) BY <1>1 DEF Serves
<1>5. ASSUME NEW i \in DOMAIN x.stack PROVE Running(x.stack[i])
  <2> DEFINE n == Depth(x)
  <2>1. n # 0 /\ n \in DOMAIN x.stack /\ i \in 1..n BY <1>2
  <2>2. Running(x.stack[n]) /\ x.stack[n].kind = "notifs" BY <2>1 DEF Calls, Top, Running
  <2>3. CASE i = n BY <2>2, <2>3
  <2>4. CASE i < n BY <2>1, <2>2, <2>4 DEF Good, Stacked
  <2> QED BY <1>2, <2>1, <2>3, <2>4
<1>6. ASSUME NEW i \in DOMAIN x.stack PROVE Sits(y.trans, i, x.stack[i])
  <2>1. x.stack[i].kind = "notifs" /\ x.stack[i].pc = "in" BY <1>5 DEF Running
  <2>2. y.trans > i BY <1>1, <1>2
  <2> QED BY <2>1, <2>2 DEF Sits
<1>7. y.trans <= Depth(y) + 1 BY <1>1, <1>2
<1> QED BY <1>1, <1>3, <1>4, <1>6, <1>7 DEF Good, Calls

\* It is ended.
LEMMA UnregisterGood ==
  ASSUME NEW x, Good(x)
  PROVE  Good(Unregister(x)) /\ (Calls(x) => Calls(Unregister(x)))
<1> DEFINE y == Unregister(x)
<1>0. y = [x EXCEPT !.trans = 0, !.over = FALSE] BY DEF Unregister
<1> HIDE DEF y
<1>1. /\ IsConn(y) /\ y.trans = 0 /\ y.over \in BOOLEAN
      /\ y.stack = x.stack /\ y.recs = x.recs
      /\ y.handlers = x.handlers /\ y.homed = x.homed /\ y.inbox = x.inbox /\ y.obj = x.obj
      /\ Depth(y) = Depth(x) /\ Top(y) = Top(x)
  <2>1. IsConn(x) /\ Registers(x, y, 0) BY <1>0 DEF Good, Registers
  <2> QED BY <2>1, TransParts
<1>2. Depth(x) \in Nat /\ DOMAIN x.stack = 1..Depth(x) BY StackFacts
<1>3. Contents(y) BY <1>1 DEF Good, Contents
<1>4. \A f : Serves(x, f) => Serves(y, f) BY <1>1 DEF Serves
<1>5. ASSUME NEW i \in DOMAIN x.stack PROVE Sits(y.trans, i, x.stack[i])
  <2>1. i \in Nat /\ Sits(x.trans, i, x.stack[i]) BY <1>2 DEF Good
  <2> QED BY <1>1, <2>1 DEF Sits
<1>6. y.trans <= Depth(y) + 1 BY <1>1, <1>2
<1>7. Good(y) BY <1>1, <1>3, <1>4, <1>5, <1>6 DEF Good
<1>8. Calls(x) => Calls(y) BY <1>1 DEF Calls
<1> QED BY <1>7, <1>8 DEF y

\* A transaction's constructor, commit() and destructor.
LEMMA BeginGood ==
  ASSUME NEW x, Good(x), Calls(x), NEW o \in Begin(x)
  PROVE  Good(o.x)
<1> DEFINE Rest(y) == {IF p.exc = "ok" THEN p ELSE Out(Unregister(p.x), p.exc) :
                       p \in Then(get_notifs(y, "no"), Exec)}
<1>1. o \in Then(Register(x), Rest) BY DEF Begin
<1>2. PICK q \in Register(x) : o \in IF q.exc = "ok" THEN Rest(q.x) ELSE {q}
  BY <1>1 DEF Then
<1>3. CASE x.trans # 0
  <2>1. q = Out(x, "usage") BY <1>3 DEF Register
  <2>2. q.exc # "ok" /\ q.x = x BY <2>1, OutState
  <2> QED BY <1>2, <2>2
<1>4. CASE x.trans = 0
  <2> DEFINE y == [x EXCEPT !.trans = Depth(x) + 1]
  <2>1. q = Ok(y) BY <1>4 DEF Register
  <2>2. q.exc = "ok" /\ q.x = y BY <2>1, OutState
  <2>3. Good(y) /\ Calls(y) BY <1>4, RegisterGood
  <2>4. y.trans # 0
    <3>1. y.trans = Depth(x) + 1 BY DEF Good, IsConn
    <3> QED BY <3>1, StackFacts
  <2> HIDE DEF y
  <2>5. PICK p \in Then(get_notifs(y, "no"), Exec) :
          o = IF p.exc = "ok" THEN p ELSE Out(Unregister(p.x), p.exc)
    BY <1>2, <2>2
  <2>6. PICK g \in get_notifs(y, "no") : p \in IF g.exc = "ok" THEN Exec(g.x) ELSE {g}
    BY <2>5 DEF Then
  <2>7. Same(y, g.x)
    <3>1. Gets(y, "no", g) BY <2>3, GetNotifsGets DEF Good
    <3> QED BY <2>4, <3>1, GetsNothing
  <2>8. Same(y, p.x)
    <3>1. CASE p = g BY <2>7, <3>1
    <3>2. CASE p \in Exec(g.x)
      <4>1. IsConn(g.x) /\ g.x.trans # 0 BY <2>4, <2>7 DEF Same
      <4>2. Gets(g.x, "no", p) BY <3>2, <4>1, CallsGet
      <4>3. Same(g.x, p.x) BY <4>1, <4>2, GetsNothing
      <4> QED BY <2>7, <4>3, SameTwice
    <3> QED BY <2>6, <3>1, <3>2
  <2>9. Good(p.x) /\ Good(Unregister(p.x)) BY <2>3, <2>8, SameGood, UnregisterGood
  <2> QED BY <2>5, <2>9, OutState
<1> QED BY <1>3, <1>4

\* A transaction whose commit() has failed stays where it is.
LEMMA FailedGood ==
  ASSUME NEW x, Good(x), Calls(x), NEW y, y = [x EXCEPT !.over = TRUE]
  PROVE  Good(y) /\ Calls(y) /\ y.trans = x.trans /\ Depth(y) = Depth(x)
<1>1. IsConn(x) BY DEF Good
<1>2. /\ IsConn(y) /\ y.trans = x.trans /\ y.over \in BOOLEAN /\ y.stack = x.stack
      /\ y.recs = x.recs /\ y.handlers = x.handlers /\ y.homed = x.homed
      /\ y.inbox = x.inbox /\ y.obj = x.obj /\ Depth(y) = Depth(x) /\ Top(y) = Top(x)
  <2>1. Registers(x, y, x.trans) BY DEF Registers
  <2> QED BY <1>1, <2>1, TransParts
<1>3. Contents(y) BY <1>2 DEF Good, Contents
<1>4. \A f : Serves(x, f) => Serves(y, f) BY <1>2 DEF Serves
<1>5. Good(y) BY <1>2, <1>3, <1>4 DEF Good
<1>6. Calls(y) BY <1>2 DEF Calls
<1> QED BY <1>2, <1>5, <1>6

\* commit() ends the transaction, or it fails; if that leaves it in doubt, two
\* notices follow.
LEMMA CommitGood ==
  ASSUME NEW x, Good(x), Calls(x), x.trans = Depth(x) + 1, NEW o \in Commit(x)
  PROVE  Good(o.x)
<1> DEFINE f == Frame("commit", "caught", "no")
           Failed(y) == process_notice(Push([y EXCEPT !.over = TRUE], f))
<1>1. CASE o = Out(x, "broken") \/ o = Out(x, "usage") BY <1>1, OutState
<1>2. CASE o = Out([x EXCEPT !.over = TRUE], "sql")
  <2>1. o.x = [x EXCEPT !.over = TRUE] BY <1>2, OutState
  <2> QED BY <2>1, FailedGood
<1>3. ASSUME NEW p \in Exec(x), o = Ok(Unregister(p.x)) \/ o = Out(Failed(p.x), "in_doubt")
      PROVE  Good(o.x)
  <2>1. o.x = Unregister(p.x) \/ o.x = Failed(p.x) BY <1>3, OutState
  <2>2. Gets(x, "no", p) BY CallsGet DEF Good
  <2>3. x.trans # 0 BY StackFacts
  <2>4. Same(x, p.x) BY <2>2, <2>3, GetsNothing
  <2>5. /\ Good(p.x) /\ Calls(p.x) /\ p.x.trans = Depth(p.x) + 1
        /\ Good(Unregister(p.x))
    BY <2>4, SameGood, SameCalls, UnregisterGood DEF Same
  <2> DEFINE y == [p.x EXCEPT !.over = TRUE]
             z == Push(y, f)
  <2>6. Good(y) /\ Calls(y) /\ y.trans = Depth(y) + 1 BY <2>5, FailedGood
  <2> HIDE DEF y
  <2>7. Serves(y, f) /\ f.kind = "commit" /\ f.pc = "caught" BY FreshServes, FreshFacts
  <2> HIDE DEF f
  <2>8. Sits(y.trans, Depth(y) + 1, f) BY <2>6, <2>7, StackFacts DEF Sits, Running
  <2>9. Good(z) /\ z.obj = "live" /\ Top(z) = f
    <3>1. y.obj = "live" /\ (Depth(y) = 0 \/ Top(y).pc = "in")
      BY <2>6 DEF Calls, Running
    <3>2. Good(z) BY <2>6, <2>7, <2>8, <3>1, PushGood
    <3>3. z.obj = "live" /\ Top(z) = f BY <2>6, <2>7, <3>1, PushTop
    <3> QED BY <3>2, <3>3
  <2> HIDE DEF z
  <2>10. Good(process_notice(z)) BY <2>7, <2>9, NoticeGood
  <2> QED BY <2>1, <2>5, <2>10 DEF y, z, f
<1> QED BY <1>1, <1>2, <1>3 DEF Commit

\* End() unregisters before its ROLLBACK, which delivers what has come in.
LEMMA AbandonGood ==
  ASSUME NEW x, Good(x), Calls(x), NEW o \in Abandon(x)
  PROVE  Good(o.x)
<1> DEFINE y == Unregister(x)
<1>1. Good(y) /\ Calls(y) BY UnregisterGood
<1>2. o = Ok(y) \/ \E p \in Exec(y) : o = Ok(p.x) BY DEF Abandon
<1> HIDE DEF y
<1>3. CASE o = Ok(y) BY <1>1, <1>3, OutState
<1>4. ASSUME NEW p \in Exec(y), o = Ok(p.x) PROVE Good(o.x)
  <2>1. Gets(y, "no", p) BY <1>1, CallsGet DEF Good
  <2>2. Good(p.x) BY <1>1, <2>1, ReportedGood
  <2> QED BY <1>4, <2>2, OutState
<1> QED BY <1>2, <1>3, <1>4

\* The first notice of doubt is done, and the second one begins.
LEMMA PoppedGood ==
  ASSUME NEW x, Good(x), Depth(x) # 0, x.trans <= Depth(x)
  PROVE  Good(process_notice(Pop(x)))
<1> DEFINE y == Pop(x)
           n == Depth(x)
           q == Front(x.stack)
<1>1. n \in Nat /\ DOMAIN x.stack = 1..n /\ n = Len(x.stack) /\ x.obj = "live"
  BY StackFacts
<1>2. Good(y) /\ Depth(y) = n - 1 BY PopGood
<1>3. y = [x EXCEPT !.stack = q] BY DEF Pop
<1>4. \A i \in 1..n - 1 : q[i] = x.stack[i] BY <1>1, FrontFacts DEF Good
<1>5. Stacked(x.stack) BY DEF Good
<1> HIDE DEF y, q
<1>6. y.stack = q /\ y.obj = "live" BY <1>1, <1>3 DEF Good, IsConn
<1>7. ASSUME n - 1 # 0 PROVE Top(y).kind = "close" \/ Top(y).pc \in {"in", "caught"}
  <2> DEFINE m == n - 1
  <2>0. n \in Nat /\ n - 1 # 0 /\ n # 0 BY <1>1, <1>7
  <2> HIDE DEF n
  <2>4. m \in 1..n - 1 /\ m \in 1..n /\ m < n BY <2>0
  <2>1. m \in 1..n - 1 /\ m \in DOMAIN x.stack /\ m < Len(x.stack) BY <1>1, <2>4
  <2>2. Top(y) = x.stack[m] BY <1>2, <1>4, <1>6, <2>1 DEF Top
  <2> HIDE DEF m
  <2> QED BY <1>5, <2>1, <2>2 DEF Stacked
<1>8. Good(process_notice(y)) BY <1>2, <1>6, <1>7, NoticeGood
<1> QED BY <1>8 DEF y

\* A delivery ends where the client's code runs.
LEMMA PopCalls ==
  ASSUME NEW x, Good(x), Depth(x) # 0, Top(x).kind = "notifs", x.trans <= Depth(x)
  PROVE  Good(Pop(x)) /\ Calls(Pop(x))
<1> DEFINE y == Pop(x)
           n == Depth(x)
           q == Front(x.stack)
<1>1. n \in Nat /\ DOMAIN x.stack = 1..n /\ n = Len(x.stack) /\ x.obj = "live"
  BY StackFacts
<1>2. Good(y) /\ Depth(y) = n - 1 BY PopGood
<1>3. y = [x EXCEPT !.stack = q] BY DEF Pop
<1>4. \A i \in 1..n - 1 : q[i] = x.stack[i] BY <1>1, FrontFacts DEF Good
<1> HIDE DEF y, q
<1>5. y.stack = q /\ y.obj = "live" BY <1>1, <1>3 DEF Good, IsConn
<1>6. ASSUME n - 1 # 0 PROVE Running(Top(y))
  <2> DEFINE m == n - 1
  <2>0. n \in Nat /\ n # 0 /\ n - 1 # 0 BY <1>1, <1>6
  <2>1. m \in 1..n - 1 /\ m \in DOMAIN x.stack /\ n \in DOMAIN x.stack /\ m < n
    <3> HIDE DEF n
    <3>1. m \in 1..n - 1 /\ m < n BY <2>0
    <3>2. m \in 1..n /\ n \in 1..n BY <2>0
    <3> QED BY <1>1, <3>1, <3>2
  <2>2. x.stack[n].kind = "notifs" BY DEF Top
  <2>3. Running(x.stack[m]) BY <2>1, <2>2 DEF Good, Stacked
  <2>4. Top(y) = q[m] BY <1>2, <1>5 DEF Top
  <2>5. q[m] = x.stack[m] BY <1>4, <2>1
  <2> QED BY <2>3, <2>4, <2>5
<1>7. Calls(y) BY <1>2, <1>5, <1>6 DEF Calls
<1> QED BY <1>2, <1>7 DEF y

\* No notification: await_notification() waits, and get_notifs() is done.
LEMMA GotNoneGood ==
  ASSUME NEW x, Good(x), Calls(x), NEW await \in {"no", "block", "timed"}
  PROVE  Good(GotNone(x, await))
<1> DEFINE o == Ok(GotNone(x, await))
           z == Push(x, Frame("notifs", "wait", await))
<1>1. o.exc = "ok" /\ o.x = GotNone(x, await) BY OutState
<1>2. Same(x, x) BY SameSelf DEF Good
<1>3. o.x = x \/ (await # "no" /\ o.x = z) BY <1>1 DEF GotNone
<1> HIDE DEF o
<1>4. Gets(x, await, o) BY <1>1, <1>2, <1>3 DEF Gets
<1>5. Good(o.x) BY <1>4, GetsGood
<1> QED BY <1>1, <1>5

\* The wait is over.
LEMMA WaitedGood ==
  ASSUME NEW x, Good(x), Depth(x) # 0, Top(x).pc = "wait", NEW o \in Waited(x)
  PROVE  Good(o.x)
<1>1. Serves(x, Top(x)) /\ Sits(x.trans, Depth(x), Top(x)) BY StackFacts
<1>2. Top(x).kind = "notifs"
  <2>1. Top(x).kind # "close" BY <1>1 DEF Serves
  <2>2. Top(x).kind \notin {"notice", "commit"} BY <1>1 DEF Serves, Reports
  <2> QED BY <1>1, <2>1, <2>2, FrameParts DEF Serves, Parts
<1>3. x.trans <= Depth(x) BY <1>1 DEF Sits
<1> DEFINE y == Pop(x)
<1>4. Good(y) /\ Calls(y) BY <1>2, <1>3, PopCalls
<1>5. o = Out(y, "broken") \/ o \in get_notifs(y, "no") BY DEF Waited
<1> HIDE DEF y
<1>6. CASE o = Out(y, "broken") BY <1>4, <1>6, OutState
<1>7. CASE o \in get_notifs(y, "no")
  <2>1. Gets(y, "no", o) BY <1>4, <1>7, GetNotifsGets DEF Good
  <2> QED BY <1>4, <2>1, GetsGood
<1> QED BY <1>5, <1>6, <1>7

----------------------------------------------------------------------------
(* Receivers and handlers come and go.                                     *)

\* An object that no call has to reach any more.
LEMMA WithoutParts ==
  ASSUME NEW f \in FrameType, NEW e, NEW g, g = Without(f, e)
  PROVE  /\ g \in FrameType /\ g.kind = f.kind /\ g.pc = f.pc /\ g.msg = f.msg /\ g.at = f.at
         /\ g.stop = f.stop /\ g.called = f.called /\ g.due = f.due \ {e}
         /\ e \notin f.due => g = f
<1>1. IsFrame(f) /\ Parts(f) BY FrameParts
<1> DEFINE d == f.due \ {e}
<1>2. g = [f EXCEPT !.due = d] BY <1>1 DEF Without, IsFrame
<1>3. d \in (SUBSET Receiver) \cup (SUBSET Handler) BY <1>1 DEF Parts
<1>4. e \notin f.due => d = f.due OBVIOUS
<1>5. d = f.due \ {e} OBVIOUS
<1> HIDE DEF d
<1>6. /\ IsFrame(g) /\ g.kind = f.kind /\ g.pc = f.pc /\ g.await = f.await /\ g.msg = f.msg
      /\ g.at = f.at /\ g.stop = f.stop /\ g.called = f.called /\ g.due = d /\ g.ops = f.ops
  BY <1>1, <1>2 DEF IsFrame
<1>7. Parts(g) BY <1>1, <1>3, <1>6 DEF Parts
<1>8. e \notin f.due => g = f BY <1>1, <1>4, <1>6 DEF IsFrame
<1> QED BY <1>5, <1>6, <1>7, <1>8, FrameParts

\* y is x when no call has to reach e any more.
Forgotten(x, y, e) ==
  /\ IsConn(y) /\ y.recs = x.recs /\ y.handlers = x.handlers /\ y.homed = x.homed
  /\ y.inbox = x.inbox /\ y.obj = x.obj /\ y.trans = x.trans /\ y.over = x.over
  /\ y.stack \in Seq(FrameType) /\ Len(y.stack) = Len(x.stack)
  /\ \A i \in DOMAIN x.stack : y.stack[i] = Without(x.stack[i], e)

\* That is what the destructor of a receiver or handler comes to.
LEMMA ForgetParts ==
  ASSUME NEW x, IsConn(x), x.stack \in Seq(FrameType), NEW e
  PROVE  Forgotten(x, Forget(x, e), e)
<1> DEFINE q == [i \in DOMAIN x.stack |-> Without(x.stack[i], e)]
           n == Len(x.stack)
           y == Forget(x, e)
<1>1. n \in Nat /\ DOMAIN x.stack = 1..n /\ \A i \in 1..n : x.stack[i] \in FrameType
  BY SeqFacts
<1>2. y = [x EXCEPT !.stack = q] BY DEF Forget
<1>3. \A i \in DOMAIN x.stack : q[i] = Without(x.stack[i], e) OBVIOUS
<1>4. q \in [1..n -> FrameType]
  <2>1. \A i \in 1..n : Without(x.stack[i], e) \in FrameType BY <1>1, WithoutParts
  <2> QED BY <1>1, <2>1
<1>5. q \in Seq(FrameType) /\ Len(q) = n
  <2> HIDE DEF q, n
  <2>1. q \in Seq(FrameType) BY <1>1, <1>4, SeqDef
  <2>2. DOMAIN q = 1..n BY <1>4
  <2>3. DOMAIN q = 1..Len(q) /\ Len(q) \in Nat BY <2>1, SeqFacts
  <2> QED BY <1>1, <2>1, <2>2, <2>3
<1> HIDE DEF q, y
<1>6. /\ IsConn(y) /\ y.recs = x.recs /\ y.handlers = x.handlers /\ y.homed = x.homed
      /\ y.inbox = x.inbox /\ y.obj = x.obj /\ y.trans = x.trans /\ y.over = x.over /\ y.stack = q
  BY <1>2 DEF IsConn
<1> QED BY <1>3, <1>5, <1>6 DEF Forgotten, y

\* A delivery and a message in progress.
Delivery(f) == f.kind = "notifs" /\ f.msg # 0

\* A call among other receivers or handlers.
LEMMA ServesOther ==
  ASSUME NEW x, NEW y, NEW f, Serves(x, f),
         Delivery(f) => Delivers(y.recs, f), f.kind = "notice" => Reports(y.handlers, f)
  PROVE  Serves(y, f)
BY DEF Serves, Delivery

\* add_receiver() outside what is left of any delivery.
LEMMA InsertReceiverGood ==
  ASSUME NEW x, Good(x), NEW r \in Receiver, r \notin Range(x.recs), NEW y,
         y = [x EXCEPT !.recs = Insert(@, r)],
         \A i \in DOMAIN x.stack : Delivery(x.stack[i]) =>
           Position(x.recs, lower_bound(x.recs, Channel[r]))
             \notin Position(x.recs, x.stack[i].at) + 1 .. Position(x.recs, x.stack[i].stop)
  PROVE  Good(y)
<1> DEFINE s == x.recs
           t == Insert(x.recs, r)
           k == Position(x.recs, lower_bound(x.recs, Channel[r]))
<1>0. IsConn(x) /\ Lists(s, Receiver) /\ Sorted(s) BY DEF Good, Contents
<1>1. Inserted(s, t, Receiver, k, r) /\ Sorted(t) BY <1>0, InsertReceiverFacts
<1>2. k \in Nat
  <2>1. Channel[r] \in Nat BY ObserversAssumption
  <2>2. lower_bound(s, Channel[r]) \in Within(s) BY <1>0, <2>1, LowerBoundFacts
  <2>3. Len(s) \in Nat BY <1>0, SeqFacts DEF Lists
  <2> QED BY <1>0, <2>2, <2>3, PositionFacts
<1>3. y = [x EXCEPT !.recs = t] BY <1>0 DEF IsConn
<1>4. \A i \in DOMAIN x.stack : Delivery(x.stack[i]) =>
        k \notin Position(s, x.stack[i].at) + 1 .. Position(s, x.stack[i].stop)
  OBVIOUS
<1> HIDE DEF t, k
<1>5. /\ IsConn(y) /\ y.recs = t /\ y.handlers = x.handlers /\ y.homed = x.homed
      /\ y.inbox = x.inbox /\ y.obj = x.obj /\ y.trans = x.trans /\ y.over = x.over
      /\ y.stack = x.stack
  BY <1>0, <1>3 DEF IsConn
<1>6. /\ Lists(t, Receiver) /\ SameOrder(s, t) /\ Range(t) = Range(s) \cup {r}
      /\ \A a \in Within(s) : a \in Within(t) /\ (Before(t, r, a) <=> k <= Position(s, a))
  BY <1>1 DEF Inserted, Within
<1>7. Contents(y) BY <1>1, <1>5, <1>6 DEF Good, Contents
<1>8. ASSUME NEW i \in DOMAIN x.stack PROVE Serves(y, x.stack[i])
  <2> DEFINE f == x.stack[i]
  <2>1. Serves(x, f) BY DEF Good
  <2>2. f.kind = "notice" => Reports(y.handlers, f) BY <1>5, <2>1 DEF Serves
  <2>3. ASSUME Delivery(f) PROVE Delivers(t, f)
    <3>1. Delivers(s, f) BY <2>1, <2>3 DEF Serves, Delivery
    <3>2. f.at \in Within(s) /\ f.stop \in Within(s) /\ f.due \subseteq Range(s)
      BY <3>1 DEF Delivers
    <3>3. Trimmed(f, f, t) BY <1>6, <3>2 DEF Trimmed
    <3>4. Position(s, f.at) \in Nat /\ Position(s, f.stop) \in Nat
      <4>1. Len(s) \in Nat BY <1>0, SeqFacts DEF Lists
      <4> QED BY <1>0, <3>2, <4>1, PositionFacts
    <3>5. k <= Position(s, f.at) \/ ~(k <= Position(s, f.stop))
      BY <1>2, <1>4, <2>3, <3>4
    <3>6. Before(t, r, f.at) \/ ~Before(t, r, f.stop) BY <1>6, <3>2, <3>5
    <3>7. \A q \in Range(t) \ Range(s) : Before(t, q, f.at) \/ ~Before(t, q, f.stop)
      BY <1>6, <3>6
    <3>8. f.at \in Within(t) /\ f.stop \in Within(t) BY <1>6, <3>2
    <3> HIDE DEF f, s
    <3> QED BY <1>0, <1>6, <3>1, <3>3, <3>7, <3>8, DeliversKept
  <2> QED BY <1>5, <2>1, <2>2, <2>3, ServesOther
<1> QED BY <1>5, <1>7, <1>8, Recast DEF Good

\* remove_receiver() of one that no iterator points at.
LEMMA EraseReceiverGood ==
  ASSUME NEW x, Good(x), NEW r \in Range(x.recs), NEW z, z = [x EXCEPT !.recs = Erase(@, r)],
         NEW y, y = Forget(z, r),
         \A i \in DOMAIN x.stack : Delivery(x.stack[i]) =>
           r # x.stack[i].at /\ r # x.stack[i].stop
  PROVE  Good(y)
<1> DEFINE s == x.recs
           t == Erase(x.recs, r)
<1>0. IsConn(x) /\ Lists(s, Receiver) /\ Sorted(s) /\ Lists(x.handlers, Handler)
  BY DEF Good, Contents
<1>1. Lists(t, Receiver) /\ Range(t) = Range(s) \ {r} /\ SameOrder(s, t)
  BY <1>0, EraseFacts
<1>2. Sorted(t) BY <1>0, <1>1, SortedErased
<1>3. z = [x EXCEPT !.recs = t] BY <1>0 DEF IsConn
<1> HIDE DEF t
<1>4. /\ IsConn(z) /\ z.recs = t /\ z.handlers = x.handlers /\ z.homed = x.homed
      /\ z.inbox = x.inbox /\ z.obj = x.obj /\ z.trans = x.trans /\ z.over = x.over
      /\ z.stack = x.stack
  BY <1>0, <1>3 DEF IsConn
<1>5. /\ IsConn(y) /\ y.recs = t /\ y.handlers = x.handlers /\ y.homed = x.homed
      /\ y.inbox = x.inbox /\ y.obj = x.obj /\ y.trans = x.trans /\ y.over = x.over
      /\ y.stack \in Seq(FrameType) /\ Len(y.stack) = Len(x.stack)
      /\ \A i \in DOMAIN x.stack : y.stack[i] = Without(x.stack[i], r)
  <2>1. IsConn(z) /\ z.stack \in Seq(FrameType) BY <1>4 DEF Good
  <2> HIDE DEF s
  <2>2. Forgotten(z, y, r) BY <2>1, ForgetParts
  <2> QED BY <1>4, <2>2 DEF Forgotten
<1>6. Contents(y) BY <1>1, <1>2, <1>5 DEF Good, Contents
<1>7. r \in Receiver BY <1>0, OrderFacts
<1>8. ASSUME NEW i \in DOMAIN x.stack
      PROVE  /\ Serves(y, y.stack[i]) /\ y.stack[i].kind = x.stack[i].kind
             /\ y.stack[i].pc = x.stack[i].pc
  <2> DEFINE f == x.stack[i]
             g == y.stack[i]
  <2>1. Serves(x, f) /\ f \in FrameType BY DEF Good, Serves
  <2>2. g = Without(f, r) BY <1>5
  <2> HIDE DEF g, f
  <2>3. /\ g \in FrameType /\ g.kind = f.kind /\ g.pc = f.pc /\ g.msg = f.msg /\ g.at = f.at
        /\ g.stop = f.stop /\ g.called = f.called /\ g.due = f.due \ {r}
        /\ r \notin f.due => g = f
    BY <2>1, <2>2, WithoutParts
  <2>0. y.recs = t /\ y.handlers = x.handlers BY <1>5
  <2>4. ASSUME Delivery(f) PROVE Serves(y, g)
    <3>1. Delivers(s, f) BY <2>1, <2>4 DEF Serves, Delivery
    <3>2. f.at \in Within(s) /\ f.stop \in Within(s) /\ f.due \subseteq Range(s)
      BY <3>1 DEF Delivers
    <3>3. r # f.at /\ r # f.stop BY <2>4 DEF f
    <3>4. f.at \in Within(t) /\ f.stop \in Within(t) BY <1>1, <3>2, <3>3 DEF Within
    <3>5. Trimmed(f, g, t) BY <1>1, <2>3, <3>2 DEF Trimmed
    <3>6. \A q \in Range(t) \ Range(s) : Before(t, q, f.at) \/ ~Before(t, q, f.stop)
      BY <1>1
    <3> HIDE DEF s
    <3>7. Delivers(t, g) BY <1>0, <1>1, <3>1, <3>4, <3>5, <3>6, DeliversKept
    <3> QED BY <2>0, <2>3, <2>4, <3>7 DEF Serves, Delivery
  <2>5. ASSUME ~Delivery(f) PROVE Serves(y, g)
    <3>1. CASE f.kind = "notice"
      <4>1. f.due \subseteq Range(x.handlers) BY <2>1, <3>1 DEF Serves, Reports
      <4>2. \A h \in Range(x.handlers) : h \in Handler BY <1>0, OrderFacts
      <4>3. g = f BY <1>7, <2>3, <4>1, <4>2, ObserversAssumption
      <4>4. Serves(y, f) BY <2>0, <2>1, <2>5, <3>1, ServesOther DEF Serves
      <4> QED BY <4>3, <4>4
    <3>2. CASE f.kind = "notifs"
      <4>1. f.due = {} BY <2>1, <2>5, <3>2 DEF Serves, Delivery
      <4>2. g = f BY <2>3, <4>1
      <4>3. Serves(y, f) BY <2>1, <2>5, <3>2, ServesOther
      <4> QED BY <4>2, <4>3
    <3>3. CASE f.kind \in {"close", "commit"} BY <2>1, <2>3, <3>3 DEF Serves
    <3>4. f.kind \in {"notifs", "notice", "commit", "close"} BY <2>1, FrameParts DEF Parts
    <3> QED BY <3>1, <3>2, <3>3, <3>4
  <2> QED BY <2>3, <2>4, <2>5 DEF f, g
<1> QED BY <1>5, <1>6, <1>8, Recast

\* What another iterator comes before is not at the first place.
LEMMA NotFirst ==
  ASSUME NEW S, NEW s, Lists(s, S), NEW a \in Within(s), NEW b \in Within(s), Before(s, b, a)
  PROVE  Position(s, a) # 1
<1>1. Len(s) \in Nat BY SeqFacts DEF Lists
<1>2. Position(s, a) \in 1..Len(s) + 1 /\ Position(s, b) \in 1..Len(s) + 1
  BY PositionFacts
<1> QED BY <1>1, <1>2 DEF Before

\* register_errorhandler() when no message has yet to reach its first handler.
LEMMA AppendHandlerGood ==
  ASSUME NEW x, Good(x), x.obj = "live", NEW h \in Handler, h \notin Range(x.handlers),
         \A i \in DOMAIN x.stack : x.stack[i].kind = "notice" => x.stack[i].at # End
  PROVE  Good(register_errorhandler(x, h))
<1> DEFINE s == x.handlers
           t == Append(x.handlers, h)
           m == x.homed \cup {h}
           k == Len(s) + 1
           y == register_errorhandler(x, h)
<1>0. IsConn(x) /\ Lists(s, Handler) /\ Range(s) = x.homed BY DEF Good, Contents
<1>1. Inserted(s, t, Handler, k, h) BY <1>0, AppendFacts
<1>2. Len(s) \in Nat BY <1>0, SeqFacts DEF Lists
<1>3. y = [x EXCEPT !.handlers = t, !.homed = m] BY <1>0 DEF register_errorhandler, IsConn
<1>4. m = Range(s) \cup {h} BY <1>0
<1> HIDE DEF t, m, y
<1>5. /\ IsConn(y) /\ y.recs = x.recs /\ y.handlers = t /\ y.homed = m
      /\ y.inbox = x.inbox /\ y.obj = x.obj /\ y.trans = x.trans /\ y.over = x.over
      /\ y.stack = x.stack
  BY <1>0, <1>3 DEF IsConn
<1>6. /\ Lists(t, Handler) /\ SameOrder(s, t) /\ Range(t) = Range(s) \cup {h}
      /\ \A a \in Within(s) : a \in Within(t) /\ (Before(t, h, a) <=> k <= Position(s, a))
  BY <1>1 DEF Inserted, Within
<1>7. Contents(y) BY <1>4, <1>5, <1>6 DEF Good, Contents
<1>8. ASSUME NEW i \in DOMAIN x.stack PROVE Serves(y, x.stack[i])
  <2> DEFINE f == x.stack[i]
  <2>1. Serves(x, f) BY DEF Good
  <2>2. Delivery(f) => Delivers(y.recs, f) BY <1>5, <2>1 DEF Serves, Delivery
  <2>3. ASSUME f.kind = "notice" PROVE Reports(t, f)
    <3>1. Reports(s, f) BY <2>1, <2>3 DEF Serves
    <3>2. f.at \in Within(s) /\ f.stop \in Within(s) /\ f.due \subseteq Range(s)
      BY <3>1 DEF Reports
    <3>3. Trimmed(f, f, t) BY <1>6, <3>2 DEF Trimmed
    <3>4. f.at # End BY <2>3
    <3>5. f.at \in Range(s) BY <3>2, <3>4 DEF Within
    <3>6. f.stop # End
      <4>1. ~Before(s, f.at, f.stop) BY <3>1, <3>5 DEF Reports
      <4>2. Before(s, f.at, End) BY <1>0, <3>5, OrderFacts
      <4> QED BY <4>1, <4>2
    <3>7. ASSUME NEW a \in Within(s), a # End PROVE ~Before(t, h, a)
      <4>1. a \in Range(s) BY <3>7 DEF Within
      <4>2. Position(s, a) \in 1..Len(s)
        <5>1. DOMAIN s = 1..Len(s) BY <1>0, SeqFacts DEF Lists
        <5> QED BY <1>0, <4>1, <5>1, PositionFacts
      <4>3. ~(k <= Position(s, a)) BY <1>2, <4>2
      <4> QED BY <1>6, <4>3
    <3>8. \A e \in Range(t) \ Range(s) : ~Before(t, e, f.at) /\ ~Before(t, e, f.stop)
      BY <1>6, <3>2, <3>4, <3>6, <3>7
    <3>9. f.at \in Within(t) /\ f.stop \in Within(t) BY <1>6, <3>2
    <3>10. ASSUME f.pc = "in" PROVE Pred(s, f.at) \in Range(t)
      <4>1. Before(s, f.stop, f.at) BY <3>1, <3>10 DEF Reports
      <4>2. Position(s, f.at) # 1 BY <1>0, <3>2, <4>1, NotFirst
      <4>3. Pred(s, f.at) \in Range(s) BY <1>0, <3>2, <4>2, PredFacts
      <4> QED BY <1>6, <4>3
    <3> HIDE DEF f, s
    <3> QED BY <1>0, <1>6, <3>1, <3>3, <3>8, <3>9, <3>10, ReportsKept
  <2> QED BY <1>5, <2>1, <2>2, <2>3, ServesOther
<1>9. y.stack \in Seq(FrameType) /\ Len(y.stack) = Len(x.stack) /\ y.stack = x.stack
  BY <1>5 DEF Good
<1>10. Good(y) BY <1>5, <1>7, <1>8, <1>9, Recast
<1> QED BY <1>10 DEF y

\* unregister() of a handler that does not run and that no iterator points at.
LEMMA EraseHandlerGood ==
  ASSUME NEW x, Good(x), NEW h \in x.homed,
         \A i \in DOMAIN x.stack : x.stack[i].kind = "notice" =>
           /\ h # x.stack[i].at /\ h # x.stack[i].stop
           /\ h # Pred(x.handlers, x.stack[i].at)
  PROVE  Good(unregister(x, h))
<1> DEFINE s == x.handlers
           t == Erase(x.handlers, h)
           m == x.homed \ {h}
           z == [x EXCEPT !.handlers = t, !.homed = m]
           y == Forget(z, h)
<1>0. /\ IsConn(x) /\ Lists(x.recs, Receiver) /\ Lists(s, Handler)
      /\ Range(s) = x.homed /\ h \in Range(s)
  BY DEF Good, Contents
<1>1. Lists(t, Handler) /\ Range(t) = Range(s) \ {h} /\ SameOrder(s, t)
  BY <1>0, EraseFacts
<1>2. unregister(x, h) = y BY <1>0 DEF unregister, IsConn
<1>3. m = Range(s) \ {h} BY <1>0
<1>4. z = [x EXCEPT !.handlers = t, !.homed = m] /\ y = Forget(z, h) OBVIOUS
<1> HIDE DEF t, m, y, z
<1>5. /\ IsConn(z) /\ z.recs = x.recs /\ z.handlers = t /\ z.homed = m
      /\ z.inbox = x.inbox /\ z.obj = x.obj /\ z.trans = x.trans /\ z.over = x.over
      /\ z.stack = x.stack
  BY <1>0, <1>4 DEF IsConn
<1>6. /\ IsConn(y) /\ y.recs = x.recs /\ y.handlers = t /\ y.homed = m
      /\ y.inbox = x.inbox /\ y.obj = x.obj /\ y.trans = x.trans /\ y.over = x.over
      /\ y.stack \in Seq(FrameType) /\ Len(y.stack) = Len(x.stack)
      /\ \A i \in DOMAIN x.stack : y.stack[i] = Without(x.stack[i], h)
  <2>1. IsConn(z) /\ z.stack \in Seq(FrameType) BY <1>5 DEF Good
  <2> HIDE DEF s
  <2>2. Forgotten(z, y, h) BY <1>4, <2>1, ForgetParts
  <2> QED BY <1>5, <2>2 DEF Forgotten
<1>7. Contents(y)
  <2>1. x.homed = {} => m = {} BY DEF m
  <2> QED BY <1>1, <1>3, <1>6, <2>1 DEF Good, Contents
<1>8. h \in Handler BY <1>0, OrderFacts
<1>9. ASSUME NEW i \in DOMAIN x.stack
      PROVE  /\ Serves(y, y.stack[i]) /\ y.stack[i].kind = x.stack[i].kind
             /\ y.stack[i].pc = x.stack[i].pc
  <2> DEFINE f == x.stack[i]
             g == y.stack[i]
  <2>1. Serves(x, f) /\ f \in FrameType BY DEF Good, Serves
  <2>2. g = Without(f, h) BY <1>6
  <2>0. y.recs = x.recs /\ y.handlers = t BY <1>6
  <2> HIDE DEF g, f
  <2>3. /\ g \in FrameType /\ g.kind = f.kind /\ g.pc = f.pc /\ g.msg = f.msg /\ g.at = f.at
        /\ g.stop = f.stop /\ g.called = f.called /\ g.due = f.due \ {h}
        /\ h \notin f.due => g = f
    BY <2>1, <2>2, WithoutParts
  <2>4. ASSUME f.kind = "notice" PROVE Serves(y, g)
    <3>1. Reports(s, f) /\ f.msg = 0 BY <2>1, <2>4 DEF Serves
    <3>2. f.at \in Within(s) /\ f.stop \in Within(s) /\ f.due \subseteq Range(s)
      BY <3>1 DEF Reports
    <3>3. h # f.at /\ h # f.stop /\ h # Pred(s, f.at) BY <2>4 DEF f
    <3>4. f.at \in Within(t) /\ f.stop \in Within(t) BY <1>1, <3>2, <3>3 DEF Within
    <3>5. Trimmed(f, g, t) BY <1>1, <2>3, <3>2 DEF Trimmed
    <3>6. \A e \in Range(t) \ Range(s) : ~Before(t, e, f.at) /\ ~Before(t, e, f.stop)
      BY <1>1
    <3>7. ASSUME f.pc = "in" PROVE Pred(s, f.at) \in Range(t)
      <4>1. Before(s, f.stop, f.at) BY <3>1, <3>7 DEF Reports
      <4>2. Position(s, f.at) # 1 BY <1>0, <3>2, <4>1, NotFirst
      <4>3. Pred(s, f.at) \in Range(s) BY <1>0, <3>2, <4>2, PredFacts
      <4> QED BY <1>1, <3>3, <4>3
    <3> HIDE DEF s
    <3>8. Reports(t, g) BY <1>0, <1>1, <3>1, <3>4, <3>5, <3>6, <3>7, ReportsKept
    <3> QED BY <2>0, <2>3, <2>4, <3>1, <3>8 DEF Serves
  <2>5. ASSUME f.kind # "notice" PROVE Serves(y, g)
    <3>1. CASE Delivery(f)
      <4>1. f.due \subseteq Range(x.recs) BY <2>1, <3>1 DEF Serves, Delivery, Delivers
      <4>2. \A r \in Range(x.recs) : r \in Receiver BY <1>0, OrderFacts
      <4>3. g = f BY <1>8, <2>3, <4>1, <4>2, ObserversAssumption
      <4>4. Serves(y, f) BY <2>0, <2>1, <2>5, <3>1, ServesOther DEF Serves, Delivery
      <4> QED BY <4>3, <4>4
    <3>2. CASE f.kind = "notifs" /\ ~Delivery(f)
      <4>1. f.due = {} BY <2>1, <3>2 DEF Serves, Delivery
      <4>2. g = f BY <2>3, <4>1
      <4>3. Serves(y, f) BY <2>1, <2>5, <3>2, ServesOther
      <4> QED BY <4>2, <4>3
    <3>3. CASE f.kind \in {"close", "commit"} BY <2>1, <2>3, <3>3 DEF Serves
    <3>4. f.kind \in {"notifs", "notice", "commit", "close"} BY <2>1, FrameParts DEF Parts
    <3> QED BY <2>5, <3>1, <3>2, <3>3, <3>4
  <2> QED BY <2>3, <2>4, <2>5 DEF f, g
<1>10. Good(y) BY <1>6, <1>7, <1>9, Recast
<1> QED BY <1>2, <1>10

----------------------------------------------------------------------------
(* The steps of the client's code.                                         *)

\* y is x after a callback has counted one more call.
Spent(x, y) ==
  /\ Good(y) /\ Depth(y) = Depth(x) /\ (Calls(x) => Calls(y))
  /\ y.recs = x.recs /\ y.handlers = x.handlers /\ y.homed = x.homed
  /\ y.trans = x.trans /\ y.obj = x.obj /\ DOMAIN y.stack = DOMAIN x.stack
  /\ Depth(x) # 0 => Top(y).kind = Top(x).kind /\ Top(y).pc = Top(x).pc
  /\ \A i \in DOMAIN x.stack :
       /\ y.stack[i].kind = x.stack[i].kind /\ y.stack[i].msg = x.stack[i].msg
       /\ y.stack[i].at = x.stack[i].at /\ y.stack[i].stop = x.stack[i].stop

\* A callback counts its calls.
LEMMA SpendGood ==
  ASSUME NEW x, Good(x), Depth(x) = 0 \/ Top(x).ops < MaxOps
  PROVE  Spent(x, Spend(x))
<1>1. CASE Depth(x) = 0
  <2>1. Spend(x) = x BY <1>1 DEF Spend
  <2> QED BY <1>1, <2>1 DEF Spent
<1>2. CASE Depth(x) # 0
  <2> DEFINE f == Top(x)
             g == [f EXCEPT !.ops = @ + 1]
             n == Depth(x)
             y == SetTop(x, g)
             q == [x.stack EXCEPT ![n] = g]
  <2>1. Spend(x) = y BY <1>2 DEF Spend
  <2>2. /\ n \in Nat /\ DOMAIN x.stack = 1..n /\ n = Len(x.stack) /\ n \in DOMAIN x.stack
        /\ Serves(x, f) /\ Sits(x.trans, n, f)
    BY <1>2, StackFacts
  <2>3. f = x.stack[n] BY DEF Top
  <2>4. f.ops < MaxOps BY <1>2
  <2>5. y = [x EXCEPT !.stack = q] BY DEF SetTop, Good, IsConn
  <2>6. g = [f EXCEPT !.ops = @ + 1] OBVIOUS
  <2> HIDE DEF f, g
  <2>7. /\ Serves(x, g) /\ g.kind = f.kind /\ g.pc = f.pc /\ g.msg = f.msg
        /\ g.at = f.at /\ g.stop = f.stop
    BY <2>2, <2>4, <2>6, SpentServes
  <2>8. Sits(x.trans, n, g) BY <2>2, <2>7 DEF Sits, Running
  <2>9. Good(y) /\ Depth(y) = n /\ Top(y) = g BY <1>2, <2>7, <2>8, SetTopGood DEF f
  <2>10. \A i \in DOMAIN x.stack : q[i] = IF i = n THEN g ELSE x.stack[i] BY <2>2
  <2>11. DOMAIN q = DOMAIN x.stack OBVIOUS
  <2> HIDE DEF q, y
  <2>12. /\ y.recs = x.recs /\ y.handlers = x.handlers /\ y.homed = x.homed
         /\ y.trans = x.trans /\ y.obj = x.obj /\ y.stack = q
    BY <2>5 DEF Good, IsConn
  <2>13. Top(y).kind = Top(x).kind /\ Top(y).pc = Top(x).pc BY <2>7, <2>9 DEF f
  <2>14. Calls(x) => Calls(y) BY <2>9, <2>12, <2>13 DEF Calls, Running
  <2>15. ASSUME NEW i \in DOMAIN x.stack
         PROVE  /\ y.stack[i].kind = x.stack[i].kind /\ y.stack[i].msg = x.stack[i].msg
                /\ y.stack[i].at = x.stack[i].at /\ y.stack[i].stop = x.stack[i].stop
    <3>1. CASE i = n BY <2>3, <2>7, <2>10, <2>12, <3>1
    <3>2. CASE i # n BY <2>10, <2>12, <3>2
    <3> QED BY <3>1, <3>2
  <2> QED BY <2>1, <2>9, <2>11, <2>12, <2>13, <2>14, <2>15 DEF Spent, n, f
<1> QED BY <1>1, <1>2

\* The client's code calls the connection.
LEMMA ClientSpends ==
  ASSUME Good(c)
  PROVE  /\ Client => Spent(c, Spend(c)) /\ Calls(Spend(c))
         /\ HandlerClient =>
              /\ Spent(c, Spend(c)) /\ Spend(c).obj = "live"
              /\ Depth(Spend(c)) = 0 \/ Top(Spend(c)).pc \in {"in", "caught"}
<1>1. ASSUME Client PROVE Spent(c, Spend(c)) /\ Calls(Spend(c))
  <2>1. Depth(c) = 0 \/ Top(c).ops < MaxOps BY <1>1 DEF Client, MayCall
  <2>2. Spent(c, Spend(c)) BY <2>1, SpendGood
  <2>3. Calls(c) BY <1>1 DEF Client, InReceiver, Calls, Running
  <2> QED BY <2>2, <2>3 DEF Spent
<1>2. ASSUME HandlerClient
      PROVE  /\ Spent(c, Spend(c)) /\ Spend(c).obj = "live"
             /\ Depth(Spend(c)) = 0 \/ Top(Spend(c)).pc \in {"in", "caught"}
  <2>1. Depth(c) = 0 \/ Top(c).ops < MaxOps BY <1>2 DEF HandlerClient, MayCall
  <2>2. Spent(c, Spend(c)) BY <2>1, SpendGood
  <2>3. c.obj = "live" /\ (Depth(c) = 0 \/ Top(c).pc = "in")
    BY <1>2 DEF HandlerClient, InHandler
  <2> QED BY <2>2, <2>3 DEF Spent
<1> QED BY <1>1, <1>2

\* All outcomes are good, so is the state that follows.
LEMMA CallGood ==
  ASSUME NEW os, Call(os), \A o \in os : Good(o.x)
  PROVE  Good(c')
BY DEF Call

\* Calls that do not concern callbacks.
LEMMA CallSame ==
  ASSUME NEW x, Good(x), NEW os, AllSame(x, os), Call(os)
  PROVE  Good(c')
BY SameGood DEF AllSame, Call

\* Connecting, disconnecting and looking for notifications.
LEMMA ConnectingGood ==
  ASSUME Good(c),
         \/ Activate \/ DatabaseName \/ Deactivate \/ Disconnect \/ GetNotifs
         \/ \E await \in {"block", "timed"} : AwaitNotification(await)
  PROVE  Good(c')
<1> DEFINE x == Spend(c)
<1>1. Client => Good(x) /\ IsConn(x) /\ Calls(x) BY ClientSpends DEF Spent, Good
<1>2. IsConn(c) BY DEF Good
<1> HIDE DEF x
<1>3. CASE Activate
  <2>1. Client /\ Call(activate(x)) BY <1>3 DEF Activate, x
  <2> QED BY <1>1, <2>1, ActivateSame, CallSame
<1>4. CASE DatabaseName
  <2>1. Client /\ Call(dbname(x)) BY <1>4 DEF DatabaseName, x
  <2> QED BY <1>1, <2>1, CallsSame, CallSame
<1>5. CASE Deactivate
  <2>1. Client /\ Call(deactivate(x)) BY <1>5 DEF Deactivate, x
  <2> QED BY <1>1, <2>1, CallsSame, CallSame
<1>6. CASE Disconnect
  <2> DEFINE y == do_disconnect(x)
  <2>1. Client /\ Call({Ok(y)}) BY <1>6 DEF Disconnect, disconnect, x
  <2>2. Same(x, y) BY <1>1, <2>1, DisconnectSame
  <2> HIDE DEF y
  <2>3. AllSame(x, {Ok(y)}) BY <2>2, OutState DEF AllSame
  <2> QED BY <1>1, <2>1, <2>3, CallSame
<1>7. CASE GetNotifs
  <2>1. Client /\ Call(get_notifs(x, "no")) BY <1>7 DEF GetNotifs, x
  <2>2. ASSUME NEW o \in get_notifs(x, "no") PROVE Good(o.x)
    <3>1. Gets(x, "no", o) BY <1>1, <2>1, GetNotifsGets
    <3> QED BY <1>1, <2>1, <3>1, GetsGood
  <2> QED BY <2>1, <2>2, CallGood
<1>8. ASSUME NEW await \in {"block", "timed"}, AwaitNotification(await) PROVE Good(c')
  <2>1. Client /\ Depth(c) = 0 /\ Call(await_notification(c, await))
    BY <1>8 DEF AwaitNotification
  <2>2. Calls(c) BY <2>1 DEF Client, Calls
  <2>3. ASSUME NEW o \in await_notification(c, await) PROVE Good(o.x)
    <3>1. Gets(c, await, o) BY <1>2, CallsGet
    <3> QED BY <2>2, <3>1, GetsGood
  <2> QED BY <2>1, <2>3, CallGood
<1> QED BY <1>3, <1>4, <1>5, <1>6, <1>7, <1>8

\* Transactions.
LEMMA TransactionsGood ==
  ASSUME Good(c), BeginTransaction \/ CommitTransaction \/ AbandonTransaction
  PROVE  Good(c')
<1>1. CASE BeginTransaction
  <2>1. Client /\ Call(Begin(Spend(c))) BY <1>1 DEF BeginTransaction
  <2>2. Good(Spend(c)) /\ Calls(Spend(c)) BY <2>1, ClientSpends DEF Spent
  <2> QED BY <2>1, <2>2, BeginGood, CallGood
<1>2. CASE CommitTransaction
  <2>1. c.trans = Depth(c) + 1 /\ Call(Commit(c)) BY <1>2 DEF CommitTransaction, Owner
  <2>2. Calls(c) BY <1>2 DEF CommitTransaction, Owner, InReceiver, Calls, Running
  <2> QED BY <2>1, <2>2, CommitGood, CallGood
<1>3. CASE AbandonTransaction
  <2>1. Owner /\ Call(Abandon(c)) BY <1>3 DEF AbandonTransaction
  <2>2. Calls(c) BY <2>1 DEF Owner, InReceiver, Calls, Running
  <2> QED BY <2>1, <2>2, AbandonGood, CallGood
<1> QED BY <1>1, <1>2, <1>3

\* The calls that the guards on the client's code speak of.
LEMMA InProgress ==
  ASSUME Good(c), NEW i \in DOMAIN c.stack
  PROVE  /\ Delivery(c.stack[i]) => c.stack[i] \in Deliveries(c)
         /\ c.stack[i].kind = "notice" => c.stack[i] \in Notices(c)
<1>1. c.stack[i] \in Range(c.stack) BY DEF Range
<1> QED BY <1>1 DEF Deliveries, Notices, Delivery

\* A receiver's constructor and destructor.
LEMMA NewReceiverGood ==
  ASSUME Liberties = {}, Good(c), NEW r \in Receiver, NewReceiver(r)
  PROVE  Good(c')
<1> DEFINE x == Spend(c)
           k == Position(c.recs, lower_bound(c.recs, Channel[r]))
<1>1. /\ Client /\ r \in Unused({q \in Receiver : Channel[q] = Channel[r]}, Range(c.recs))
      /\ \A f \in Deliveries(c) :
           k \notin Position(c.recs, f.at) + 1 .. Position(c.recs, f.stop)
      /\ Call(add_receiver(x, r))
  BY DEF NewReceiver
<1>2. Spent(c, x) /\ IsConn(x) BY <1>1, ClientSpends DEF Spent, Good
<1>3. r \notin Range(c.recs) BY <1>1 DEF Unused
<1>4. ASSUME NEW i \in DOMAIN c.stack, Delivery(c.stack[i])
      PROVE  k \notin Position(c.recs, c.stack[i].at) + 1 .. Position(c.recs, c.stack[i].stop)
  BY <1>1, <1>4, InProgress
<1> HIDE DEF x
<1>5. ASSUME NEW o \in add_receiver(x, r) PROVE Good(o.x)
  <2>1. PICK p \in query(x) \cup {Ok(x)} : o = Ok([p.x EXCEPT !.recs = Insert(@, r)])
    BY DEF add_receiver
  <2>2. Same(x, p.x)
    <3>1. CASE p \in query(x) BY <1>2, <3>1, CallsSame DEF AllSame
    <3>2. CASE p = Ok(x) BY <1>2, <3>2, SameSelf, OutState
    <3> QED BY <2>1, <3>1, <3>2
  <2> DEFINE y == p.x
             z == [y EXCEPT !.recs = Insert(@, r)]
  <2>3. Good(y) /\ y.recs = c.recs /\ y.stack = x.stack
    BY <1>2, <2>2, SameGood DEF Spent, Same
  <2>4. z = [y EXCEPT !.recs = Insert(@, r)] /\ o = Ok(z) BY <2>1
  <2> HIDE DEF y, z
  <2>5. ASSUME NEW i \in DOMAIN y.stack, Delivery(y.stack[i])
        PROVE  k \notin Position(y.recs, y.stack[i].at) + 1 .. Position(y.recs, y.stack[i].stop)
    <3>1. i \in DOMAIN c.stack BY <1>2, <2>3 DEF Spent
    <3>2. /\ y.stack[i].kind = c.stack[i].kind /\ y.stack[i].msg = c.stack[i].msg
          /\ y.stack[i].at = c.stack[i].at /\ y.stack[i].stop = c.stack[i].stop
      BY <1>2, <2>3, <3>1 DEF Spent
    <3>3. Delivery(c.stack[i]) BY <2>5, <3>2 DEF Delivery
    <3> QED BY <1>4, <2>3, <3>1, <3>2, <3>3
  <2>6. k = Position(y.recs, lower_bound(y.recs, Channel[r])) /\ r \notin Range(y.recs)
    BY <1>3, <2>3
  <2> HIDE DEF k
  <2>7. Good(z) BY <2>3, <2>4, <2>5, <2>6, InsertReceiverGood
  <2> QED BY <2>4, <2>7, OutState
<1> QED BY <1>1, <1>5, CallGood

\* The destructor of a notification_receiver.
LEMMA DeleteReceiverGood ==
  ASSUME Liberties = {}, Good(c), NEW r \in Receiver, DeleteReceiver(r)
  PROVE  Good(c')
<1> DEFINE x == Spend(c)
           z == [x EXCEPT !.recs = Erase(@, r)]
           y == Forget(z, r)
<1>1. /\ Client /\ r \in Range(c.recs)
      /\ \A f \in Deliveries(c) : r # f.at /\ r # f.stop
      /\ Call(remove_receiver(x, r))
  BY DEF DeleteReceiver
<1>2. Spent(c, x) /\ Calls(x) /\ Good(x) BY <1>1, ClientSpends DEF Spent
<1>3. ASSUME NEW i \in DOMAIN c.stack, Delivery(c.stack[i])
      PROVE  r # c.stack[i].at /\ r # c.stack[i].stop
  BY <1>1, <1>3, InProgress
<1>4. y = Forget(z, r) /\ z = [x EXCEPT !.recs = Erase(@, r)] OBVIOUS
<1>5. \A o \in remove_receiver(x, r) :
        o = Ok(y) \/ \E p \in Exec(y) : o = IF p.exc = "ok" THEN p ELSE Ok(process_notice(p.x))
  BY DEF remove_receiver
<1> HIDE DEF x, y, z
<1>6. Good(y)
  <2>1. ASSUME NEW i \in DOMAIN x.stack, Delivery(x.stack[i])
        PROVE  r # x.stack[i].at /\ r # x.stack[i].stop
    <3>1. i \in DOMAIN c.stack BY <1>2 DEF Spent
    <3>2. /\ x.stack[i].kind = c.stack[i].kind /\ x.stack[i].msg = c.stack[i].msg
          /\ x.stack[i].at = c.stack[i].at /\ x.stack[i].stop = c.stack[i].stop
      BY <1>2, <3>1 DEF Spent
    <3>3. Delivery(c.stack[i]) BY <2>1, <3>2 DEF Delivery
    <3> QED BY <1>3, <3>1, <3>2, <3>3
  <2>2. r \in Range(x.recs) BY <1>1, <1>2 DEF Spent
  <2> QED BY <1>2, <1>4, <2>1, <2>2, EraseReceiverGood
<1>7. Calls(y)
  <2>1. IsConn(x) /\ x.stack \in Seq(FrameType) BY <1>2 DEF Good
  <2>2. z.stack = x.stack /\ z.obj = x.obj /\ IsConn(z)
    <3> DEFINE v == Erase(x.recs, r)
    <3>1. z = [x EXCEPT !.recs = v] BY <1>4, <2>1 DEF IsConn
    <3> HIDE DEF v
    <3> QED BY <2>1, <3>1 DEF IsConn
  <2>3. Forgotten(z, y, r) BY <1>4, <2>1, <2>2, ForgetParts
  <2>4. y.obj = x.obj /\ Depth(y) = Depth(x) BY <2>2, <2>3 DEF Forgotten, Depth
  <2>5. ASSUME Depth(x) # 0 PROVE Running(Top(y))
    <3> DEFINE n == Depth(x)
    <3>1. n \in DOMAIN x.stack /\ Top(x) = x.stack[n] /\ Top(x) \in FrameType
      <4>1. n \in Nat /\ DOMAIN x.stack = 1..n BY <1>2, StackFacts
      <4>2. n # 0 BY <2>5
      <4>3. n \in DOMAIN x.stack BY <4>1, <4>2
      <4>4. Top(x) = x.stack[n] BY DEF Top
      <4>5. Top(x) \in FrameType BY <1>2, <2>5, StackFacts
      <4> QED BY <4>3, <4>4, <4>5
    <3>2. Top(y) = y.stack[n] BY <2>4 DEF Top
    <3> HIDE DEF n
    <3>3. Top(y) = Without(Top(x), r) BY <2>2, <2>3, <3>1, <3>2 DEF Forgotten
    <3>4. Top(y).kind = Top(x).kind /\ Top(y).pc = Top(x).pc BY <3>1, <3>3, WithoutParts
    <3>5. Running(Top(x)) BY <1>2, <2>5 DEF Calls
    <3> QED BY <3>4, <3>5 DEF Running
  <2> QED BY <1>2, <2>4, <2>5 DEF Calls
<1>8. ASSUME NEW o \in remove_receiver(x, r) PROVE Good(o.x)
  <2>1. CASE o = Ok(y) BY <1>6, <2>1, OutState
  <2>2. ASSUME NEW p \in Exec(y), o = IF p.exc = "ok" THEN p ELSE Ok(process_notice(p.x))
        PROVE  Good(o.x)
    <3>1. Gets(y, "no", p) BY <1>6, CallsGet DEF Good
    <3>2. Good(p.x) /\ (p.exc # "ok" => Good(process_notice(p.x)))
      BY <1>6, <1>7, <3>1, ReportedGood
    <3> QED BY <2>2, <3>2, OutState
  <2> QED BY <1>5, <2>1, <2>2
<1> QED BY <1>1, <1>8, CallGood

\* An error handler's.
LEMMA HandlersGood ==
  ASSUME Liberties = {}, Good(c), NEW h \in Handler, NewHandler(h) \/ DeleteHandler(h)
  PROVE  Good(c')
<1> DEFINE x == Spend(c)
<1>1. HandlerClient BY DEF NewHandler, DeleteHandler
<1>2. Spent(c, x) /\ Good(x) /\ x.obj = "live" BY <1>1, ClientSpends DEF Spent
<1> HIDE DEF x
<1>3. CASE NewHandler(h)
  <2> DEFINE y == register_errorhandler(x, h)
  <2>1. /\ h \in Unused(Handler, c.homed) /\ (\A f \in Notices(c) : f.at # End)
        /\ Call({Ok(y)})
    BY <1>3 DEF NewHandler, x
  <2>2. h \notin Range(x.handlers)
    <3>1. h \notin c.homed BY <2>1 DEF Unused
    <3>2. Range(x.handlers) = c.homed BY <1>2 DEF Spent, Good, Contents
    <3> QED BY <3>1, <3>2
  <2>3. ASSUME NEW i \in DOMAIN x.stack, x.stack[i].kind = "notice" PROVE x.stack[i].at # End
    <3>1. i \in DOMAIN c.stack BY <1>2 DEF Spent
    <3>2. x.stack[i].kind = c.stack[i].kind /\ x.stack[i].at = c.stack[i].at
      BY <1>2, <3>1 DEF Spent
    <3> QED BY <2>1, <2>3, <3>1, <3>2, InProgress
  <2>4. Good(y) BY <1>2, <2>2, <2>3, AppendHandlerGood
  <2> HIDE DEF y
  <2> QED BY <2>1, <2>4, OutState, CallGood
<1>4. CASE DeleteHandler(h)
  <2> DEFINE y == unregister(x, h)
  <2>1. /\ h \in c.homed /\ Call({Ok(y)})
        /\ \A f \in Notices(c) : h # Pred(c.handlers, f.at) /\ h # f.at /\ h # f.stop
    BY <1>4 DEF DeleteHandler, x
  <2>2. h \in x.homed /\ x.handlers = c.handlers BY <1>2, <2>1 DEF Spent
  <2>3. ASSUME NEW i \in DOMAIN x.stack, x.stack[i].kind = "notice"
        PROVE  /\ h # x.stack[i].at /\ h # x.stack[i].stop
               /\ h # Pred(x.handlers, x.stack[i].at)
    <3>1. i \in DOMAIN c.stack BY <1>2 DEF Spent
    <3>2. /\ x.stack[i].kind = c.stack[i].kind /\ x.stack[i].at = c.stack[i].at
          /\ x.stack[i].stop = c.stack[i].stop
      BY <1>2, <3>1 DEF Spent
    <3> QED BY <2>1, <2>2, <2>3, <3>1, <3>2, InProgress
  <2>4. Good(y) BY <1>2, <2>2, <2>3, EraseHandlerGood
  <2> HIDE DEF y
  <2> QED BY <2>1, <2>4, OutState, CallGood
<1> QED BY <1>3, <1>4

\* process_notice() and close().
LEMMA ReportingGood ==
  ASSUME Good(c), ProcessNotice \/ Close
  PROVE  Good(c')
<1>1. CASE ProcessNotice
  <2> DEFINE y == process_notice(Spend(c))
  <2>1. HandlerClient /\ Call({Ok(y)}) BY <1>1 DEF ProcessNotice
  <2>2. Good(y) BY <2>1, ClientSpends, NoticeGood DEF Spent
  <2> HIDE DEF y
  <2> QED BY <2>1, <2>2, OutState, CallGood
<1>2. CASE Close
  <2> DEFINE u == [c EXCEPT !.completed = FALSE]
             f == Frame("close", "trans", "no")
             y == close(c)
  <2>1. Client /\ Depth(c) = 0 /\ Call({Ok(y)}) BY <1>2 DEF Close
  <2>2. IsConn(c) /\ c.obj = "live" BY <2>1 DEF Client, Good
  <2>3. y = Push(u, f) BY DEF close
  <2>4. Same(c, u) BY <2>2, HandleSame
  <2> HIDE DEF u, y
  <2>5. Good(u) /\ u.obj = "live" /\ Depth(u) = 0
    BY <2>1, <2>2, <2>4, SameGood, SameCalls DEF Same
  <2>6. Serves(u, f) /\ f.kind = "close" /\ f.pc = "trans" BY FreshServes, FreshFacts
  <2> HIDE DEF f
  <2>7. Sits(u.trans, Depth(u) + 1, f)
    <3>1. u.trans <= Depth(u) + 1 BY <2>5 DEF Good
    <3> QED BY <2>5, <2>6, <3>1 DEF Sits, Running
  <2>8. Good(y) BY <2>3, <2>5, <2>6, <2>7, PushGood
  <2> QED BY <2>1, <2>8, OutState, CallGood
<1> QED BY <1>1, <1>2

\* The connection's constructor.
LEMMA ConstructGood ==
  ASSUME Good(c), Construct
  PROVE  Good(c')
<1>1. c.obj = "none" /\ IsConn(c) BY DEF Construct, Good
<1>2. PICK o \in init(c) : c' = (IF o.exc = "ok" THEN Ok([o.x EXCEPT !.obj = "live"]) ELSE o).x
  BY DEF Construct, Call
<1> DEFINE x == o.x
           y == [x EXCEPT !.obj = "live"]
<1>3. Same(c, x) BY <1>1, InitSame DEF AllSame
<1>4. Good(x) /\ x.obj = "none" BY <1>1, <1>3, SameGood DEF Same
<1>5. c' = x \/ c' = y BY <1>2, OutState
<1>6. y = [x EXCEPT !.obj = "live"] OBVIOUS
<1> HIDE DEF x, y
<1>7. /\ IsConn(y) /\ y.recs = x.recs /\ y.handlers = x.handlers /\ y.homed = x.homed
      /\ y.inbox = x.inbox /\ y.obj = "live" /\ y.trans = x.trans /\ y.over = x.over
      /\ y.stack = x.stack
  BY <1>4, <1>6 DEF Good, IsConn
<1>8. Good(y)
  <2>1. Contents(y) BY <1>4, <1>7 DEF Good, Contents
  <2>2. \A f : Serves(x, f) => Serves(y, f) BY <1>7 DEF Serves
  <2>3. y.trans <= Depth(y) + 1 BY <1>4, <1>7 DEF Good, Depth
  <2> QED BY <1>4, <1>7, <2>1, <2>2, <2>3 DEF Good
<1> QED BY <1>4, <1>5, <1>8

----------------------------------------------------------------------------
(* The steps of the library.                                               *)

\* The queue of notifications, which no call depends on.
LEMMA InboxGood ==
  ASSUME NEW x, Good(x), NEW v \in Seq(Range(Channel)), NEW y, y = [x EXCEPT !.inbox = v]
  PROVE  /\ Good(y) /\ Depth(y) = Depth(x) /\ Top(y) = Top(x)
         /\ y.recs = x.recs /\ y.trans = x.trans
<1>1. /\ IsConn(y) /\ y.recs = x.recs /\ y.handlers = x.handlers /\ y.homed = x.homed
      /\ y.inbox = v /\ y.obj = x.obj /\ y.trans = x.trans /\ y.over = x.over /\ y.stack = x.stack
  BY DEF Good, IsConn
<1>2. Contents(y) BY <1>1 DEF Good, Contents
<1>3. \A f : Serves(x, f) => Serves(y, f) BY <1>1 DEF Serves
<1>4. Depth(y) = Depth(x) /\ Top(y) = Top(x) BY <1>1 DEF Depth, Top
<1>5. y.trans <= Depth(y) + 1 BY <1>1, <1>4 DEF Good
<1> QED BY <1>1, <1>2, <1>3, <1>4, <1>5 DEF Good

\* The innermost call, and the transactions that can be open in it.
LEMMA TopFacts ==
  ASSUME NEW x, Good(x), Depth(x) # 0
  PROVE  /\ Serves(x, Top(x)) /\ Sits(x.trans, Depth(x), Top(x)) /\ x.obj = "live"
         /\ Depth(x) \in Nat
         /\ Top(x).pc = "loop" => Top(x).kind \in {"notifs", "notice"}
         /\ Top(x).pc = "wait" => Top(x).kind = "notifs"
         /\ Top(x).pc = "caught" => Top(x).kind \in {"notifs", "commit"}
         /\ Top(x).kind # "notifs" => x.trans <= Depth(x)
<1>1. Serves(x, Top(x)) /\ Sits(x.trans, Depth(x), Top(x)) /\ x.obj = "live" /\ Depth(x) \in Nat
  BY StackFacts
<1>2. Top(x).kind \in {"notifs", "notice", "commit", "close"} BY <1>1, FrameParts DEF Serves, Parts
<1>3. Top(x).kind = "notice" => Top(x).pc \in {"loop", "in"} BY <1>1 DEF Serves, Reports
<1>4. /\ Top(x).kind = "close" => Top(x).pc \in {"trans", "receivers", "handlers"}
      /\ Top(x).kind = "commit" => Top(x).pc = "caught"
  BY <1>1 DEF Serves
<1>5. Top(x).kind # "notifs" => x.trans <= Depth(x) BY <1>1 DEF Sits
<1> QED BY <1>1, <1>2, <1>3, <1>4, <1>5

\* One round of process_notice_raw().
LEMMA CallHandlerGood ==
  ASSUME NEW x, Good(x), Depth(x) # 0, Top(x).pc = "loop", Top(x).kind = "notice"
  PROVE  LET y == CallHandler(x, Top(x))
         IN  /\ Good(y)
             /\ Top(x).at # Top(x).stop =>
                  Depth(y) = Depth(x) /\ Top(y).kind = "notice" /\ Top(y).msg = Top(x).msg
<1> DEFINE f == Top(x)
           g == HandlerCalled(x, f)
<1>1. Serves(x, f) /\ Sits(x.trans, Depth(x), f) /\ x.trans <= Depth(x) BY TopFacts
<1>2. CallHandler(x, f) = IF f.at = f.stop THEN Pop(x) ELSE SetTop(x, g)
  BY DEF CallHandler, HandlerCalled
<1>3. CASE f.at = f.stop BY <1>1, <1>2, <1>3, PopGood
<1>4. CASE f.at # f.stop
  <2>1. g = HandlerCalled(x, f) OBVIOUS
  <2>2. Contents(x) /\ f.kind = "notice" /\ f.pc = "loop" BY DEF Good
  <2> HIDE DEF g, f
  <2>3. Serves(x, g) /\ g.kind = "notice" /\ g.msg = f.msg
    BY <1>1, <1>4, <2>1, <2>2, CallHandlerServes
  <2>4. Sits(x.trans, Depth(x), g) BY <1>1, <2>3 DEF Sits, Running
  <2>5. /\ Good(SetTop(x, g)) /\ Depth(SetTop(x, g)) = Depth(x)
        /\ Top(SetTop(x, g)) = g
    BY <2>3, <2>4, SetTopGood
  <2> QED BY <1>2, <1>4, <2>3, <2>5 DEF f
<1> QED BY <1>3, <1>4

\* One round of get_notifs().
LEMMA CallReceiverGood ==
  ASSUME NEW x, Good(x), Depth(x) # 0, Top(x).pc = "loop", Top(x).kind = "notifs"
  PROVE  LET y == CallReceiver(x, Top(x))
         IN  /\ Good(y)
             /\ Top(x).msg # 0 /\ Top(x).at # Top(x).stop =>
                  Depth(y) = Depth(x) /\ Top(y).msg = Top(x).msg
<1> DEFINE f == Top(x)
<1>1. /\ Serves(x, f) /\ Sits(x.trans, Depth(x), f) /\ Depth(x) \in Nat
      /\ Contents(x) /\ f.kind = "notifs" /\ f.pc = "loop"
  BY TopFacts DEF Good
<1>2. x.trans = 0 /\ x.trans <= Depth(x) BY <1>1 DEF Sits
<1>3. CASE f.msg = 0 /\ x.inbox = <<>>
  <2>1. CallReceiver(x, f) = GotNone(Pop(x), f.await)
    BY <1>3 DEF CallReceiver, NextNotification
  <2>2. Good(Pop(x)) /\ Calls(Pop(x)) BY <1>2, PopCalls
  <2>3. f.await \in {"no", "block", "timed"} BY <1>1, FrameParts DEF Serves, Parts
  <2>4. Good(GotNone(Pop(x), f.await)) BY <2>2, <2>3, GotNoneGood
  <2> QED BY <1>3, <2>1, <2>4
<1>4. CASE f.msg = 0 /\ x.inbox # <<>>
  <2> DEFINE ch == Head(x.inbox)
             v == Tail(x.inbox)
             y == [x EXCEPT !.inbox = v]
             g == Notified(x, f, ch)
  <2>1. CallReceiver(x, f) = SetTop(y, g)
    BY <1>4 DEF CallReceiver, NextNotification, Notified, Good, IsConn
  <2>2. ch \in Range(Channel) /\ v \in Seq(Range(Channel))
    BY <1>1, <1>4, HeadTailProperties DEF Contents
  <2>3. y = [x EXCEPT !.inbox = v] OBVIOUS
  <2> HIDE DEF v, y
  <2>4. Good(y) /\ Depth(y) = Depth(x) /\ Top(y) = f /\ y.recs = x.recs /\ y.trans = x.trans
    BY <2>2, <2>3, InboxGood
  <2>5. Serves(y, f) /\ Contents(y) /\ Depth(y) # 0 BY <2>4, TopFacts DEF Good
  <2>6. f.called = <<>> BY <1>1, <1>4 DEF Serves
  <2>7. g = Notified(y, f, ch) BY <2>4 DEF Notified
  <2> HIDE DEF g, ch, f
  <2>8. Serves(y, g) /\ g.kind = "notifs" /\ g.pc = "loop"
    BY <1>1, <1>4, <2>2, <2>5, <2>6, <2>7, NotificationServes
  <2>9. Sits(y.trans, Depth(y), g) BY <1>2, <2>4, <2>8 DEF Sits, Running
  <2>10. g.kind = Top(y).kind BY <1>1, <2>4, <2>8
  <2>11. Good(SetTop(y, g)) BY <2>4, <2>5, <2>8, <2>9, <2>10, SetTopGood
  <2> QED BY <1>4, <2>1, <2>11 DEF f
<1>5. CASE f.msg # 0 /\ f.at = f.stop
  <2> DEFINE g == Frame("notifs", "loop", "no")
  <2>1. CallReceiver(x, f) = SetTop(x, g) BY <1>5 DEF CallReceiver
  <2>2. Serves(x, g) /\ g.kind = "notifs" /\ g.pc = "loop" BY FreshServes, FreshFacts
  <2> HIDE DEF g
  <2>3. Sits(x.trans, Depth(x), g) BY <1>2, <2>2 DEF Sits, Running
  <2>4. Good(SetTop(x, g)) BY <1>1, <2>2, <2>3, SetTopGood
  <2> QED BY <1>5, <2>1, <2>4
<1>6. CASE f.msg # 0 /\ f.at # f.stop
  <2> DEFINE g == [f EXCEPT !.pc = "in", !.called = Append(@, f.at)]
  <2>1. CallReceiver(x, f) = SetTop(x, g) BY <1>6 DEF CallReceiver
  <2>2. g = [f EXCEPT !.pc = "in", !.called = Append(@, f.at)] OBVIOUS
  <2> HIDE DEF g, f
  <2>3. Serves(x, g) /\ g.kind = "notifs" /\ g.pc = "in" /\ g.msg = f.msg
    BY <1>1, <1>6, <2>2, CallReceiverServes, ZenonT(60)
  <2>4. Sits(x.trans, Depth(x), g) BY <1>2, <2>3 DEF Sits, Running
  <2>5. /\ Good(SetTop(x, g)) /\ Depth(SetTop(x, g)) = Depth(x)
        /\ Top(SetTop(x, g)) = g
    BY <1>1, <2>3, <2>4, SetTopGood DEF f
  <2> QED BY <2>1, <2>3, <2>5 DEF f
<1> QED BY <1>3, <1>4, <1>5, <1>6

\* A receiver has returned, or what it threw has been reported.
LEMMA NextReceiverGood ==
  ASSUME NEW x, Good(x), Depth(x) # 0, Top(x).pc \in {"in", "caught"}, Top(x).kind = "notifs",
         x.trans = 0
  PROVE  Good(NextReceiver(x, Top(x)))
<1> DEFINE f == Top(x)
           g == MovedOn(x, f)
<1>1. Serves(x, f) /\ Contents(x) /\ f.kind = "notifs" /\ f.pc \in {"in", "caught"}
  BY TopFacts DEF Good
<1>2. NextReceiver(x, f) = SetTop(x, g) BY DEF NextReceiver, MovedOn
<1>3. g = MovedOn(x, f) OBVIOUS
<1> HIDE DEF g, f
<1>4. Serves(x, g) /\ g.kind = "notifs" /\ g.pc = "loop"
  BY <1>1, <1>3, NextReceiverServes
<1>5. Sits(x.trans, Depth(x), g) BY <1>4 DEF Sits, Running
<1>6. Good(SetTop(x, g)) BY <1>1, <1>4, <1>5, SetTopGood DEF f
<1> QED BY <1>2, <1>6 DEF f

\* A receiver returns or throws; it has ended its transaction.
LEMMA ReceiverReturnGood ==
  ASSUME Liberties = {}, Good(c), NEW throws \in BOOLEAN, ReceiverReturn(throws)
  PROVE  Good(c')
<1> DEFINE f == Top(c)
           g == [f EXCEPT !.pc = "caught", !.ops = 0]
           y == SetTop(c, g)
<1>1. /\ Depth(c) # 0 /\ f.pc = "in" /\ f.kind = "notifs" /\ c.trans # Depth(c) + 1
      /\ Call({Ok(ReceiverReturns(c, f, throws))})
  BY StackFacts DEF ReceiverReturn, InReceiver
<1>2. Serves(c, f) /\ Sits(c.trans, Depth(c), f) /\ Depth(c) \in Nat /\ Running(f)
  BY <1>1, TopFacts DEF Running
<1>3. c.trans = 0
  <2>1. c.trans = 0 \/ c.trans > Depth(c) BY <1>2 DEF Sits
  <2>2. c.trans \in Nat /\ c.trans <= Depth(c) + 1 BY DEF Good, Contents
  <2> QED BY <1>1, <1>2, <2>1, <2>2
<1>4. ReceiverReturns(c, f, throws) = IF throws THEN process_notice(y) ELSE NextReceiver(c, f)
  BY DEF ReceiverReturns
<1>5. Good(process_notice(y))
  <2>1. g = [f EXCEPT !.pc = "caught", !.ops = 0] OBVIOUS
  <2> HIDE DEF g, f
  <2>2. Serves(c, g) /\ g.kind = "notifs" /\ g.pc = "caught" BY <1>2, <2>1, CaughtServes
  <2>3. Sits(c.trans, Depth(c), g) BY <1>3, <2>2 DEF Sits, Running
  <2>4. Good(y) /\ Depth(y) = Depth(c) /\ Top(y) = g
    BY <1>1, <2>2, <2>3, SetTopGood DEF f
  <2> HIDE DEF y
  <2>5. y.obj = "live" BY <1>1, <2>4, TopFacts
  <2> QED BY <2>2, <2>4, <2>5, NoticeGood
<1>6. Good(NextReceiver(c, f)) BY <1>1, <1>3, NextReceiverGood
<1> DEFINE z == ReceiverReturns(c, f, throws)
<1>7. Good(z) BY <1>4, <1>5, <1>6
<1> HIDE DEF y
<1>8. Call({Ok(z)}) BY <1>1
<1> HIDE DEF z
<1> QED BY <1>7, <1>8, OutState, CallGood

\* A handler returns.
LEMMA HandlerReturnGood ==
  ASSUME Good(c), NEW goon \in BOOLEAN, HandlerReturn(goon)
  PROVE  Good(c')
<1> DEFINE f == Top(c)
           g == [f EXCEPT !.pc = "loop", !.at = Pred(c.handlers, f.at), !.ops = 0]
           z == HandlerReturns(c, f, goon)
<1>1. Depth(c) # 0 /\ f.pc = "in" /\ f.kind = "notice" /\ Call({Ok(z)})
  BY StackFacts DEF HandlerReturn, InHandler
<1>2. Serves(c, f) /\ Sits(c.trans, Depth(c), f) /\ c.trans <= Depth(c)
  BY <1>1, TopFacts
<1>3. z = IF goon THEN SetTop(c, g) ELSE Pop(c) BY DEF HandlerReturns
<1>4. Good(Pop(c)) BY <1>1, <1>2, PopGood
<1>5. Good(SetTop(c, g))
  <2>1. g = [f EXCEPT !.pc = "loop", !.at = Pred(c.handlers, f.at), !.ops = 0] OBVIOUS
  <2>2. Contents(c) BY DEF Good
  <2> HIDE DEF g, f
  <2>3. Serves(c, g) /\ g.kind = "notice" /\ g.pc = "loop"
    BY <1>1, <1>2, <2>1, <2>2, HandlerReturnsServes
  <2>4. Sits(c.trans, Depth(c), g) BY <1>1, <1>2, <2>3 DEF Sits, Running
  <2> QED BY <1>1, <2>3, <2>4, SetTopGood DEF f
<1>6. Good(z) BY <1>3, <1>4, <1>5
<1> HIDE DEF z
<1> QED BY <1>1, <1>6, OutState, CallGood

\* close() after its last warning.
LEMMA ClosedGood ==
  ASSUME NEW x, Good(x), Depth(x) = 0
  PROVE  Good(Closed(x))
<1> DEFINE e == <<>>
           y == [x EXCEPT !.recs = e, !.handlers = e, !.homed = {}, !.obj = "gone",
                          !.trans = 0, !.over = FALSE]
<1>1. Closed(x) = do_disconnect(y) BY DEF Closed
<1>2. x.stack = <<>> BY EmptySeq DEF Good, Depth
<1>3. e \in Seq(Receiver) /\ e \in Seq(Handler) /\ IsInjective(e) /\ Range(e) = {}
  BY NoneCalled
<1>4. y = [x EXCEPT !.recs = e, !.handlers = e, !.homed = {}, !.obj = "gone",
                    !.trans = 0, !.over = FALSE]
  OBVIOUS
<1> HIDE DEF e, y
<1>5. IsConn(y) BY <1>4 DEF Good, IsConn
<1>6. /\ y.recs = e /\ y.handlers = e /\ y.homed = {} /\ y.inbox = x.inbox /\ y.obj = "gone"
      /\ y.trans = 0 /\ y.over \in BOOLEAN /\ y.stack = x.stack
  BY <1>4 DEF Good, IsConn
<1>7. Contents(y)
  <2>1. Lists(e, Receiver) /\ Lists(e, Handler) BY <1>3, ObserversAssumption DEF Lists
  <2>2. Sorted(e) BY <1>3 DEF Sorted
  <2> QED BY <1>3, <1>6, <2>1, <2>2 DEF Good, Contents
<1>8. DOMAIN y.stack = {} /\ Depth(y) = 0 /\ y.stack = <<>>
  <2>1. Depth(y) = 0 BY <1>6 DEF Depth
  <2>2. DOMAIN y.stack = {} BY <1>2, <1>6
  <2> QED BY <1>2, <1>6, <2>1, <2>2
<1>9. y.trans <= Depth(y) + 1 BY <1>6, <1>8
<1>10. Stacked(y.stack) BY <1>8 DEF Stacked
<1>11. y.stack \in Seq(FrameType) BY <1>6 DEF Good
<1>12. Good(y) BY <1>5, <1>7, <1>8, <1>9, <1>10, <1>11 DEF Good
<1>13. Same(y, do_disconnect(y)) BY <1>5, DisconnectSame
<1> QED BY <1>1, <1>12, <1>13, SameGood

\* close() goes on.
LEMMA CloseStepGood ==
  ASSUME NEW x, Good(x), Depth(x) # 0, Top(x).kind = "close"
  PROVE  Good(CloseStep(x, Top(x)))
<1> DEFINE f == Top(x)
<1>1. /\ Serves(x, f) /\ Sits(x.trans, Depth(x), f) /\ x.obj = "live" /\ x.trans <= Depth(x)
      /\ f.kind = "close"
  BY TopFacts
<1>2. Depth(x) = 1 BY <1>1 DEF Sits
<1>3. ASSUME NEW pc \in {"receivers", "handlers"}
      PROVE  LET y == SetTop(x, [f EXCEPT !.pc = pc]) IN Good(y) /\ Good(process_notice(y))
  <2> DEFINE g == [f EXCEPT !.pc = pc]
             y == SetTop(x, g)
  <2>1. g = [f EXCEPT !.pc = pc] OBVIOUS
  <2>2. IsFrame(f) /\ Parts(f) BY <1>1, FrameParts DEF Serves
  <2> HIDE DEF g, f
  <2>3. /\ IsFrame(g) /\ g.kind = f.kind /\ g.pc = pc /\ g.await = f.await /\ g.msg = f.msg
        /\ g.at = f.at /\ g.stop = f.stop /\ g.called = f.called /\ g.due = f.due
        /\ g.ops = f.ops
    BY <2>1, <2>2 DEF IsFrame
  <2>4. Parts(g) BY <2>2, <2>3 DEF Parts
  <2>5. g \in FrameType BY <2>3, <2>4, FrameParts
  <2>6. Serves(x, g) BY <1>1, <2>3, <2>5 DEF Serves
  <2>7. Sits(x.trans, Depth(x), g) BY <1>1, <2>3 DEF Sits, Running
  <2>8. Good(y) /\ Depth(y) = Depth(x) /\ Top(y) = g
    BY <1>1, <2>3, <2>6, <2>7, SetTopGood DEF f
  <2> HIDE DEF y
  <2>9. y.obj = "live" BY <2>8, TopFacts
  <2>10. Good(process_notice(y)) BY <1>1, <2>3, <2>8, <2>9, NoticeGood
  <2> QED BY <2>8, <2>10 DEF y, g
<1>4. Good(Closed(Pop(x)))
  <2>1. Good(Pop(x)) /\ Depth(Pop(x)) = 0 BY <1>1, <1>2, PopGood
  <2> QED BY <2>1, ClosedGood
<1> DEFINE y == SetTop(x, [f EXCEPT !.pc = "receivers"])
           z == SetTop(x, [f EXCEPT !.pc = "handlers"])
<1>5. Good(y) /\ Good(process_notice(y)) /\ Good(z) /\ Good(process_notice(z)) BY <1>3
<1>6. CloseStep(x, f) \in {y, process_notice(y), z, process_notice(z), Closed(Pop(x))}
  BY DEF CloseStep
<1> HIDE DEF y, z
<1> QED BY <1>4, <1>5, <1>6

\* The library's own steps.
LEMMA LibraryGood ==
  ASSUME Good(c), Library
  PROVE  Good(c')
<1> DEFINE f == Top(c)
<1>1. CASE Loop
  <2> DEFINE z == IF f.kind = "notice" THEN CallHandler(c, f) ELSE CallReceiver(c, f)
  <2>1. Depth(c) # 0 /\ f.pc = "loop" /\ Call({Ok(z)}) BY <1>1, StackFacts DEF Loop
  <2>2. f.kind \in {"notifs", "notice"} BY <2>1, TopFacts
  <2>3. Good(z) BY <2>1, <2>2, CallHandlerGood, CallReceiverGood
  <2> HIDE DEF z
  <2> QED BY <2>1, <2>3, OutState, CallGood
<1>2. CASE Caught
  <2> DEFINE y == Pop(c)
             z == IF f.kind = "commit" THEN process_notice(y) ELSE NextReceiver(c, f)
  <2>1. Depth(c) # 0 /\ f.pc = "caught" /\ Call({Ok(z)}) BY <1>2, StackFacts DEF Caught
  <2>2. Sits(c.trans, Depth(c), f) /\ f.kind \in {"notifs", "commit"} BY <2>1, TopFacts
  <2>3. CASE f.kind = "notifs"
    <3>1. c.trans = 0 BY <2>1, <2>2, <2>3 DEF Sits
    <3> QED BY <2>1, <2>3, <3>1, NextReceiverGood, OutState, CallGood
  <2>4. CASE f.kind = "commit"
    <3>1. c.trans <= Depth(c) BY <2>2, <2>4 DEF Sits
    <3>2. Good(process_notice(y)) BY <2>1, <3>1, PoppedGood
    <3> HIDE DEF y
    <3>3. z = process_notice(y) BY <2>4
    <3> HIDE DEF z
    <3> QED BY <2>1, <3>2, <3>3, OutState, CallGood
  <2> QED BY <2>2, <2>3, <2>4
<1>3. CASE Wait
  <2>1. Depth(c) # 0 /\ f.pc = "wait" /\ Call(Waited(c)) BY <1>3, StackFacts DEF Wait
  <2> QED BY <2>1, WaitedGood, CallGood
<1>4. CASE Closing
  <2> DEFINE z == CloseStep(c, f)
  <2>1. Depth(c) # 0 /\ f.kind = "close" /\ Call({Ok(z)}) BY <1>4, StackFacts DEF Closing
  <2>2. Good(z) BY <2>1, CloseStepGood
  <2> HIDE DEF z
  <2> QED BY <2>1, <2>2, OutState, CallGood
<1> QED BY <1>1, <1>2, <1>3, <1>4 DEF Library

\* The backend sends a notification, or the link is lost.
LEMMA WorldGood ==
  ASSUME Good(c), (\E r \in Receiver : Notify(Channel[r])) \/ LinkLost
  PROVE  Good(c')
<1>1. ASSUME NEW r \in Receiver, Notify(Channel[r]) PROVE Good(c')
  <2> DEFINE v == Append(c.inbox, Channel[r])
  <2>1. c' = [c EXCEPT !.inbox = v] BY <1>1 DEF Notify, Good, IsConn
  <2>2. v \in Seq(Range(Channel))
    <3>1. Channel[r] \in Range(Channel) BY ObserversAssumption DEF Range
    <3> QED BY <3>1, AppendProperties DEF Good, Contents
  <2> HIDE DEF v
  <2> QED BY <2>1, <2>2, InboxGood
<1>2. CASE LinkLost
  <2>1. c' = [c EXCEPT !.status[c.conn] = "lost"] BY <1>2 DEF LinkLost
  <2>2. Same(c, [c EXCEPT !.status[c.conn] = "lost"]) BY StatusSame DEF Good
  <2>3. Same(c, c') BY <2>1, <2>2
  <2> QED BY <2>3, SameGood
<1> QED BY <1>1, <1>2

----------------------------------------------------------------------------
(* The invariant.                                                          *)

\* The connection before its constructor.
LEMMA InitGood == Init => Good(c)
<1> SUFFICES ASSUME Init PROVE Good(c) OBVIOUS
<1> DEFINE e == <<>>
           st == [h \in Handle |-> "free"]
<1>1. PICK p \in Policies :
        c = [policy |-> p, conn |-> Null, completed |-> FALSE, connecting |-> FALSE,
             status |-> st, inbox |-> e, obj |-> "none", trans |-> 0, over |-> FALSE,
             recs |-> e, handlers |-> e, homed |-> {}, stack |-> e]
  BY DEF Init
<1>2. /\ e \in Seq(Receiver) /\ e \in Seq(Handler) /\ IsInjective(e) /\ Range(e) = {}
      /\ DOMAIN e = {}
  BY NoneCalled
<1>3. e \in Seq(FrameType) /\ e \in Seq(Range(Channel)) /\ Len(e) = 0 /\ e = <<>> BY EmptySeq
<1> HIDE DEF e, st
<1>4. IsConn(c) BY <1>1 DEF IsConn
<1>5. /\ c.recs = e /\ c.handlers = e /\ c.homed = {} /\ c.inbox = e /\ c.obj = "none"
      /\ c.trans = 0 /\ c.over \in BOOLEAN /\ c.stack = e
  BY <1>1
<1>6. Contents(c)
  <2>1. Lists(e, Receiver) /\ Lists(e, Handler) BY <1>2, ObserversAssumption DEF Lists
  <2>2. Sorted(e) BY <1>2 DEF Sorted
  <2> QED BY <1>2, <1>3, <1>5, <2>1, <2>2 DEF Contents
<1>7. Depth(c) = 0 BY <1>3, <1>5 DEF Depth
<1>8. c.trans <= Depth(c) + 1 BY <1>5, <1>7
<1>9. Stacked(c.stack) BY <1>2, <1>5 DEF Stacked
<1> QED BY <1>2, <1>3, <1>4, <1>5, <1>6, <1>8, <1>9 DEF Good

\* Every step leaves a good state.
LEMMA NextGood ==
  ASSUME Liberties = {}, Good(c), Next
  PROVE  Good(c')
<1>1. CASE Library BY <1>1, LibraryGood
<1>2. CASE (\E r \in Receiver : Notify(Channel[r])) \/ LinkLost BY <1>2, WorldGood
<1>3. CASE Program
  <2>1. CASE Construct BY <2>1, ConstructGood
  <2>2. CASE \/ Activate \/ DatabaseName \/ Deactivate \/ Disconnect \/ GetNotifs
             \/ \E await \in {"block", "timed"} : AwaitNotification(await)
    BY <2>2, ConnectingGood
  <2>3. CASE BeginTransaction \/ CommitTransaction \/ AbandonTransaction
    BY <2>3, TransactionsGood
  <2>4. ASSUME NEW r \in Receiver, NewReceiver(r) \/ DeleteReceiver(r) PROVE Good(c')
    BY <2>4, NewReceiverGood, DeleteReceiverGood
  <2>5. ASSUME NEW h \in Handler, NewHandler(h) \/ DeleteHandler(h) PROVE Good(c')
    BY <2>5, HandlersGood
  <2>6. CASE ProcessNotice \/ Close BY <2>6, ReportingGood
  <2>7. CASE Return
    <3>1. ASSUME NEW b \in BOOLEAN, ReceiverReturn(b) PROVE Good(c')
      BY <3>1, ReceiverReturnGood
    <3>2. ASSUME NEW b \in BOOLEAN, HandlerReturn(b) PROVE Good(c')
      BY <3>2, HandlerReturnGood
    <3> QED BY <2>7, <3>1, <3>2 DEF Return
  <2> QED BY <1>3, <2>1, <2>2, <2>3, <2>4, <2>5, <2>6, <2>7 DEF Program
<1> QED BY <1>1, <1>2, <1>3 DEF Next

\* The containers and the calls in progress are good in every state, whatever
\* happens to the connection itself.
CallsInv == Good(c)

\* That is inductive if callbacks take no liberties.
LEMMA CallsInvNext ==
  ASSUME Liberties = {}
  PROVE  CallsInv /\ [Next]_vars => CallsInv'
<1>1. ASSUME CallsInv, Next PROVE CallsInv'
  <2>1. Good(c') BY <1>1, NextGood DEF CallsInv
  <2> QED BY <2>1 DEF CallsInv
<1>2. ASSUME CallsInv, UNCHANGED vars PROVE CallsInv' BY <1>2 DEF CallsInv, vars
<1> QED BY <1>1, <1>2

\* How many notifications there have been.
LEMMA SentNext ==
  ASSUME sent \in 0..MaxSent, [Next]_vars
  PROVE  sent' \in 0..MaxSent
<1>1. CASE UNCHANGED vars BY <1>1 DEF vars
<1>2. CASE Next
  <2>1. sent' = sent \/ (sent' = sent + 1 /\ sent < MaxSent)
    BY <1>2
    DEF Next, Library, Program, Return, Construct, Activate, DatabaseName, Deactivate,
        Disconnect, GetNotifs, AwaitNotification, NewReceiver, DeleteReceiver, NewHandler,
        DeleteHandler, ProcessNotice, BeginTransaction, CommitTransaction,
        AbandonTransaction, Close, ReceiverReturn, HandlerReturn, Loop, Caught, Wait,
        Closing, Notify, LinkLost, Call
  <2> QED BY <2>1, ObserversAssumption
<1> QED BY <1>1, <1>2

\* The inductive invariant: the handle of the connection, its containers with its
\* calls in progress, and the number of notifications.
ObserversInv == HandleInv /\ CallsInv /\ sent \in 0..MaxSent

\* It holds at the beginning, and every step keeps it.
LEMMA ObserversInvInit == Init => ObserversInv
<1>1. Init => sent \in 0..MaxSent BY ObserversAssumption DEF Init
<1> QED BY <1>1, HandleInvInit, InitGood DEF ObserversInv, CallsInv

\* A step keeps each part of it for itself.
LEMMA ObserversInvNext ==
  ASSUME Faults = {}, Liberties = {}
  PROVE  ObserversInv /\ [Next]_vars => ObserversInv'
<1> SUFFICES ASSUME ObserversInv, [Next]_vars PROVE ObserversInv' OBVIOUS
<1>1. HandleInv' BY HandleInvNext DEF ObserversInv
<1>2. CallsInv' BY CallsInvNext DEF ObserversInv
<1>3. sent' \in 0..MaxSent BY SentNext DEF ObserversInv
<1> QED BY <1>1, <1>2, <1>3 DEF ObserversInv

\* A delivery in progress.
LEMMA DeliveryFacts ==
  ASSUME Good(c), NEW f \in Deliveries(c)
  PROVE  Delivers(c.recs, f) /\ Lists(c.recs, Receiver)
<1>1. PICK i \in DOMAIN c.stack : f = c.stack[i] BY DEF Deliveries, Range
<1>2. Serves(c, f) BY <1>1 DEF Good
<1> QED BY <1>2 DEF Deliveries, Serves, Good, Contents

\* A message in progress.
LEMMA MessageFacts ==
  ASSUME Good(c), NEW f \in Notices(c)
  PROVE  Reports(c.handlers, f) /\ Lists(c.handlers, Handler)
<1>1. PICK i \in DOMAIN c.stack : f = c.stack[i] BY DEF Notices, Range
<1>2. Serves(c, f) BY <1>1 DEF Good
<1> QED BY <1>2 DEF Notices, Serves, Good, Contents

\* Positions are numbers.
LEMMA PositionNat ==
  ASSUME NEW S, NEW s, Lists(s, S), NEW e \in Within(s)
  PROVE  Position(s, e) \in Nat
<1>1. Len(s) \in Nat BY SeqFacts DEF Lists
<1> QED BY <1>1, PositionFacts

\* The invariant gives everything its type.
LEMMA TypeFollows == ObserversInv => TypeOK
<1> SUFFICES ASSUME ObserversInv PROVE TypeOK OBVIOUS
<1>1. Owns(c) /\ Good(c) /\ sent \in 0..MaxSent BY DEF ObserversInv, CallsInv, HandleInv
<1>2. Contents(c) /\ c.stack \in Seq(FrameType) BY <1>1 DEF Good
<1>3. c.homed \subseteq Handler BY <1>2, OrderFacts DEF Contents
<1>4. ASSUME NEW i \in DOMAIN c.recs, NEW j \in DOMAIN c.recs, i < j
      PROVE  c.recs[i] # c.recs[j] /\ Channel[c.recs[i]] <= Channel[c.recs[j]]
  <2>1. Lists(c.recs, Receiver) /\ Sorted(c.recs) BY <1>2 DEF Contents
  <2>2. i \in Nat /\ j \in Nat
    <3>1. DOMAIN c.recs = 1..Len(c.recs) BY <2>1, SeqFacts DEF Lists
    <3> QED BY <3>1
  <2>3. c.recs[i] # c.recs[j] BY <1>4, <2>1, <2>2 DEF Lists, IsInjective
  <2>4. Position(c.recs, c.recs[i]) = i /\ Position(c.recs, c.recs[j]) = j
    BY <2>1, PositionFacts
  <2>5. Before(c.recs, c.recs[i], c.recs[j]) BY <1>4, <2>4 DEF Before
  <2>6. c.recs[i] \in Range(c.recs) /\ c.recs[j] \in Range(c.recs) BY DEF Range
  <2> QED BY <2>1, <2>3, <2>5, <2>6 DEF Sorted
<1>5. ASSUME NEW i \in 1..Depth(c) - 1
      PROVE  c.stack[i].kind = "close" \/ c.stack[i].pc \in {"in", "caught"}
  <2>1. /\ Depth(c) \in Nat /\ DOMAIN c.stack = 1..Depth(c) /\ Depth(c) = Len(c.stack)
    BY <1>1, StackFacts
  <2>2. i \in DOMAIN c.stack /\ i < Len(c.stack) BY <2>1
  <2> QED BY <1>1, <2>2 DEF Good, Stacked
<1> QED BY <1>1, <1>2, <1>3, <1>4, <1>5 DEF TypeOK, Owns, Contents, Lists

\* And the iterators of all calls are valid.
LEMMA IteratorsFollow == CallsInv => IteratorsValid
<1> SUFFICES ASSUME Good(c) PROVE IteratorsValid BY DEF CallsInv
<1>1. ASSUME NEW f \in Deliveries(c)
      PROVE  /\ f.at \in Range(c.recs) \cup {End} /\ f.stop \in Range(c.recs) \cup {End}
             /\ Position(c.recs, f.at) <= Position(c.recs, f.stop)
  <2> DEFINE s == c.recs
  <2>1. Delivers(s, f) /\ Lists(s, Receiver) BY DeliveryFacts
  <2>2. f.at \in Within(s) /\ f.stop \in Within(s) /\ ~Before(s, f.stop, f.at)
    BY <2>1 DEF Delivers
  <2>3. Position(s, f.at) \in Nat /\ Position(s, f.stop) \in Nat
    BY <2>1, <2>2, PositionNat
  <2> QED BY <2>2, <2>3 DEF Before, Within
<1>2. ASSUME NEW f \in Notices(c)
      PROVE  /\ f.at \in Range(c.handlers) \cup {End} /\ f.stop \in Range(c.handlers) \cup {End}
             /\ Position(c.handlers, f.stop) <= Position(c.handlers, f.at)
  <2> DEFINE s == c.handlers
  <2>1. Reports(s, f) /\ Lists(s, Handler) BY MessageFacts
  <2>2. f.at \in Within(s) /\ f.stop \in Within(s) BY <2>1 DEF Reports
  <2>3. ~Before(s, f.at, f.stop)
    <3>1. CASE f.at \in Range(s) BY <2>1, <3>1 DEF Reports
    <3>2. CASE f.at = End BY <2>1, <2>2, <3>2, OrderFacts
    <3> QED BY <2>2, <3>1, <3>2 DEF Within
  <2>4. Position(s, f.at) \in Nat /\ Position(s, f.stop) \in Nat
    BY <2>1, <2>2, PositionNat
  <2> QED BY <2>2, <2>3, <2>4 DEF Before, Within
<1> QED BY <1>1, <1>2 DEF IteratorsValid

\* Notifications are delivered once.
LEMMA DeliveredFollows == CallsInv => DeliveredOnce
<1> SUFFICES ASSUME Good(c), NEW f \in Deliveries(c)
             PROVE  /\ IsInjective(f.called)
                    /\ \A r \in Range(f.called) : Channel[r] = f.msg
                    /\ \A r \in f.due :
                         r \in Range(f.called) <=>
                           \/ Position(c.recs, r) < Position(c.recs, f.at)
                           \/ r = f.at /\ f.pc # "loop"
  BY DEF CallsInv, DeliveredOnce
<1>1. Delivers(c.recs, f) BY DeliveryFacts
<1> QED BY <1>1 DEF Delivers, Before

\* Messages are reported in order.
LEMMA OrderFollows == CallsInv => NoticeInOrder
<1> SUFFICES ASSUME Good(c), NEW f \in Notices(c)
             PROVE  /\ IsInjective(f.called)
                    /\ \A h \in f.due :
                         h \in Range(f.called) <=>
                           \/ Position(c.handlers, h) >= Position(c.handlers, f.at)
                           \/ f.pc = "in" /\ h = Pred(c.handlers, f.at)
                    /\ \A i, j \in DOMAIN f.called :
                         i < j /\ {f.called[i], f.called[j]} \subseteq f.due =>
                           Position(c.handlers, f.called[i]) > Position(c.handlers, f.called[j])
  BY DEF CallsInv, NoticeInOrder
<1> DEFINE s == c.handlers
<1>1. Reports(s, f) /\ Lists(s, Handler) BY MessageFacts
<1>2. f.at \in Within(s) /\ \A h \in f.due : h \in Within(s) BY <1>1 DEF Reports, Within
<1>3. \A e \in Within(s) : Position(s, e) \in Nat BY <1>1, PositionNat
<1>4. ASSUME NEW h \in f.due
      PROVE  h \in Range(f.called) <=>
               \/ Position(s, h) >= Position(s, f.at)
               \/ f.pc = "in" /\ h = Pred(s, f.at)
  <2>1. h \in Range(f.called) <=> ~Before(s, h, f.at) \/ (f.pc = "in" /\ h = Pred(s, f.at))
    BY <1>1 DEF Reports
  <2>2. ~Before(s, h, f.at) <=> Position(s, h) >= Position(s, f.at)
    BY <1>2, <1>3 DEF Before
  <2> QED BY <2>1, <2>2
<1>5. ASSUME NEW i \in DOMAIN f.called, NEW j \in DOMAIN f.called, i < j,
             f.called[i] \in f.due, f.called[j] \in f.due
      PROVE  Position(s, f.called[i]) > Position(s, f.called[j])
  <2>1. Before(s, f.called[j], f.called[i]) BY <1>1, <1>5 DEF Reports, Backwards
  <2> QED BY <1>2, <1>3, <1>5, <2>1 DEF Before
<1> QED BY <1>1, <1>4, <1>5 DEF Reports

\* Handlers and the connection know each other.
LEMMA KnowledgeFollows == CallsInv => HandlersKnow
BY DEF CallsInv, Good, Contents, Lists, HandlersKnow

\* Between callbacks only the library goes on, and the world outside.
LEMMA OnlyLoop ==
  ASSUME Good(c), Next, Depth(c) > 0, Top(c).pc = "loop"
  PROVE  Loop \/ c'.stack = c.stack
<1>1. c.obj = "live" /\ Top(c).kind \in {"notifs", "notice"} /\ Depth(c) \in Nat /\ Depth(c) # 0
  <2>1. Depth(c) \in Nat BY StackFacts
  <2>2. Depth(c) # 0 BY <2>1
  <2> QED BY <2>1, <2>2, TopFacts
<1>2. ~Client /\ ~HandlerClient /\ ~Owner /\ ~InReceiver /\ ~InHandler
  BY <1>1 DEF Client, HandlerClient, Owner, InReceiver, InHandler
<1>3. ~Return BY <1>2 DEF Return, ReceiverReturn, HandlerReturn
<1>4. ~Construct BY <1>1 DEF Construct
<1>5. ~Program
  BY <1>2, <1>3, <1>4 DEF Program, Activate, DatabaseName, Deactivate, Disconnect, GetNotifs,
     AwaitNotification, NewReceiver, DeleteReceiver, NewHandler, DeleteHandler, ProcessNotice,
     BeginTransaction, CommitTransaction, AbandonTransaction, Close
<1>6. Library => Loop BY <1>1 DEF Library, Caught, Wait, Closing
<1>7. ASSUME NEW r \in Receiver, Notify(Channel[r]) PROVE c'.stack = c.stack
  <2> DEFINE v == Append(c.inbox, Channel[r])
  <2>1. c' = [c EXCEPT !.inbox = v] BY <1>7 DEF Notify, Good, IsConn
  <2> HIDE DEF v
  <2> QED BY <2>1 DEF Good, IsConn
<1>8. LinkLost => c'.stack = c.stack BY DEF LinkLost, Good, IsConn
<1> QED BY <1>5, <1>6, <1>7, <1>8 DEF Next

\* A round of a loop ends the call, or the notification, when all have been reached.
LEMMA LoopReaches ==
  ASSUME Good(c), Loop, Depth(c') < Depth(c) \/ Top(c').msg # Top(c).msg
  PROVE  Top(c).due \subseteq Range(Top(c).called)
<1> DEFINE f == Top(c)
           y == IF f.kind = "notice" THEN CallHandler(c, f) ELSE CallReceiver(c, f)
<1>1. Depth(c) # 0 /\ f.pc = "loop" /\ Call({Ok(y)}) BY StackFacts DEF Loop
<1>2. c' = y
  <2> HIDE DEF y
  <2> QED BY <1>1, OutState DEF Call
<1>3. Serves(c, f) /\ f.kind \in {"notifs", "notice"} /\ Depth(c) \in Nat BY <1>1, TopFacts
<1>4. CASE f.kind = "notice"
  <2>1. y = CallHandler(c, f) BY <1>4
  <2>2. f.at = f.stop
    <3> SUFFICES ASSUME f.at # f.stop PROVE FALSE OBVIOUS
    <3>1. Depth(y) = Depth(c) /\ Top(y).msg = f.msg BY <1>1, <1>4, <2>1, CallHandlerGood
    <3> HIDE DEF y
    <3> QED BY <1>2, <1>3, <3>1
  <2>3. Reports(c.handlers, f) BY <1>3, <1>4 DEF Serves
  <2>4. \A h \in f.due : ~Before(c.handlers, h, f.at) BY <2>2, <2>3 DEF Reports
  <2> QED BY <2>3, <2>4 DEF Reports
<1>5. CASE f.kind = "notifs" /\ f.msg = 0 BY <1>3, <1>5 DEF Serves
<1>6. CASE f.kind = "notifs" /\ f.msg # 0
  <2>1. y = CallReceiver(c, f) BY <1>6
  <2>2. f.at = f.stop
    <3> SUFFICES ASSUME f.at # f.stop PROVE FALSE OBVIOUS
    <3>1. Depth(y) = Depth(c) /\ Top(y).msg = f.msg BY <1>1, <1>6, <2>1, CallReceiverGood
    <3> HIDE DEF y
    <3> QED BY <1>2, <1>3, <3>1
  <2>3. Delivers(c.recs, f) BY <1>3, <1>6 DEF Serves
  <2>4. \A r \in f.due : Before(c.recs, r, f.at) BY <2>2, <2>3 DEF Delivers
  <2> QED BY <2>3, <2>4 DEF Delivers
<1> QED BY <1>3, <1>4, <1>5, <1>6

\* ReachesAll, of a step.
LEMMA ReachesStep ==
  ASSUME CallsInv, [Next]_vars, Depth(c) > 0, Top(c).pc = "loop",
         Depth(c') < Depth(c) \/ Top(c').msg # Top(c).msg
  PROVE  Top(c).due \subseteq Range(Top(c).called)
<1>1. Good(c) /\ Depth(c) \in Nat BY StackFacts DEF CallsInv
<1>2. c'.stack # c.stack BY <1>1 DEF Depth, Top
<1>3. Next BY <1>2 DEF vars
<1> QED BY <1>1, <1>2, <1>3, OnlyLoop, LoopReaches

\* NeverInTransaction, of a step.
LEMMA TransactionStep ==
  ASSUME CallsInv, [Next]_vars, Depth(c') = Depth(c), InReceiver', Top(c).pc = "loop"
  PROVE  c.trans = 0
<1>1. Good(c) BY DEF CallsInv
<1>2. Depth(c') > 0 /\ Top(c').pc = "in" /\ Top(c').kind = "notifs" BY DEF InReceiver
<1>3. Depth(c) > 0 /\ Depth(c) \in Nat /\ Depth(c) # 0
  <2>1. Depth(c) \in Nat BY <1>1, StackFacts
  <2> QED BY <1>2, <2>1
<1>4. c'.stack # c.stack BY <1>2 DEF Depth, Top
<1>5. Next BY <1>4 DEF vars
<1>6. Loop BY <1>1, <1>3, <1>4, <1>5, OnlyLoop
<1> DEFINE f == Top(c)
           y == IF f.kind = "notice" THEN CallHandler(c, f) ELSE CallReceiver(c, f)
<1>7. c' = y
  <2>1. Call({Ok(y)}) BY <1>6 DEF Loop
  <2> HIDE DEF y
  <2> QED BY <2>1, OutState DEF Call
<1>8. f.kind # "notice"
  <2> SUFFICES ASSUME f.kind = "notice" PROVE FALSE OBVIOUS
  <2>1. c' = CallHandler(c, f) BY <1>7
  <2>2. CASE f.at = f.stop
    <3>1. c' = Pop(c) BY <2>1, <2>2 DEF CallHandler
    <3>2. c.trans <= Depth(c) BY <1>1, <1>3, TopFacts
    <3>3. Depth(Pop(c)) = Depth(c) - 1 BY <1>1, <1>3, <3>2, PopGood
    <3> QED BY <1>3, <3>1, <3>3
  <2>3. CASE f.at # f.stop
    <3>1. Top(c').kind = "notice" BY <1>1, <1>3, <2>1, <2>3, CallHandlerGood
    <3> QED BY <1>2, <3>1
  <2> QED BY <2>2, <2>3
<1>9. f.kind = "notifs" /\ Sits(c.trans, Depth(c), f) BY <1>1, <1>3, <1>8, TopFacts
<1> QED BY <1>9 DEF Sits

\* get_notifs(), process_notice_raw(): the iterators of all calls in progress stay
\* valid, and handlers and the connection know each other, however callbacks are
\* nested and whatever they add and remove, short of the Liberties.
THEOREM CallbacksSafeHolds ==
  ASSUME Faults = {}, Liberties = {}
  PROVE  Spec => []CallbacksSafe
<1>1. Init => ObserversInv BY ObserversInvInit
<1>2. ObserversInv /\ [Next]_vars => ObserversInv' BY ObserversInvNext
<1>3. ObserversInv => CallbacksSafe
  BY TypeFollows, IteratorsFollow, OrderFollows, KnowledgeFollows
  DEF CallbacksSafe, ObserversInv
<1> QED BY <1>1, <1>2, <1>3, PTL DEF Spec

\* get_notifs(): each receiver of a channel gets a notification once.
THEOREM DeliveredOnceHolds ==
  ASSUME Liberties = {}
  PROVE  Spec => []DeliveredOnce
<1>1. Init => CallsInv BY InitGood DEF CallsInv
<1>2. CallsInv /\ [Next]_vars => CallsInv' BY CallsInvNext
<1>3. CallsInv => DeliveredOnce BY DeliveredFollows
<1> QED BY <1>1, <1>2, <1>3, PTL DEF Spec

\* get_notifs(), process_notice_raw(): neither ends before it has reached all that
\* were there to be reached, and no receiver is called in a transaction.
THEOREM DeliveryProperHolds ==
  ASSUME Liberties = {}
  PROVE  Spec => DeliveryProper
<1> DEFINE Reaches == /\ Depth(c) > 0 /\ Top(c).pc = "loop"
                      /\ Depth(c') < Depth(c) \/ Top(c').msg # Top(c).msg
                      => Top(c).due \subseteq Range(Top(c).called)
           Never == Depth(c') = Depth(c) /\ InReceiver' /\ Top(c).pc = "loop" => c.trans = 0
<1>1. Init => CallsInv BY InitGood DEF CallsInv
<1>2. CallsInv /\ [Next]_vars => CallsInv' BY CallsInvNext
<1>3. CallsInv /\ [Next]_vars => [Reaches]_vars BY ReachesStep
<1>4. CallsInv /\ [Next]_vars => [Never]_vars BY TransactionStep
<1> HIDE DEF Reaches, Never
<1>5. Spec => [][Reaches]_vars BY <1>1, <1>2, <1>3, PTL DEF Spec
<1>6. Spec => [][Never]_vars BY <1>1, <1>2, <1>4, PTL DEF Spec
<1> QED BY <1>5, <1>6 DEF DeliveryProper, ReachesAll, NeverInTransaction, Reaches, Never
=============================================================================
