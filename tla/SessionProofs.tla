--------------------------- MODULE SessionProofs ---------------------------
(***************************************************************************)
(* Proofs about Session, for every set of statements, definitions,         *)
(* variables, values and receivers.  What holds of prepared statements is  *)
(* proved for every client, careless or not; what holds of variables and   *)
(* receivers for a client that is not.  First the inductive invariant,     *)
(* then what the operations on the connection leave of it, then the        *)
(* theorems.                                                               *)
(***************************************************************************)
EXTENDS Session, TLAPS

----------------------------------------------------------------------------
(* The inductive invariant, of a state x of the connection.                *)

\* The types, and what goes with what: a session that lives has a handle, and the
\* backend has a block only while the transaction may need one.
Typed(x) ==
  /\ x \in StateType
  /\ x.alive => x.handle = "ok"
  /\ x.tx \in {"none", "closed"} => x.srv.block = "idle"

\* What PreparedInSync says, of x.
InSync(x) ==
  x.alive => \A n \in Name \ {Unnamed} :
               x.srv.prep[n] = IF n \in DOMAIN x.defs /\ x.defs[n].registered
                               THEN x.defs[n].def ELSE NoDef

\* The values that a session has when it has been given those of f.
Given(f) == [var \in Var |-> IF var \in DOMAIN f THEN f[var] ELSE Default]

\* The same, with those of the transaction on top.
GivenInTx(x) ==
  [var \in Var |-> IF var \in DOMAIN x.tvars THEN x.tvars[var] ELSE Given(x.vars)[var]]

\* Every value that is remembered has once been accepted.
Accepted(x) ==
  /\ \A var \in DOMAIN x.vars : x.vars[var] \notin Rejected
  /\ \A var \in DOMAIN x.tvars : x.tvars[var] \notin Rejected

\* The session listens as it should, and either has the variables that the
\* connection remembers or will have them again when its block is rolled back.
SetUp(x) ==
  x.alive =>
    /\ x.srv.listen = Channels(x.recs)
    /\ x.srv.block = "idle" => x.srv.set = Given(x.vars)
    /\ x.srv.block # "idle" => x.srv.saved = Local(Channels(x.recs), Given(x.vars))

\* A transaction none of whose calls has thrown has its block and its variables.
Whole(x) ==
  x.tx = "active" =>
    /\ x.handle = "ok"
    /\ x.alive => x.srv.block = "open" /\ x.srv.set = GivenInTx(x)

Sound(x) ==
  /\ Typed(x) /\ InSync(x)
  /\ Careless = {} => Accepted(x) /\ SetUp(x)

SessionInv == Sound(s) /\ (Careless = {} => Whole(s))

----------------------------------------------------------------------------
(* Partial functions.                                                      *)

\* Membership in PartialType, without the union.
LEMMA PartialFacts ==
  ASSUME NEW D, NEW R, NEW f
  PROVE  f \in PartialType(D, R) <=>
           /\ f = [d \in DOMAIN f |-> f[d]] /\ DOMAIN f \subseteq D
           /\ \A d \in DOMAIN f : f[d] \in R
BY DEF PartialType

\* A new map is empty.
LEMMA EmptyFacts ==
  ASSUME NEW D, NEW R
  PROVE  <<>> \in PartialType(D, R) /\ DOMAIN <<>> = {}
<1>1. <<>> \in [{} -> R]
  OBVIOUS
<1> QED BY <1>1 DEF PartialType

\* Put() changes one entry.
LEMMA PutFacts ==
  ASSUME NEW D, NEW R, NEW f \in PartialType(D, R), NEW k \in D, NEW e \in R
  PROVE  /\ Put(f, k, e) \in PartialType(D, R)
         /\ DOMAIN Put(f, k, e) = DOMAIN f \cup {k}
         /\ Put(f, k, e)[k] = e
         /\ \A j \in DOMAIN f : j # k => Put(f, k, e)[j] = f[j]
BY PartialFacts DEF Put

----------------------------------------------------------------------------
(* Losing the session, and getting a new one.                              *)

\* A session as it is after connecting.
LEMMA NewSessionFacts ==
  /\ NewSession \in SrvType /\ NewSession.block = "idle"
  /\ NewSession.prep = [n \in Name |-> NoDef]
BY DEF NewSession, SrvType, Block, Local, Unset

\* What no operation changes by losing or replacing the session.
Frame(x, y) ==
  /\ y.vars = x.vars /\ y.recs = x.recs /\ y.tx = x.tx /\ y.tvars = x.tvars
  /\ DOMAIN y.defs = DOMAIN x.defs
  /\ \A n \in DOMAIN x.defs : y.defs[n].def = x.defs[n].def

\* A connection that has lost its session is in order.
LEMMA GoneFacts ==
  ASSUME NEW x, Sound(x), NEW h \in {"none", "bad", "ok"}
  PROVE  /\ Sound(Gone(x, h)) /\ Frame(x, Gone(x, h))
         /\ Gone(x, h).handle = h /\ ~Gone(x, h).alive
         /\ Gone(x, h).srv = NewSession
<1>1. x \in StateType
  BY DEF Sound, Typed
<1> DEFINE y == [x EXCEPT !.handle = h, !.alive = FALSE, !.srv = NewSession]
<1>2. /\ y \in StateType /\ y.handle = h /\ y.alive = FALSE /\ y.srv = NewSession
      /\ y.vars = x.vars /\ y.recs = x.recs /\ y.tx = x.tx /\ y.tvars = x.tvars
      /\ y.defs = x.defs
  BY <1>1, NewSessionFacts DEF StateType
<1> HIDE DEF y
<1>3. Sound(y)
  BY <1>2, NewSessionFacts DEF Sound, Typed, InSync, Accepted, SetUp
<1> QED BY <1>2, <1>3 DEF Gone, Frame, y

\* SetupState() on the prepared statements.
LEMMA UnregisteredFacts ==
  ASSUME NEW x \in StateType
  PROVE  /\ Unregistered(x) \in StateType /\ Frame(x, Unregistered(x))
         /\ Unregistered(x).handle = x.handle /\ Unregistered(x).alive = x.alive
         /\ Unregistered(x).srv = x.srv
         /\ \A n \in DOMAIN x.defs : Unregistered(x).defs[n].registered = FALSE
<1> DEFINE f == [n \in DOMAIN x.defs |-> [def |-> x.defs[n].def, registered |-> FALSE]]
<1>1. /\ DOMAIN x.defs \subseteq Name /\ \A n \in DOMAIN x.defs : x.defs[n] \in Entry
  BY PartialFacts DEF StateType
<1>2. /\ DOMAIN f = DOMAIN x.defs /\ f = [n \in DOMAIN f |-> f[n]]
      /\ \A n \in DOMAIN x.defs : f[n] = [def |-> x.defs[n].def, registered |-> FALSE]
  OBVIOUS
<1> HIDE DEF f
<1>3. /\ f \in PartialType(Name, Entry)
      /\ \A n \in DOMAIN x.defs : f[n].def = x.defs[n].def /\ f[n].registered = FALSE
  <2>1. ASSUME NEW n \in DOMAIN x.defs
        PROVE  f[n] \in Entry /\ f[n].def = x.defs[n].def /\ f[n].registered = FALSE
    <3>1. x.defs[n].def \in Def /\ f[n] = [def |-> x.defs[n].def, registered |-> FALSE]
      BY <1>1, <1>2 DEF Entry
    <3> QED BY <3>1 DEF Entry
  <2> QED BY <1>1, <1>2, <2>1, PartialFacts
<1>4. Unregistered(x) = [x EXCEPT !.defs = f]
  BY DEF Unregistered, f
<1> QED BY <1>2, <1>3, <1>4 DEF StateType, Frame

\* Forgetting which statements are registered, once the session is gone.
LEMMA UnregisteredSound ==
  ASSUME NEW x, Sound(x), ~x.alive
  PROVE  Sound(Unregistered(x))
<1>1. x \in StateType
  BY DEF Sound, Typed
<1> QED BY <1>1, UnregisteredFacts DEF Sound, Typed, InSync, Accepted, SetUp, Frame

\* The session that SetupState() leaves.
LEMMA RestoredFacts ==
  ASSUME NEW x \in StateType
  PROVE  /\ Restored(x) \in SrvType /\ Restored(x).block = "idle"
         /\ Restored(x).prep = [n \in Name |-> NoDef]
         /\ Accepted(x) => /\ Restored(x).listen = Channels(x.recs)
                           /\ Restored(x).set = Given(x.vars)
<1>1. /\ Given(x.vars) \in [Var -> Val \cup {Default}]
      /\ Channels(x.recs) \subseteq Channels(Receiver)
  BY PartialFacts DEF Given, StateType, Channels
<1> DEFINE y == [NewSession EXCEPT !.listen = Channels(x.recs), !.set = Given(x.vars)]
<1>2. /\ y \in SrvType /\ y.block = "idle" /\ y.prep = [n \in Name |-> NoDef]
      /\ y.listen = Channels(x.recs) /\ y.set = Given(x.vars)
  BY <1>1, NewSessionFacts DEF SrvType
<1>3. Restored(x) = IF \E var \in DOMAIN x.vars : x.vars[var] \in Rejected
                    THEN NewSession ELSE y
  BY DEF Restored, Given
<1> HIDE DEF y
<1> QED BY <1>2, <1>3, NewSessionFacts DEF Accepted

----------------------------------------------------------------------------
(* connection_base: connecting and executing.                              *)

Good(x) == Sound(x) /\ (Careless = {} => Whole(x))

\* An outcome that leaves the connection in order: only a call that throws may leave
\* a transaction without its block.
Fine(o) == Sound(o.x) /\ (o.exc = "ok" => Good(o.x))

\* SetupState() makes up for the session that was lost.
LEMMA SetupStateFacts ==
  ASSUME NEW x, Good(x), x.handle = "none", NEW o \in SetupState(x)
  PROVE  /\ Fine(o) /\ Frame(x, o.x) /\ o.exc \in {"ok", "broken"}
         /\ o.exc = "ok" => o.x.handle = "ok" /\ o.x.alive
<1> DEFINE y == Unregistered(x)
<1>1. x \in StateType /\ ~x.alive /\ (x.tx \in {"none", "closed"} => x.srv.block = "idle")
  BY DEF Good, Sound, Typed
<1>2. /\ y \in StateType /\ Frame(x, y) /\ Sound(y)
      /\ \A n \in DOMAIN y.defs : y.defs[n].registered = FALSE
  BY <1>1, UnregisteredFacts, UnregisteredSound DEF Good, Frame
<1> DEFINE z == [y EXCEPT !.handle = "ok", !.alive = TRUE, !.srv = Restored(y)]
<1>3. o = Ok(z) \/ o = Out(Gone(y, "none"), "broken")
  BY DEF SetupState
<1>4. CASE o = Ok(z)
  <2>1. /\ Restored(y) \in SrvType /\ Restored(y).block = "idle"
        /\ Restored(y).prep = [n \in Name |-> NoDef]
        /\ Accepted(y) => /\ Restored(y).listen = Channels(y.recs)
                          /\ Restored(y).set = Given(y.vars)
    BY <1>2, RestoredFacts
  <2>2. o.x = z /\ o.exc = "ok"
    BY <1>4 DEF Ok, Out
  <2> HIDE DEF y
  <2>3. /\ z \in StateType /\ z.handle = "ok" /\ z.alive = TRUE /\ z.srv = Restored(y)
        /\ z.vars = y.vars /\ z.recs = y.recs /\ z.tx = y.tx /\ z.tvars = y.tvars
        /\ z.defs = y.defs
    BY <1>2, <2>1 DEF StateType
  <2> HIDE DEF z
  <2>4. Typed(z)
    BY <2>1, <2>3 DEF Typed
  <2>5. InSync(z)
    BY <1>2, <2>1, <2>3 DEF InSync
  <2>6. Careless = {} => Accepted(z) /\ SetUp(z)
    BY <1>2, <2>1, <2>3 DEF Sound, Accepted, SetUp
  <2>7. Careless = {} => z.tx # "active"
    BY <1>2, <2>3 DEF Good, Whole, Frame
  <2>8. Frame(x, z)
    BY <1>2, <2>3 DEF Frame
  <2> QED BY <2>2, <2>3, <2>4, <2>5, <2>6, <2>7, <2>8 DEF Fine, Good, Sound, Whole
<1>5. CASE o = Out(Gone(y, "none"), "broken")
  <2>1. o.x = Gone(y, "none") /\ o.exc = "broken"
    BY <1>5 DEF Out
  <2> HIDE DEF y
  <2>2. Sound(Gone(y, "none")) /\ Frame(y, Gone(y, "none"))
    BY <1>2, GoneFacts
  <2> QED BY <1>2, <2>1, <2>2 DEF Fine, Frame
<1> QED BY <1>3, <1>4, <1>5

\* activate() returns normally only with a handle.
LEMMA ActivateFacts ==
  ASSUME NEW x, Good(x), NEW o \in activate(x)
  PROVE  /\ Fine(o) /\ Frame(x, o.x) /\ o.exc \in {"ok", "broken"}
         /\ o.exc = "ok" => o.x.handle = "ok"
         /\ is_open(x) => o.x = x /\ o.exc = "ok"
<1>1. CASE is_open(x)
  BY <1>1 DEF activate, Ok, Out, Fine, Frame, is_open, Good
<1>2. CASE ~is_open(x)
  <2>1. \/ o = Out(Gone(x, "none"), "broken")
        \/ x.handle = "none" /\ o \in SetupState(x)
    BY <1>2 DEF activate
  <2>2. CASE o = Out(Gone(x, "none"), "broken")
    BY <1>2, <2>2, GoneFacts DEF Out, Fine, Good
  <2>3. CASE x.handle = "none" /\ o \in SetupState(x)
    BY <1>2, <2>3, SetupStateFacts
  <2> QED BY <2>1, <2>2, <2>3
<1> QED BY <1>1, <1>2

\* get_notifs() changes the connection only by noticing a loss.
LEMMA GetNotifsFacts ==
  ASSUME NEW x, NEW o \in get_notifs(x)
  PROVE  \/ o.x = x /\ o.exc = "ok"
         \/ o.x = Gone(x, "bad") /\ o.exc = "broken"
BY DEF get_notifs, Ok, Out

\* The outcomes of a command that the backend answers with one of A.
QueryOut(x, A) ==
  {Out(Gone(x, "none"), "broken")}
    \cup (IF x.alive THEN {Out([x EXCEPT !.srv = a.srv], a.exc) : a \in A} ELSE {})

\* The link is lost on the way.
Broke(x, o) ==
  /\ o.exc = "broken" /\ Sound(o.x) /\ Frame(x, o.x)
  /\ ~o.x.alive /\ o.x.srv = NewSession

\* y is x, connected.
Reached(x, y) ==
  Good(y) /\ Frame(x, y) /\ y.handle = "ok" /\ y.alive /\ (is_open(x) => y = x)

\* The session of y, which is x connected, has answered with one of A.
Carried(x, o, y, A) ==
  /\ Reached(x, y)
  /\ \E a \in A : o.exc = a.exc /\ o.x = [y EXCEPT !.srv = a.srv]

\* What Exec() does once it is connected.
LEMMA QueryFacts ==
  ASSUME NEW x, Good(x), x.handle = "ok", NEW A, NEW o \in QueryOut(x, A)
  PROVE  Broke(x, o) \/ Carried(x, o, x, A)
<1>1. CASE o = Out(Gone(x, "none"), "broken")
  BY <1>1, GoneFacts DEF Out, Broke, Good
<1>2. CASE x.alive /\ \E a \in A : o = Out([x EXCEPT !.srv = a.srv], a.exc)
  BY <1>2 DEF Out, Carried, Reached, Frame
<1> QED BY <1>1, <1>2 DEF QueryOut

\* Exec(), from connecting to the notifications: the link is lost, or the session
\* that was reached has answered.
LEMMA TailFacts ==
  ASSUME NEW x, Good(x), NEW p \in activate(x), NEW A, NEW o,
         IF p.exc = "ok"
         THEN \E q \in QueryOut(p.x, A) : IF q.exc = "ok" THEN o \in get_notifs(q.x)
                                                          ELSE o = q
         ELSE o = p
  PROVE  Broke(x, o) \/ (p.exc = "ok" /\ Carried(x, o, p.x, A))
<1> DEFINE y == p.x
<1>1. /\ Fine(p) /\ Frame(x, y) /\ p.exc \in {"ok", "broken"}
      /\ p.exc = "ok" => y.handle = "ok"
      /\ is_open(x) => y = x /\ p.exc = "ok"
  BY ActivateFacts
<1>2. CASE p.exc # "ok"
  <2>1. o = p /\ p.exc = "broken" /\ ~is_open(x)
    BY <1>1, <1>2
  <2>2. ~p.x.alive /\ p.x.srv = NewSession
    <3>1. p = Out(Gone(x, "none"), "broken") \/ (x.handle = "none" /\ p \in SetupState(x))
      BY <2>1 DEF activate
    <3>2. CASE p = Out(Gone(x, "none"), "broken")
      BY <3>2, GoneFacts DEF Out, Good
    <3>3. CASE x.handle = "none" /\ p \in SetupState(x)
      <4>1. Sound(Unregistered(x))
        BY <3>3, UnregisteredSound DEF Good, Sound, Typed
      <4>2. p = Out(Gone(Unregistered(x), "none"), "broken")
        BY <2>1, <3>3 DEF SetupState, Ok, Out
      <4> QED BY <4>1, <4>2, GoneFacts DEF Out
    <3> QED BY <3>1, <3>2, <3>3
  <2> QED BY <1>1, <2>1, <2>2 DEF Broke, Fine
<1>3. CASE p.exc = "ok"
  <2>1. Good(y) /\ y.handle = "ok"
    BY <1>1, <1>3 DEF Fine
  <2>2. PICK q \in QueryOut(y, A) : IF q.exc = "ok" THEN o \in get_notifs(q.x) ELSE o = q
    BY <1>3
  <2>3. Broke(y, q) \/ Carried(y, q, y, A)
    BY <2>1, <2>2, QueryFacts
  <2>4. CASE o = q
    BY <1>1, <1>3, <2>3, <2>4 DEF Broke, Carried, Reached, Frame
  <2>5. CASE q.exc = "ok" /\ o \in get_notifs(q.x)
    <3>1. Carried(y, q, y, A)
      BY <2>3, <2>5 DEF Broke
    <3>2. CASE o.x = q.x /\ o.exc = "ok"
      BY <1>1, <1>3, <2>5, <3>1, <3>2 DEF Carried, Reached
    <3>3. CASE o.x = Gone(q.x, "bad") /\ o.exc = "broken"
      <4>1. PICK a \in A : q.x = [y EXCEPT !.srv = a.srv]
        BY <3>1 DEF Carried
      <4>2. Gone(q.x, "bad") = Gone(y, "bad")
        BY <2>1, <4>1 DEF Gone, Good, Sound, Typed, StateType
      <4>3. /\ Sound(Gone(y, "bad")) /\ Frame(y, Gone(y, "bad")) /\ ~Gone(y, "bad").alive
            /\ Gone(y, "bad").srv = NewSession
        BY <2>1, GoneFacts DEF Good
      <4> QED BY <1>1, <3>3, <4>2, <4>3 DEF Broke, Frame
    <3> QED BY <2>5, <3>2, <3>3, GetNotifsFacts
  <2> QED BY <2>2, <2>4, <2>5
<1> QED BY <1>2, <1>3

----------------------------------------------------------------------------
(* The commands.                                                           *)

\* A call threw and left the connection in order.
Threw(x, o) == o.exc # "ok" /\ Sound(o.x) /\ Frame(x, o.x)

\* The command was accepted, outside a doomed block, and left the session new.
Done(x, o, y, new) ==
  /\ o.exc = "ok" /\ Reached(x, y) /\ y.srv.block # "failed"
  /\ o.x = [y EXCEPT !.srv = new]

\* A state with another session.
LEMMA WithFacts ==
  ASSUME NEW y \in StateType, NEW srv \in SrvType
  PROVE  /\ [y EXCEPT !.srv = srv] \in StateType /\ [y EXCEPT !.srv = srv].srv = srv
         /\ [y EXCEPT !.srv = srv].handle = y.handle
         /\ [y EXCEPT !.srv = srv].alive = y.alive /\ [y EXCEPT !.srv = srv].defs = y.defs
         /\ Frame(y, [y EXCEPT !.srv = srv])
BY DEF StateType, Frame

\* A command that is refused dooms the block, if there is one, and no more.
LEMMA RefuseFacts ==
  ASSUME NEW y, Sound(y), NEW a \in Refuse(y.srv)
  PROVE  a.exc = "sql" /\ Sound([y EXCEPT !.srv = a.srv]) /\ Frame(y, [y EXCEPT !.srv = a.srv])
<1> DEFINE b == IF y.srv.block = "idle" THEN "idle" ELSE "failed"
           t == [y.srv EXCEPT !.block = b]
<1>1. y \in StateType /\ y.srv \in SrvType
  BY DEF Sound, Typed, StateType
<1>2. a.srv = t /\ a.exc = "sql"
  BY DEF Refuse, Answer
<1>3. /\ t \in SrvType /\ t.block = b /\ t.prep = y.srv.prep /\ t.listen = y.srv.listen
      /\ t.set = y.srv.set /\ t.saved = y.srv.saved
  BY <1>1 DEF SrvType, Block
<1> HIDE DEF t
<1> DEFINE z == [y EXCEPT !.srv = t]
<1>4. /\ z \in StateType /\ z.srv = t /\ z.handle = y.handle /\ z.alive = y.alive
      /\ z.defs = y.defs /\ Frame(y, z)
  BY <1>1, <1>3, WithFacts
<1> HIDE DEF z
<1>5. Typed(z)
  BY <1>3, <1>4 DEF Sound, Typed, Frame
<1>6. InSync(z)
  BY <1>3, <1>4 DEF Sound, InSync, Frame
<1>7. Careless = {} => Accepted(z) /\ SetUp(z)
  BY <1>3, <1>4 DEF Sound, Accepted, SetUp, Frame
<1>8. Sound(z)
  BY <1>5, <1>6, <1>7 DEF Sound
<1> QED BY <1>2, <1>4, <1>8 DEF z

\* A command that can only be carried out or refused.
LEMMA DoFacts ==
  ASSUME NEW x, NEW o, NEW y, NEW A, Carried(x, o, y, A), NEW new,
         A \subseteq Do(y.srv, new) \cup Refuse(y.srv)
  PROVE  Threw(x, o) \/ Done(x, o, y, new)
<1>1. Reached(x, y)
  BY DEF Carried
<1>2. PICK a \in Do(y.srv, new) \cup Refuse(y.srv) :
        o.exc = a.exc /\ o.x = [y EXCEPT !.srv = a.srv]
  BY DEF Carried
<1>3. CASE a \in Refuse(y.srv)
  <2>1. a.exc = "sql" /\ Sound([y EXCEPT !.srv = a.srv]) /\ Frame(y, [y EXCEPT !.srv = a.srv])
    BY <1>1, <1>3, RefuseFacts DEF Reached, Good
  <2> QED BY <1>1, <1>2, <2>1 DEF Threw, Reached, Frame
<1>4. CASE y.srv.block # "failed" /\ a = Answer(new, "ok")
  BY <1>1, <1>2, <1>4 DEF Done, Answer
<1> QED BY <1>2, <1>3, <1>4 DEF Do

\* A loss is a throw.
LEMMA BrokeThrew ==
  ASSUME NEW x, NEW o, Broke(x, o)
  PROVE  Threw(x, o)
BY DEF Broke, Threw

\* SHOW, in get_variable().
LEMMA ExecShow ==
  ASSUME NEW x, Good(x), NEW o \in Exec(x, SHOW)
  PROVE  Threw(x, o) \/ \E y : Done(x, o, y, y.srv)
<1>1. PICK p \in activate(x) :
        IF p.exc = "ok"
        THEN \E q \in QueryOut(p.x, SHOW(p.x.srv)) :
               IF q.exc = "ok" THEN o \in get_notifs(q.x) ELSE o = q
        ELSE o = p
  BY DEF Exec, Then, Query, QueryOut
<1>2. Broke(x, o) \/ Carried(x, o, p.x, SHOW(p.x.srv))
  BY <1>1, TailFacts
<1>3. SHOW(p.x.srv) \subseteq Do(p.x.srv, p.x.srv) \cup Refuse(p.x.srv)
  BY DEF SHOW
<1> QED BY <1>2, <1>3, BrokeThrew, DoFacts

\* SET, in RawSetVar().
LEMMA ExecSet ==
  ASSUME NEW x, Good(x), NEW var, NEW val, NEW o \in Exec(x, LAMBDA srv : SET(srv, var, val))
  PROVE  Threw(x, o) \/ \E y : /\ val \notin Rejected
                               /\ Done(x, o, y, [y.srv EXCEPT !.set[var] = val])
<1>1. PICK p \in activate(x) :
        IF p.exc = "ok"
        THEN \E q \in QueryOut(p.x, SET(p.x.srv, var, val)) :
               IF q.exc = "ok" THEN o \in get_notifs(q.x) ELSE o = q
        ELSE o = p
  BY DEF Exec, Then, Query, QueryOut
<1>2. Broke(x, o) \/ Carried(x, o, p.x, SET(p.x.srv, var, val))
  BY <1>1, TailFacts
<1> DEFINE new == [p.x.srv EXCEPT !.set[var] = val]
<1>3. SET(p.x.srv, var, val) \subseteq Do(p.x.srv, new) \cup Refuse(p.x.srv)
  BY DEF SET
<1>4. Threw(x, o) \/ Done(x, o, p.x, new)
  BY <1>2, <1>3, BrokeThrew, DoFacts
<1>5. val \in Rejected => Threw(x, o)
  <2>1. ASSUME val \in Rejected, Carried(x, o, p.x, SET(p.x.srv, var, val)) PROVE Threw(x, o)
    <3>1. PICK a \in Refuse(p.x.srv) : o.exc = a.exc /\ o.x = [p.x EXCEPT !.srv = a.srv]
      BY <2>1 DEF Carried, SET
    <3>2. /\ a.exc = "sql" /\ Sound([p.x EXCEPT !.srv = a.srv])
          /\ Frame(p.x, [p.x EXCEPT !.srv = a.srv])
      BY <2>1, <3>1, RefuseFacts DEF Carried, Reached, Good
    <3> QED BY <2>1, <3>1, <3>2 DEF Carried, Reached, Threw, Frame
  <2> QED BY <1>2, <2>1, BrokeThrew
<1> QED BY <1>4, <1>5

\* UNLISTEN, in remove_receiver().
LEMMA ExecUnlisten ==
  ASSUME NEW x, Good(x), NEW ch, NEW o \in Exec(x, LAMBDA srv : UNLISTEN(srv, ch))
  PROVE  Threw(x, o) \/ \E y : Done(x, o, y, [y.srv EXCEPT !.listen = @ \ {ch}])
<1>1. PICK p \in activate(x) :
        IF p.exc = "ok"
        THEN \E q \in QueryOut(p.x, UNLISTEN(p.x.srv, ch)) :
               IF q.exc = "ok" THEN o \in get_notifs(q.x) ELSE o = q
        ELSE o = p
  BY DEF Exec, Then, Query, QueryOut
<1>2. Broke(x, o) \/ Carried(x, o, p.x, UNLISTEN(p.x.srv, ch))
  BY <1>1, TailFacts
<1> DEFINE new == [p.x.srv EXCEPT !.listen = @ \ {ch}]
<1>3. UNLISTEN(p.x.srv, ch) \subseteq Do(p.x.srv, new) \cup Refuse(p.x.srv)
  BY DEF UNLISTEN
<1>4. Threw(x, o) \/ Done(x, o, p.x, new)
  BY <1>2, <1>3, BrokeThrew, DoFacts
<1> QED BY <1>4

\* DEALLOCATE, in unprepare().
LEMMA ExecDeallocate ==
  ASSUME NEW x, Good(x), NEW n, NEW o \in Exec(x, LAMBDA srv : DEALLOCATE(srv, n))
  PROVE  Threw(x, o) \/ \E y : Done(x, o, y, [y.srv EXCEPT !.prep[n] = NoDef])
<1>1. PICK p \in activate(x) :
        IF p.exc = "ok"
        THEN \E q \in QueryOut(p.x, DEALLOCATE(p.x.srv, n)) :
               IF q.exc = "ok" THEN o \in get_notifs(q.x) ELSE o = q
        ELSE o = p
  BY DEF Exec, Then, Query, QueryOut
<1>2. Broke(x, o) \/ Carried(x, o, p.x, DEALLOCATE(p.x.srv, n))
  BY <1>1, TailFacts
<1> DEFINE new == [p.x.srv EXCEPT !.prep[n] = NoDef]
<1>3. DEALLOCATE(p.x.srv, n) \subseteq Do(p.x.srv, new) \cup Refuse(p.x.srv)
  BY DEF DEALLOCATE
<1>4. Threw(x, o) \/ Done(x, o, p.x, new)
  BY <1>2, <1>3, BrokeThrew, DoFacts
<1> QED BY <1>4

\* The session after BEGIN.
Begun(srv) ==
  IF srv.block = "open" THEN srv
  ELSE [srv EXCEPT !.block = "open", !.saved = Local(srv.listen, srv.set)]

\* BEGIN, in dbtransaction::do_begin().
LEMMA ExecBegin ==
  ASSUME NEW x, Good(x), NEW o \in Exec(x, BEGIN)
  PROVE  Threw(x, o) \/ \E y : Done(x, o, y, Begun(y.srv))
<1>1. PICK p \in activate(x) :
        IF p.exc = "ok"
        THEN \E q \in QueryOut(p.x, BEGIN(p.x.srv)) :
               IF q.exc = "ok" THEN o \in get_notifs(q.x) ELSE o = q
        ELSE o = p
  BY DEF Exec, Then, Query, QueryOut
<1>2. Broke(x, o) \/ Carried(x, o, p.x, BEGIN(p.x.srv))
  BY <1>1, TailFacts
<1>3. BEGIN(p.x.srv) \subseteq Do(p.x.srv, Begun(p.x.srv)) \cup Refuse(p.x.srv)
  BY DEF BEGIN, Begun
<1> QED BY <1>2, <1>3, BrokeThrew, DoFacts

\* COMMIT, in dbtransaction::do_commit().
LEMMA ExecCommit ==
  ASSUME NEW x, Good(x), NEW o \in Exec(x, COMMIT)
  PROVE  Broke(x, o) \/ \E y : Carried(x, o, y, COMMIT(y.srv))
<1>1. PICK p \in activate(x) :
        IF p.exc = "ok"
        THEN \E q \in QueryOut(p.x, COMMIT(p.x.srv)) :
               IF q.exc = "ok" THEN o \in get_notifs(q.x) ELSE o = q
        ELSE o = p
  BY DEF Exec, Then, Query, QueryOut
<1>2. Broke(x, o) \/ Carried(x, o, p.x, COMMIT(p.x.srv))
  BY <1>1, TailFacts
<1> QED BY <1>2

\* ROLLBACK, in dbtransaction::do_abort().
LEMMA ExecRollback ==
  ASSUME NEW x, Good(x), NEW o \in Exec(x, ROLLBACK)
  PROVE  Broke(x, o) \/ \E y : Carried(x, o, y, ROLLBACK(y.srv))
<1>1. PICK p \in activate(x) :
        IF p.exc = "ok"
        THEN \E q \in QueryOut(p.x, ROLLBACK(p.x.srv)) :
               IF q.exc = "ok" THEN o \in get_notifs(q.x) ELSE o = q
        ELSE o = p
  BY DEF Exec, Then, Query, QueryOut
<1>2. Broke(x, o) \/ Carried(x, o, p.x, ROLLBACK(p.x.srv))
  BY <1>1, TailFacts
<1> QED BY <1>2

----------------------------------------------------------------------------
(* The client's operations.                                                *)

\* An operation whose command changed nothing.
LEMMA QuietDone ==
  ASSUME NEW x, NEW o, NEW y, Done(x, o, y, y.srv)
  PROVE  o.exc = "ok" /\ Good(o.x) /\ Frame(x, o.x) /\ o.x = y
<1>1. y \in StateType /\ o.x = [y EXCEPT !.srv = y.srv]
  BY DEF Done, Reached, Good, Sound, Typed
<1>2. o.x = y
  BY <1>1 DEF StateType
<1> QED BY <1>2 DEF Done, Reached

\* get_variable().
LEMMA GetVariableFacts ==
  ASSUME NEW x, Good(x), NEW var \in Var, NEW o \in get_variable(x, var)
  PROVE  Fine(o)
<1>1. o = Ok(x) \/ o \in Exec(x, SHOW)
  BY DEF get_variable
<1>2. CASE o = Ok(x)
  BY <1>2 DEF Ok, Out, Fine, Good
<1>3. CASE o \in Exec(x, SHOW)
  BY <1>3, ExecShow, QuietDone DEF Threw, Fine, Good
<1> QED BY <1>1, <1>2, <1>3

\* The session after SET.
LEMMA SetFacts ==
  ASSUME NEW srv \in SrvType, NEW var \in Var, NEW val \in Val
  PROVE  LET t == [srv EXCEPT !.set[var] = val]
         IN  /\ t \in SrvType /\ t.block = srv.block /\ t.prep = srv.prep
             /\ t.listen = srv.listen /\ t.saved = srv.saved
             /\ t.set = [srv.set EXCEPT ![var] = val]
<1>1. [srv EXCEPT !.set[var] = val] = [srv EXCEPT !.set = [srv.set EXCEPT ![var] = val]]
  BY DEF SrvType
<1> DEFINE f == [srv.set EXCEPT ![var] = val]
<1>2. f \in [Var -> Val \cup {Default}]
  BY DEF SrvType
<1> HIDE DEF f
<1>3. LET t == [srv EXCEPT !.set = f]
      IN  /\ t \in SrvType /\ t.block = srv.block /\ t.prep = srv.prep
          /\ t.listen = srv.listen /\ t.saved = srv.saved /\ t.set = f
  BY <1>2 DEF SrvType
<1> QED BY <1>1, <1>3 DEF f

\* set_variable() of a transaction.
LEMMA SetInTxFacts ==
  ASSUME NEW x, Good(x), NEW var \in Var, NEW val \in Val, x.tx # "none",
         Careless = {} => x.tx = "active", NEW o \in set_variable(x, var, val)
  PROVE  Fine(o)
<1>1. PICK p \in Exec(x, LAMBDA srv : SET(srv, var, val)) :
        IF p.exc = "ok" THEN o = Ok([p.x EXCEPT !.tvars = Put(@, var, val)]) ELSE o = p
  BY DEF set_variable, Then, RawSetVar
<1>2. CASE Threw(x, p)
  BY <1>1, <1>2 DEF Threw, Fine
<1>3. CASE \E y : val \notin Rejected /\ Done(x, p, y, [y.srv EXCEPT !.set[var] = val])
  <2>1. PICK y : val \notin Rejected /\ Done(x, p, y, [y.srv EXCEPT !.set[var] = val])
    BY <1>3
  <2> DEFINE t == [y.srv EXCEPT !.set[var] = val]
             f == Put(y.tvars, var, val)
  <2>2. /\ y \in StateType /\ y.srv \in SrvType /\ Sound(y) /\ y.tx = x.tx
        /\ Careless = {} => Whole(y) /\ y.alive /\ y.handle = "ok"
    BY <2>1 DEF Done, Reached, Frame, Good, Sound, Typed, StateType
  <2>3. /\ t \in SrvType /\ t.block = y.srv.block /\ t.prep = y.srv.prep
        /\ t.listen = y.srv.listen /\ t.saved = y.srv.saved
        /\ t.set = [y.srv.set EXCEPT ![var] = val]
    BY <2>2, SetFacts
  <2>4. /\ f \in PartialType(Var, Val) /\ DOMAIN f = DOMAIN y.tvars \cup {var}
        /\ f[var] = val /\ \A j \in DOMAIN y.tvars : j # var => f[j] = y.tvars[j]
    BY <2>2, PutFacts, SMTT(30) DEF StateType
  <2> HIDE DEF t, f
  <2> DEFINE w == [y EXCEPT !.srv = t]
             z == [w EXCEPT !.tvars = f]
  <2>5. p.x = w /\ p.exc = "ok" /\ w.tvars = y.tvars
    BY <2>1, <2>2 DEF Done, t, StateType
  <2>6. o.x = z /\ o.exc = "ok"
    BY <1>1, <2>5 DEF Ok, Out, f
  <2>7. /\ z \in StateType /\ z.srv = t /\ z.handle = y.handle /\ z.alive = y.alive
        /\ z.defs = y.defs /\ z.vars = y.vars /\ z.recs = y.recs /\ z.tx = y.tx
        /\ z.tvars = f
    BY <2>2, <2>3, <2>4 DEF StateType
  <2> HIDE DEF w, z
  <2>8. Typed(z) /\ InSync(z)
    BY <2>2, <2>3, <2>7 DEF Sound, Typed, InSync
  <2>9. ASSUME Careless = {} PROVE Accepted(z) /\ SetUp(z) /\ Whole(z)
    <3>1. Accepted(z)
      BY <2>1, <2>2, <2>4, <2>7, <2>9 DEF Sound, Accepted
    <3>2. y.srv.block = "open" /\ y.srv.set = GivenInTx(y) /\ y.alive /\ y.handle = "ok"
      BY <2>2, <2>9 DEF Whole
    <3>3. SetUp(z)
      BY <2>2, <2>3, <2>7, <2>9, <3>2 DEF Sound, SetUp
    <3>4. [y.srv.set EXCEPT ![var] = val] = GivenInTx(z)
      BY <2>4, <2>7, <3>2 DEF GivenInTx
    <3> QED BY <2>3, <2>7, <3>1, <3>2, <3>3, <3>4 DEF Whole
  <2> QED BY <2>6, <2>8, <2>9 DEF Fine, Good, Sound
<1> QED BY <1>2, <1>3, ExecSet

\* set_variable() without a transaction: the session has the value, or will have it.
LEMMA SetIdleFacts ==
  ASSUME NEW x, Good(x), NEW var \in Var, NEW val \in Val, x.tx = "none",
         Careless = {} /\ ~is_open(x) => val \notin Rejected,
         NEW o \in set_variable(x, var, val)
  PROVE  Fine(o)
<1> DEFINE f == Put(x.vars, var, val)
<1>1. x \in StateType /\ x.srv \in SrvType /\ Sound(x) /\ x.srv.block = "idle"
  BY DEF Good, Sound, Typed, StateType
<1>2. /\ f \in PartialType(Var, Val) /\ DOMAIN f = DOMAIN x.vars \cup {var}
      /\ f[var] = val /\ \A j \in DOMAIN x.vars : j # var => f[j] = x.vars[j]
  BY <1>1, PutFacts DEF StateType
<1>3. CASE ~is_open(x)
  <2> DEFINE z == [x EXCEPT !.vars = f]
  <2>1. o = Ok(z)
    BY <1>3 DEF set_variable, Then, Ok, Out
  <2> HIDE DEF f
  <2>2. /\ z \in StateType /\ z.srv = x.srv /\ z.handle = x.handle /\ z.alive = x.alive
        /\ z.defs = x.defs /\ z.vars = f /\ z.recs = x.recs /\ z.tx = x.tx
        /\ z.tvars = x.tvars
    BY <1>1, <1>2 DEF StateType
  <2> HIDE DEF z
  <2>3. ~x.alive
    BY <1>1, <1>3 DEF Sound, Typed, is_open
  <2>4. Typed(z) /\ InSync(z)
    BY <1>1, <2>2, <2>3 DEF Sound, Typed, InSync
  <2>5. Careless = {} => Accepted(z) /\ SetUp(z) /\ Whole(z)
    BY <1>1, <1>2, <1>3, <2>2, <2>3 DEF Sound, Accepted, SetUp, Whole
  <2> QED BY <2>1, <2>4, <2>5 DEF Ok, Out, Fine, Good, Sound
<1>4. CASE is_open(x)
  <2>1. PICK p \in Exec(x, LAMBDA srv : SET(srv, var, val)) :
          IF p.exc = "ok" THEN o = Ok([p.x EXCEPT !.vars = Put(@, var, val)]) ELSE o = p
    BY <1>4 DEF set_variable, Then, RawSetVar
  <2>2. CASE Threw(x, p)
    BY <2>1, <2>2 DEF Threw, Fine
  <2>3. CASE \E y : val \notin Rejected /\ Done(x, p, y, [y.srv EXCEPT !.set[var] = val])
    <3> DEFINE t == [x.srv EXCEPT !.set[var] = val]
    <3>1. val \notin Rejected /\ p.exc = "ok" /\ p.x = [x EXCEPT !.srv = t]
      BY <1>4, <2>3 DEF Done, Reached
    <3>2. /\ t \in SrvType /\ t.block = x.srv.block /\ t.prep = x.srv.prep
          /\ t.listen = x.srv.listen /\ t.saved = x.srv.saved
          /\ t.set = [x.srv.set EXCEPT ![var] = val]
      BY <1>1, SetFacts
    <3> HIDE DEF t
    <3> DEFINE w == [x EXCEPT !.srv = t]
               z == [w EXCEPT !.vars = f]
    <3>3. w.vars = x.vars
      BY <1>1 DEF StateType
    <3>4. o.x = z /\ o.exc = "ok"
      BY <2>1, <3>1, <3>3 DEF Ok, Out
    <3> HIDE DEF f
    <3>5. /\ z \in StateType /\ z.srv = t /\ z.handle = x.handle /\ z.alive = x.alive
          /\ z.defs = x.defs /\ z.vars = f /\ z.recs = x.recs /\ z.tx = x.tx
          /\ z.tvars = x.tvars
      BY <1>1, <1>2, <3>2 DEF StateType
    <3> HIDE DEF w, z
    <3>6. Typed(z) /\ InSync(z)
      BY <1>1, <3>2, <3>5 DEF Sound, Typed, InSync
    <3>7. ASSUME Careless = {} PROVE Accepted(z) /\ SetUp(z) /\ Whole(z)
      <4>1. Accepted(z)
        BY <1>1, <1>2, <3>1, <3>5, <3>7 DEF Sound, Accepted
      <4>2. z.alive => x.srv.set = Given(x.vars) /\ x.srv.listen = Channels(x.recs)
        BY <1>1, <3>5, <3>7 DEF Sound, SetUp
      <4>3. z.alive => [x.srv.set EXCEPT ![var] = val] = Given(z.vars)
        BY <1>2, <3>5, <4>2 DEF Given
      <4> QED BY <1>1, <3>2, <3>5, <4>1, <4>2, <4>3 DEF SetUp, Whole
    <3> QED BY <3>4, <3>6, <3>7 DEF Fine, Good, Sound
  <2> QED BY <2>2, <2>3, ExecSet
<1> QED BY <1>3, <1>4

\* Changing the receivers of a connection changes its state only there.
LEMMA WithRecs ==
  ASSUME NEW x \in StateType, NEW R \in SUBSET Receiver
  PROVE  LET z == [x EXCEPT !.recs = R]
         IN  /\ z \in StateType /\ z.srv = x.srv /\ z.handle = x.handle
             /\ z.alive = x.alive /\ z.defs = x.defs /\ z.vars = x.vars /\ z.recs = R
             /\ z.tx = x.tx /\ z.tvars = x.tvars
BY DEF StateType

\* It leaves the connection in order if the session is gone or listens accordingly.
LEMMA WithRecsGood ==
  ASSUME NEW x, Sound(x), NEW R \in SUBSET Receiver, Careless = {} => x.tx = "none",
         x.alive /\ Careless = {} => Channels(R) = x.srv.listen
  PROVE  Good([x EXCEPT !.recs = R])
<1> DEFINE z == [x EXCEPT !.recs = R]
<1>1. x \in StateType
  BY DEF Sound, Typed
<1>2. /\ z \in StateType /\ z.srv = x.srv /\ z.handle = x.handle
      /\ z.alive = x.alive /\ z.defs = x.defs /\ z.vars = x.vars /\ z.recs = R
      /\ z.tx = x.tx /\ z.tvars = x.tvars
  BY <1>1, WithRecs
<1> HIDE DEF z
<1>3. Typed(z) /\ InSync(z)
  BY <1>2 DEF Sound, Typed, InSync
<1>4. Careless = {} => Accepted(z) /\ SetUp(z) /\ Whole(z)
  BY <1>2 DEF Sound, Typed, Accepted, SetUp, Whole
<1> QED BY <1>3, <1>4 DEF Good, Sound, z

\* The session after LISTEN or UNLISTEN.
LEMMA ListenFacts ==
  ASSUME NEW srv \in SrvType, NEW L \in SUBSET Channels(Receiver)
  PROVE  LET t == [srv EXCEPT !.listen = L]
         IN  /\ t \in SrvType /\ t.block = srv.block /\ t.prep = srv.prep
             /\ t.listen = L /\ t.saved = srv.saved /\ t.set = srv.set
BY DEF SrvType

\* add_receiver().
LEMMA AddReceiverFacts ==
  ASSUME NEW x, Good(x), NEW r \in Receiver, Careless = {} => x.tx = "none",
         NEW o \in add_receiver(x, r)
  PROVE  Fine(o)
<1> DEFINE ch == Channel[r]
<1>1. x \in StateType /\ x.srv \in SrvType /\ Sound(x) /\ x.recs \subseteq Receiver
  BY DEF Good, Sound, Typed, StateType
<1>2. Channels(x.recs \cup {r}) = Channels(x.recs) \cup {ch} /\ ch \in Channels(Receiver)
  BY DEF Channels
<1>3. ASSUME NEW y, Sound(y), y.recs = x.recs, Careless = {} => y.tx = "none",
             y.alive /\ Careless = {} => y.srv.listen = Channels(x.recs \cup {r})
      PROVE  Good(Add(y, r))
  <2>1. Add(y, r) = [y EXCEPT !.recs = x.recs \cup {r}]
    BY <1>3 DEF Add
  <2>2. x.recs \cup {r} \in SUBSET Receiver
    BY <1>1
  <2>3. y.alive /\ Careless = {} => Channels(x.recs \cup {r}) = y.srv.listen
    BY <1>3
  <2> QED BY <1>3, <2>1, <2>2, <2>3, WithRecsGood
<1>4. CASE ch \in Channels(x.recs) \/ ~is_open(x)
  <2>1. o = Ok(Add(x, r))
    BY <1>4 DEF add_receiver
  <2>2. x.alive /\ Careless = {} => x.srv.listen = Channels(x.recs \cup {r})
    BY <1>1, <1>2, <1>4 DEF Sound, Typed, SetUp, is_open
  <2>3. Good(Add(x, r))
    BY <1>1, <1>3, <2>2
  <2> QED BY <2>1, <2>3 DEF Ok, Out, Fine, Good
<1>5. CASE ch \notin Channels(x.recs) /\ is_open(x)
  <2>1. PICK q \in QueryOut(x, LISTEN(x.srv, ch)) :
          o = IF q.exc \in {"ok", "broken"} THEN Ok(Add(q.x, r)) ELSE q
    BY <1>5 DEF add_receiver, Query, QueryOut
  <2> DEFINE L == x.srv.listen \cup {ch}
             t == [x.srv EXCEPT !.listen = L]
  <2>2. LISTEN(x.srv, ch) \subseteq Do(x.srv, t) \cup Refuse(x.srv)
    BY DEF LISTEN
  <2>3. Broke(x, q) \/ Carried(x, q, x, LISTEN(x.srv, ch))
    BY <1>5, <2>1, QueryFacts DEF is_open
  <2>4. CASE Broke(x, q)
    <3>1. Good(Add(q.x, r))
      BY <1>3, <2>4 DEF Broke, Frame
    <3> QED BY <2>1, <2>4, <3>1 DEF Broke, Ok, Out, Fine, Good
  <2>5. CASE Carried(x, q, x, LISTEN(x.srv, ch))
    <3>1. Threw(x, q) \/ Done(x, q, x, t)
      BY <2>2, <2>5, DoFacts
    <3>2. CASE Done(x, q, x, t)
      <4>1. L \in SUBSET Channels(Receiver)
        BY <1>1, <1>2 DEF SrvType
      <4> HIDE DEF L
      <4>2. /\ t \in SrvType /\ t.block = x.srv.block /\ t.prep = x.srv.prep
            /\ t.listen = L /\ t.saved = x.srv.saved /\ t.set = x.srv.set
        BY <1>1, <4>1, ListenFacts
      <4> HIDE DEF t
      <4> DEFINE w == [x EXCEPT !.srv = t]
                 z == [w EXCEPT !.recs = x.recs \cup {r}]
      <4>3. q.x = w /\ q.exc = "ok" /\ x.alive
        BY <3>2 DEF Done, Reached
      <4>4. Ok(Add(q.x, r)) = Ok(z)
        BY <1>1, <4>3 DEF Add, StateType
      <4>5. /\ z \in StateType /\ z.srv = t /\ z.handle = x.handle
            /\ z.alive = x.alive /\ z.defs = x.defs /\ z.vars = x.vars
            /\ z.recs = x.recs \cup {r} /\ z.tx = x.tx /\ z.tvars = x.tvars
        BY <1>1, <4>2 DEF StateType
      <4> HIDE DEF w, z
      <4>6. Typed(z) /\ InSync(z)
        BY <1>1, <4>2, <4>5 DEF Sound, Typed, InSync
      <4>7. ASSUME Careless = {} PROVE Accepted(z) /\ SetUp(z) /\ Whole(z)
        <5>1. x.srv.listen = Channels(x.recs) /\ x.srv.block = "idle"
              /\ x.srv.set = Given(x.vars) /\ Accepted(x)
          BY <1>1, <4>3, <4>7 DEF Sound, Typed, SetUp
        <5> QED BY <1>2, <4>2, <4>5, <4>7, <5>1 DEF Accepted, SetUp, Whole, L
      <4> QED BY <2>1, <4>3, <4>4, <4>6, <4>7 DEF Ok, Out, Fine, Good, Sound
    <3>3. CASE Threw(x, q)
      <4>1. CASE q.exc = "broken"
        <5>1. q = Out(Gone(x, "none"), "broken") \/ \E a \in LISTEN(x.srv, ch) : a.exc = "broken"
          BY <2>1, <4>1 DEF QueryOut, Out
        <5>2. \A a \in LISTEN(x.srv, ch) : a.exc # "broken"
          BY <2>2 DEF Do, Refuse, Answer
        <5>3. Broke(x, q)
          BY <1>1, <5>1, <5>2, GoneFacts DEF Broke, Out
        <5> QED BY <2>4, <5>3
      <4>2. CASE q.exc # "broken"
        BY <2>1, <3>3, <4>2 DEF Threw, Fine
      <4> QED BY <4>1, <4>2
    <3> QED BY <3>1, <3>2, <3>3
  <2> QED BY <2>3, <2>4, <2>5
<1> QED BY <1>4, <1>5

\* remove_receiver(): the receiver is gone at once, and the session stops listening,
\* or is lost.
LEMMA RemoveReceiverFacts ==
  ASSUME NEW x, Good(x), NEW r \in Receiver, Careless = {} => x.tx = "none",
         NEW o \in remove_receiver(x, r)
  PROVE  Fine(o)
<1> DEFINE ch == Channel[r]
           R == x.recs \ {r}
           y == [x EXCEPT !.recs = R]
<1>1. x \in StateType /\ x.srv \in SrvType /\ Sound(x) /\ R \in SUBSET Receiver
  BY DEF Good, Sound, Typed, StateType
<1>2. Channels(x.recs) \ {ch} \subseteq Channels(R) /\ Channels(R) \subseteq Channels(x.recs)
  BY DEF Channels
<1>3. /\ y \in StateType /\ y.srv = x.srv /\ y.handle = x.handle
      /\ y.alive = x.alive /\ y.defs = x.defs /\ y.vars = x.vars /\ y.recs = R
      /\ y.tx = x.tx /\ y.tvars = x.tvars
  BY <1>1, WithRecs
<1>4. x.alive /\ Careless = {} =>
        x.srv.listen = Channels(x.recs) /\ x.srv.block = "idle" /\ x.srv.set = Given(x.vars)
  BY <1>1 DEF Sound, Typed, SetUp
<1>5. CASE x.handle = "none" \/ ch \in Channels(R)
  <2>1. o = Ok(y)
    BY <1>3, <1>5 DEF remove_receiver
  <2>2. x.alive /\ Careless = {} => Channels(R) = x.srv.listen
    BY <1>1, <1>2, <1>4, <1>5 DEF Sound, Typed
  <2>3. Good(y)
    BY <1>1, <2>2, WithRecsGood
  <2> QED BY <2>1, <2>3 DEF Ok, Out, Fine, Good
<1>6. CASE x.handle # "none" /\ ch \notin Channels(R)
  <2>1. PICK p \in Exec(y, LAMBDA srv : UNLISTEN(srv, ch)) : o = Ok(p.x)
    BY <1>3, <1>6 DEF remove_receiver
  <2>2. SUFFICES Good(p.x)
    BY <2>1 DEF Ok, Out, Fine, Good
  <2>3. CASE ~x.alive
    <3>1. Good(y)
      BY <1>1, <2>3, WithRecsGood
    <3> HIDE DEF y
    <3>2. CASE Threw(y, p)
      BY <1>3, <3>2 DEF Threw, Good, Whole, Frame
    <3>3. CASE \E w : Done(y, p, w, [w.srv EXCEPT !.listen = @ \ {ch}])
      <4>1. PICK w : Done(y, p, w, [w.srv EXCEPT !.listen = @ \ {ch}])
        BY <3>3
      <4>2. Good(w) /\ w \in StateType /\ w.srv \in SrvType /\ w.recs = R /\ w.tx = x.tx
        BY <1>3, <4>1 DEF Done, Reached, Frame, Good, Sound, Typed, StateType
      <4> DEFINE t == [w.srv EXCEPT !.listen = w.srv.listen \ {ch}]
      <4>3. p.x = [w EXCEPT !.srv = t]
        BY <4>1 DEF Done
      <4>4. w.srv.listen \ {ch} \in SUBSET Channels(Receiver)
        BY <4>2 DEF SrvType
      <4>5. /\ t \in SrvType /\ t.block = w.srv.block /\ t.prep = w.srv.prep
            /\ t.listen = w.srv.listen \ {ch} /\ t.saved = w.srv.saved
            /\ t.set = w.srv.set
        BY <4>2, <4>4, ListenFacts
      <4> HIDE DEF t
      <4> DEFINE z == [w EXCEPT !.srv = t]
      <4>6. /\ z \in StateType /\ z.srv = t /\ z.handle = w.handle
            /\ z.alive = w.alive /\ z.defs = w.defs /\ Frame(w, z)
        BY <4>2, <4>5, WithFacts
      <4> HIDE DEF z
      <4>7. Typed(z) /\ InSync(z)
        BY <4>2, <4>5, <4>6 DEF Good, Sound, Typed, InSync, Frame
      <4>8. ASSUME Careless = {} PROVE Accepted(z) /\ SetUp(z) /\ Whole(z)
        <5>1. z.tx = "none" /\ w.srv.block = "idle" /\ Accepted(z)
          BY <4>2, <4>6, <4>8 DEF Good, Sound, Typed, Accepted, Frame
        <5>2. w.alive => t.listen = Channels(R) /\ t.set = Given(w.vars)
          BY <1>6, <4>2, <4>5, <4>8, <5>1 DEF Good, Sound, SetUp
        <5> QED BY <4>2, <4>5, <4>6, <5>1, <5>2 DEF SetUp, Whole, Frame
      <4> QED BY <4>3, <4>7, <4>8 DEF Good, Sound, z
    <3> QED BY <2>1, <3>1, <3>2, <3>3, ExecUnlisten DEF y
  <2>4. CASE x.alive
    <3> HIDE DEF y
    <3> DEFINE A == UNLISTEN(y.srv, ch)
    <3>1. y.handle = "ok" /\ y.alive
      BY <1>1, <1>3, <2>4 DEF Sound, Typed
    <3>2. PICK q \in QueryOut(y, A) : IF q.exc = "ok" THEN p \in get_notifs(q.x) ELSE p = q
      <4>1. PICK u \in activate(y) :
              IF u.exc = "ok"
              THEN \E q \in QueryOut(u.x, UNLISTEN(u.x.srv, ch)) :
                     IF q.exc = "ok" THEN p \in get_notifs(q.x) ELSE p = q
              ELSE p = u
        BY <2>1 DEF Exec, Then, Query, QueryOut
      <4>2. u.x = y /\ u.exc = "ok"
        BY <3>1, <4>1 DEF activate, is_open, Ok, Out
      <4> QED BY <4>1, <4>2
    <3>3. ASSUME NEW h \in {"none", "bad"} PROVE Good(Gone(y, h))
      <4> DEFINE g == Gone(x, h)
      <4>1. /\ Sound(g) /\ Frame(x, g) /\ ~g.alive
        BY <1>1, GoneFacts
      <4>2. Gone(y, h) = [g EXCEPT !.recs = R]
        BY <1>1 DEF Gone, StateType, y
      <4> HIDE DEF g
      <4> QED BY <1>1, <4>1, <4>2, WithRecsGood DEF Frame
    <3>4. CASE p.x \in {Gone(y, "none"), Gone(y, "bad")}
      BY <3>3, <3>4
    <3>5. CASE \E a \in A : p.x = [y EXCEPT !.srv = a.srv]
      <4>1. PICK a \in A : p.x = [y EXCEPT !.srv = a.srv]
        BY <3>5
      <4> DEFINE t == [y.srv EXCEPT !.listen = y.srv.listen \ {ch}]
      <4>2. y.srv \in SrvType /\ y.srv.listen \ {ch} \in SUBSET Channels(Receiver)
        BY <1>1, <1>3 DEF SrvType
      <4>3. /\ t \in SrvType /\ t.block = y.srv.block /\ t.prep = y.srv.prep
            /\ t.listen = y.srv.listen \ {ch} /\ t.saved = y.srv.saved
            /\ t.set = y.srv.set
        BY <4>2, ListenFacts
      <4>4. (a \in Refuse(y.srv) /\ y.srv.block = "failed") \/ a = Answer(t, "ok")
        BY DEF UNLISTEN, Do
      <4> HIDE DEF t
      <4>5. /\ a.srv \in SrvType /\ a.srv.prep = y.srv.prep
            /\ (y.srv.block = "idle" => a.srv = t /\ a.srv.block = "idle")
        <5>1. CASE a = Answer(t, "ok")
          BY <4>3, <5>1 DEF Answer
        <5>2. CASE a \in Refuse(y.srv) /\ y.srv.block = "failed"
          BY <4>2, <5>2 DEF Refuse, Answer, SrvType, Block
        <5> QED BY <4>4, <5>1, <5>2
      <4> DEFINE z == [y EXCEPT !.srv = a.srv]
      <4>6. /\ z \in StateType /\ z.srv = a.srv /\ z.handle = y.handle
            /\ z.alive = y.alive /\ z.defs = y.defs /\ Frame(y, z)
        BY <1>3, <4>5, WithFacts
      <4> HIDE DEF z
      <4>7. Typed(z) /\ InSync(z)
        BY <1>1, <1>3, <4>5, <4>6 DEF Sound, Typed, InSync, Frame
      <4>8. ASSUME Careless = {} PROVE Accepted(z) /\ SetUp(z) /\ Whole(z)
        <5>1. /\ z.tx = "none" /\ y.srv.block = "idle" /\ Accepted(z)
              /\ y.srv.listen = Channels(x.recs) /\ y.srv.set = Given(x.vars)
          BY <1>1, <1>3, <1>4, <2>4, <4>6, <4>8 DEF Sound, Accepted, Frame
        <5>2. t.listen = Channels(R)
          BY <1>2, <1>6, <4>3, <5>1
        <5> QED BY <1>3, <4>3, <4>5, <4>6, <5>1, <5>2 DEF SetUp, Whole, Frame
      <4> QED BY <4>1, <4>7, <4>8 DEF Good, Sound, z
    <3>6. \/ p.x \in {Gone(y, "none"), Gone(y, "bad")}
          \/ \E a \in A : p.x = [y EXCEPT !.srv = a.srv]
      <4>1. CASE q = Out(Gone(y, "none"), "broken")
        BY <3>2, <4>1 DEF Out
      <4>2. CASE \E a \in A : q = Out([y EXCEPT !.srv = a.srv], a.exc)
        <5>1. PICK a \in A : q = Out([y EXCEPT !.srv = a.srv], a.exc)
          BY <4>2
        <5>2. q.x = [y EXCEPT !.srv = a.srv]
          BY <5>1 DEF Out
        <5>3. Gone(q.x, "bad") = Gone(y, "bad")
          BY <1>3, <5>2 DEF Gone, StateType
        <5> QED BY <3>2, <5>2, <5>3, GetNotifsFacts
      <4> QED BY <3>2, <4>1, <4>2 DEF QueryOut
    <3> QED BY <3>4, <3>5, <3>6
  <2> QED BY <2>3, <2>4
<1> QED BY <1>5, <1>6

\* Changing the definitions and what the session has prepared, in step.
LEMMA WithDefsFacts ==
  ASSUME NEW y, Good(y), NEW t \in SrvType, NEW f \in PartialType(Name, Entry),
         t.block = y.srv.block, t.listen = y.srv.listen, t.saved = y.srv.saved,
         t.set = y.srv.set,
         y.alive => \A n \in Name \ {Unnamed} :
                      t.prep[n] = IF n \in DOMAIN f /\ f[n].registered
                                  THEN f[n].def ELSE NoDef
  PROVE  Good([y EXCEPT !.srv = t, !.defs = f])
<1>1. y \in StateType
  BY DEF Good, Sound, Typed
<1> DEFINE z == [y EXCEPT !.srv = t, !.defs = f]
<1>2. /\ z \in StateType /\ z.srv = t /\ z.handle = y.handle /\ z.alive = y.alive
      /\ z.defs = f /\ z.vars = y.vars /\ z.recs = y.recs /\ z.tx = y.tx
      /\ z.tvars = y.tvars
  BY <1>1 DEF StateType
<1> HIDE DEF z
<1>3. Typed(z) /\ InSync(z)
  BY <1>2 DEF Good, Sound, Typed, InSync
<1>4. Careless = {} => Accepted(z) /\ SetUp(z) /\ Whole(z)
  BY <1>2 DEF Good, Sound, Accepted, SetUp, Whole, GivenInTx
<1> QED BY <1>3, <1>4 DEF Good, Sound, z

\* The session after PREPARE or DEALLOCATE.
LEMMA PrepFacts ==
  ASSUME NEW srv \in SrvType, NEW n \in Name, NEW d \in Def \cup {NoDef}
  PROVE  LET t == [srv EXCEPT !.prep[n] = d]
         IN  /\ t \in SrvType /\ t.block = srv.block /\ t.listen = srv.listen
             /\ t.saved = srv.saved /\ t.set = srv.set
             /\ t.prep = [srv.prep EXCEPT ![n] = d]
<1>1. [srv EXCEPT !.prep[n] = d] = [srv EXCEPT !.prep = [srv.prep EXCEPT ![n] = d]]
  BY DEF SrvType
<1> DEFINE f == [srv.prep EXCEPT ![n] = d]
<1>2. f \in [Name -> Def \cup {NoDef}]
  BY DEF SrvType
<1> HIDE DEF f
<1>3. LET t == [srv EXCEPT !.prep = f]
      IN  /\ t \in SrvType /\ t.block = srv.block /\ t.listen = srv.listen
          /\ t.saved = srv.saved /\ t.set = srv.set /\ t.prep = f
  BY <1>2 DEF SrvType
<1> QED BY <1>1, <1>3 DEF f

\* Put() on the definitions.
LEMMA PutEntry ==
  ASSUME NEW f \in PartialType(Name, Entry), NEW n \in Name, NEW e \in Entry
  PROVE  /\ Put(f, n, e) \in PartialType(Name, Entry)
         /\ DOMAIN Put(f, n, e) = DOMAIN f \cup {n} /\ Put(f, n, e)[n] = e
         /\ \A m \in DOMAIN f : m # n => Put(f, n, e)[m] = f[m]
BY PartialFacts DEF Put

\* prepare() only takes note of the definition.
LEMMA PrepareFacts ==
  ASSUME NEW x, Good(x), NEW n \in Name, NEW def \in Def, NEW o \in prepare(x, n, def)
  PROVE  Fine(o)
<1>1. \/ o \in {Ok(x), Out(x, "argument")}
      \/ (n \notin DOMAIN x.defs \/ n = Unnamed) /\ o = Ok(Define(x, n, def))
  BY DEF prepare
<1>2. CASE o \in {Ok(x), Out(x, "argument")}
  BY <1>2 DEF Ok, Out, Fine, Good
<1>3. CASE (n \notin DOMAIN x.defs \/ n = Unnamed) /\ o = Ok(Define(x, n, def))
  <2>d. [def |-> def, registered |-> FALSE] \in Entry
    BY DEF Entry
  <2>e. PICK e \in Entry : e = [def |-> def, registered |-> FALSE]
    BY <2>d
  <2> DEFINE f == Put(x.defs, n, e)
  <2>1. x \in StateType /\ x.srv \in SrvType /\ x.defs \in PartialType(Name, Entry) /\ InSync(x)
    BY DEF Good, Sound, Typed, StateType
  <2>2. /\ f \in PartialType(Name, Entry) /\ DOMAIN f = DOMAIN x.defs \cup {n}
        /\ f[n] = e /\ \A m \in DOMAIN x.defs : m # n => f[m] = x.defs[m]
    BY <2>1, PutEntry
  <2>3. Define(x, n, def) = [x EXCEPT !.defs = f]
    BY <2>e DEF Define
  <2> HIDE DEF f
  <2>4. [x EXCEPT !.defs = f] = [x EXCEPT !.srv = x.srv, !.defs = f]
    BY <2>1 DEF StateType
  <2>5. x.alive => \A m \in Name \ {Unnamed} :
                     x.srv.prep[m] = IF m \in DOMAIN f /\ f[m].registered
                                     THEN f[m].def ELSE NoDef
    BY <1>3, <2>e, <2>1, <2>2 DEF InSync
  <2>6. Good([x EXCEPT !.srv = x.srv, !.defs = f])
    BY <2>1, <2>2, <2>5, WithDefsFacts
  <2> QED BY <1>3, <2>3, <2>4, <2>6 DEF Ok, Out, Fine, Good
<1> QED BY <1>1, <1>2, <1>3

\* unprepare().
LEMMA UnprepareFacts ==
  ASSUME NEW x, Good(x), NEW n \in Name, n \in DOMAIN x.defs, NEW o \in unprepare(x, n)
  PROVE  Fine(o)
<1> DEFINE Without(f) == Restrict(f, DOMAIN f \ {n})
<1>1. ASSUME NEW f \in PartialType(Name, Entry)
      PROVE  /\ Without(f) \in PartialType(Name, Entry)
             /\ DOMAIN Without(f) = DOMAIN f \ {n}
             /\ \A m \in DOMAIN f \ {n} : Without(f)[m] = f[m]
  BY PartialFacts DEF Restrict
<1>2. CASE ~x.defs[n].registered
  <2>1. x \in StateType /\ x.srv \in SrvType /\ x.defs \in PartialType(Name, Entry) /\ InSync(x)
    BY DEF Good, Sound, Typed, StateType
  <2> DEFINE f == Without(x.defs)
  <2>2. o = Ok([x EXCEPT !.defs = f])
    BY <1>2 DEF unprepare, Then, Ok, Out
  <2>3. /\ f \in PartialType(Name, Entry) /\ DOMAIN f = DOMAIN x.defs \ {n}
        /\ \A m \in DOMAIN x.defs \ {n} : f[m] = x.defs[m]
    BY <1>1, <2>1
  <2> HIDE DEF f
  <2>4. [x EXCEPT !.defs = f] = [x EXCEPT !.srv = x.srv, !.defs = f]
    BY <2>1 DEF StateType
  <2>5. x.alive => \A m \in Name \ {Unnamed} :
                     x.srv.prep[m] = IF m \in DOMAIN f /\ f[m].registered
                                     THEN f[m].def ELSE NoDef
    BY <1>2, <2>1, <2>3 DEF InSync
  <2>6. Good([x EXCEPT !.srv = x.srv, !.defs = f])
    BY <2>1, <2>3, <2>5, WithDefsFacts
  <2> QED BY <2>2, <2>4, <2>6 DEF Ok, Out, Fine, Good
<1>3. CASE x.defs[n].registered
  <2>1. PICK p \in Exec(x, LAMBDA srv : DEALLOCATE(srv, n)) :
          IF p.exc = "ok" THEN o = Ok([p.x EXCEPT !.defs = Without(@)]) ELSE o = p
    BY <1>3 DEF unprepare, Then
  <2>2. CASE Threw(x, p)
    BY <2>1, <2>2 DEF Threw, Fine
  <2>3. CASE \E y : Done(x, p, y, [y.srv EXCEPT !.prep[n] = NoDef])
    <3>1. PICK y : Done(x, p, y, [y.srv EXCEPT !.prep[n] = NoDef])
      BY <2>3
    <3>2. /\ Good(y) /\ y \in StateType /\ y.srv \in SrvType /\ InSync(y)
          /\ y.defs \in PartialType(Name, Entry)
      BY <3>1 DEF Done, Reached, Good, Sound, Typed, StateType
    <3> DEFINE t == [y.srv EXCEPT !.prep[n] = NoDef]
               f == Without(y.defs)
    <3>3. p.x = [y EXCEPT !.srv = t] /\ p.exc = "ok"
      BY <3>1 DEF Done
    <3>4. /\ t \in SrvType /\ t.block = y.srv.block /\ t.listen = y.srv.listen
          /\ t.saved = y.srv.saved /\ t.set = y.srv.set
          /\ t.prep = [y.srv.prep EXCEPT ![n] = NoDef]
      BY <3>2, PrepFacts, ZenonT(60)
    <3>5. /\ f \in PartialType(Name, Entry) /\ DOMAIN f = DOMAIN y.defs \ {n}
          /\ \A m \in DOMAIN y.defs \ {n} : f[m] = y.defs[m]
      BY <1>1, <3>2
    <3> HIDE DEF t
    <3>6. p.x.defs = y.defs
      BY <3>2, <3>3 DEF StateType
    <3>7. o = Ok([p.x EXCEPT !.defs = f])
      BY <2>1, <3>3, <3>6
    <3> HIDE DEF f
    <3>8. [p.x EXCEPT !.defs = f] = [y EXCEPT !.srv = t, !.defs = f]
      BY <3>2, <3>3 DEF StateType
    <3>9. y.srv.prep \in [Name -> Def \cup {NoDef}]
      BY <3>2 DEF SrvType
    <3>10. y.alive => \A m \in Name \ {Unnamed} :
                        t.prep[m] = IF m \in DOMAIN f /\ f[m].registered
                                    THEN f[m].def ELSE NoDef
      BY <3>2, <3>4, <3>5, <3>9 DEF InSync
    <3>11. Good([y EXCEPT !.srv = t, !.defs = f])
      BY <3>2, <3>4, <3>5, <3>10, WithDefsFacts
    <3> QED BY <3>7, <3>8, <3>11 DEF Ok, Out, Fine, Good
  <2> QED BY <2>2, <2>3, ExecDeallocate
<1> QED BY <1>2, <1>3

\* register_prepared(): PREPARE, in the session that is reached, what it does not
\* have yet.
LEMMA RegisterFacts ==
  ASSUME NEW x, Good(x), NEW n \in Name, n \in DOMAIN x.defs,
         NEW o \in register_prepared(x, n)
  PROVE  Fine(o)
<1>1. PICK p \in activate(x) :
        IF p.exc = "ok"
        THEN o \in IF p.x.defs[n].registered THEN {Ok(p.x)}
                   ELSE Then(Query(p.x, LAMBDA srv : PREPARE(srv, n, p.x.defs[n].def)),
                             LAMBDA z : {Ok(Registered(z, n))})
        ELSE o = p
  BY DEF register_prepared, Then
<1> DEFINE y == p.x
<1>2. /\ Fine(p) /\ Frame(x, y) /\ p.exc \in {"ok", "broken"}
      /\ p.exc = "ok" => y.handle = "ok"
  BY ActivateFacts
<1>3. CASE p.exc # "ok" \/ p.x.defs[n].registered
  <2>1. o = p \/ (p.exc = "ok" /\ o = Ok(p.x))
    BY <1>1, <1>3
  <2> QED BY <1>2, <2>1 DEF Fine, Good, Ok, Out
<1>4. CASE p.exc = "ok" /\ ~p.x.defs[n].registered
  <2> DEFINE d == y.defs[n].def
  <2>1. /\ Good(y) /\ y \in StateType /\ y.srv \in SrvType /\ InSync(y)
        /\ y.defs \in PartialType(Name, Entry) /\ y.handle = "ok" /\ n \in DOMAIN y.defs
    BY <1>2, <1>4 DEF Fine, Good, Sound, Typed, StateType, Frame
  <2>2. d \in Def
    <3>1. y.defs[n] \in Entry
      BY <2>1, PartialFacts
    <3> QED BY <3>1 DEF Entry
  <2>3. PICK q \in QueryOut(y, PREPARE(y.srv, n, d)) :
          IF q.exc = "ok" THEN o = Ok(Registered(q.x, n)) ELSE o = q
    BY <1>1, <1>4 DEF Then, Query, QueryOut
  <2> HIDE DEF y
  <2> DEFINE t == [y.srv EXCEPT !.prep[n] = d]
  <2>4. PREPARE(y.srv, n, d) \subseteq Do(y.srv, t) \cup Refuse(y.srv)
    BY DEF PREPARE
  <2>5. Broke(y, q) \/ Carried(y, q, y, PREPARE(y.srv, n, d))
    BY <2>1, <2>3, QueryFacts
  <2>6. Threw(y, q) \/ Done(y, q, y, t)
    BY <2>4, <2>5, BrokeThrew, DoFacts
  <2>7. CASE Threw(y, q)
    BY <2>3, <2>7 DEF Threw, Fine
  <2>8. CASE Done(y, q, y, t)
    <3>1. q.x = [y EXCEPT !.srv = t] /\ q.exc = "ok"
      BY <2>8 DEF Done
    <3>2. /\ t \in SrvType /\ t.block = y.srv.block /\ t.listen = y.srv.listen
          /\ t.saved = y.srv.saved /\ t.set = y.srv.set
          /\ t.prep = [y.srv.prep EXCEPT ![n] = d]
      BY <2>1, <2>2, PrepFacts
    <3>3. y.srv.prep \in [Name -> Def \cup {NoDef}]
      BY <2>1 DEF SrvType
    <3> HIDE DEF t
    <3>d. [def |-> d, registered |-> n # Unnamed] \in Entry
      BY <2>2 DEF Entry
    <3>e. PICK e \in Entry : e = [def |-> d, registered |-> n # Unnamed]
      BY <3>d
    <3> DEFINE f == Put(y.defs, n, e)
    <3>4. q.x.defs = y.defs
      BY <2>1, <3>1 DEF StateType
    <3>5. o = Ok([q.x EXCEPT !.defs = f])
      BY <2>3, <3>1, <3>4, <3>e DEF Registered
    <3> HIDE DEF d
    <3>7. /\ f \in PartialType(Name, Entry) /\ DOMAIN f = DOMAIN y.defs \cup {n}
          /\ f[n] = e /\ \A m \in DOMAIN y.defs : m # n => f[m] = y.defs[m]
      BY <2>1, PutEntry, ZenonT(60)
    <3> HIDE DEF f
    <3>8. [q.x EXCEPT !.defs = f] = [y EXCEPT !.srv = t, !.defs = f]
      BY <2>1, <3>1 DEF StateType
    <3>9. y.alive => \A m \in Name \ {Unnamed} :
                       t.prep[m] = IF m \in DOMAIN f /\ f[m].registered
                                   THEN f[m].def ELSE NoDef
      <4>1. ASSUME y.alive, NEW m \in Name \ {Unnamed}
            PROVE  t.prep[m] = IF m \in DOMAIN f /\ f[m].registered
                               THEN f[m].def ELSE NoDef
        <5>1. CASE m = n
          <6>1. e.def = d /\ (e.registered <=> n # Unnamed)
            BY <3>e
          <6> QED BY <3>2, <3>3, <3>7, <4>1, <5>1, <6>1
        <5>2. CASE m # n
          BY <2>1, <3>2, <3>3, <3>7, <4>1, <5>2 DEF InSync
        <5> QED BY <5>1, <5>2
      <4> QED BY <4>1
    <3>10. Good([y EXCEPT !.srv = t, !.defs = f])
      BY <2>1, <3>2, <3>7, <3>9, WithDefsFacts
    <3> QED BY <3>5, <3>8, <3>10 DEF Ok, Out, Fine, Good
  <2> QED BY <2>6, <2>7, <2>8
<1> QED BY <1>3, <1>4

\* prepared_exec().
LEMMA PreparedExecFacts ==
  ASSUME NEW x, Good(x), NEW n \in Name, n \in DOMAIN x.defs,
         NEW o \in prepared_exec(x, n)
  PROVE  Fine(o)
<1>1. PICK p \in register_prepared(x, n) :
        IF p.exc = "ok" THEN o \in Exec(p.x, LAMBDA srv : EXECUTE(srv, n)) ELSE o = p
  BY DEF prepared_exec, Then
<1>2. Fine(p)
  BY RegisterFacts
<1>3. CASE p.exc # "ok"
  BY <1>1, <1>2, <1>3
<1>4. CASE p.exc = "ok"
  <2>1. PICK z : z = p.x /\ Good(z) /\ o \in Exec(z, LAMBDA srv : EXECUTE(srv, n))
    BY <1>1, <1>2, <1>4 DEF Fine
  <2>2. PICK u \in activate(z) :
          IF u.exc = "ok"
          THEN \E q \in QueryOut(u.x, EXECUTE(u.x.srv, n)) :
                 IF q.exc = "ok" THEN o \in get_notifs(q.x) ELSE o = q
          ELSE o = u
    BY <2>1 DEF Exec, Then, Query, QueryOut
  <2>3. Broke(z, o) \/ Carried(z, o, u.x, EXECUTE(u.x.srv, n))
    BY <2>1, <2>2, TailFacts
  <2>4. EXECUTE(u.x.srv, n) \subseteq Do(u.x.srv, u.x.srv) \cup Refuse(u.x.srv)
    BY DEF EXECUTE
  <2>5. Threw(z, o) \/ \E y : Done(z, o, y, y.srv)
    BY <2>3, <2>4, BrokeThrew, DoFacts
  <2> QED BY <2>5, QuietDone DEF Threw, Fine, Good
<1> QED BY <1>3, <1>4

\* begin(): the new block can be undone.
LEMMA BeginFacts ==
  ASSUME NEW x, Good(x), x.tx = "none", NEW o \in begin(x)
  PROVE  Fine(o)
<1>1. PICK p \in Then(get_notifs(x), LAMBDA y : Exec(y, BEGIN)) :
        o = IF p.exc = "ok" THEN Ok([p.x EXCEPT !.tx = "active", !.tvars = <<>>]) ELSE p
  BY DEF begin
<1>2. PICK g \in get_notifs(x) : IF g.exc = "ok" THEN p \in Exec(g.x, BEGIN) ELSE p = g
  BY <1>1 DEF Then
<1>3. CASE g.exc # "ok"
  <2>1. g.x = Gone(x, "bad")
    BY <1>2, <1>3, GetNotifsFacts
  <2>2. Sound(Gone(x, "bad"))
    BY GoneFacts DEF Good
  <2> QED BY <1>1, <1>2, <1>3, <2>1, <2>2 DEF Fine
<1>4. CASE g.exc = "ok"
  <2>1. g.x = x
    BY <1>2, <1>4, GetNotifsFacts
  <2>2. p \in Exec(x, BEGIN)
    BY <1>2, <1>4, <2>1
  <2>3. Threw(x, p) \/ \E y : Done(x, p, y, Begun(y.srv))
    BY <2>2, ExecBegin
  <2>4. CASE Threw(x, p)
    BY <1>1, <2>4 DEF Threw, Fine
  <2>5. CASE \E y : Done(x, p, y, Begun(y.srv))
    <3>1. PICK y : Done(x, p, y, Begun(y.srv))
      BY <2>5
    <3>2. /\ Good(y) /\ Sound(y) /\ y \in StateType /\ y.srv \in SrvType /\ y.tx = "none"
          /\ y.srv.block = "idle" /\ y.handle = "ok" /\ y.alive
      BY <3>1 DEF Done, Reached, Frame, Good, Sound, Typed, StateType
    <3> DEFINE l == Local(y.srv.listen, y.srv.set)
               t == [y.srv EXCEPT !.block = "open", !.saved = l]
    <3>3. p.x = [y EXCEPT !.srv = t] /\ p.exc = "ok"
      BY <3>1, <3>2 DEF Done, Begun
    <3>4. l \in [listen : SUBSET Channels(Receiver), set : [Var -> Val \cup {Default}]]
      BY <3>2 DEF Local, SrvType
    <3> HIDE DEF l
    <3>5. /\ t \in SrvType /\ t.block = "open" /\ t.prep = y.srv.prep
          /\ t.listen = y.srv.listen /\ t.saved = l /\ t.set = y.srv.set
      BY <3>2, <3>4 DEF SrvType, Block
    <3> HIDE DEF t
    <3>6. PICK e : e = <<>> /\ e \in PartialType(Var, Val) /\ DOMAIN e = {}
      BY EmptyFacts
    <3> DEFINE w == [y EXCEPT !.srv = t]
               z == [w EXCEPT !.tx = "active", !.tvars = e]
    <3>7. o.x = z /\ o.exc = "ok"
      BY <1>1, <3>3, <3>6 DEF Ok, Out
    <3>8. /\ z \in StateType /\ z.srv = t /\ z.handle = y.handle /\ z.alive = y.alive
          /\ z.defs = y.defs /\ z.vars = y.vars /\ z.recs = y.recs /\ z.tx = "active"
          /\ z.tvars = e
      BY <3>2, <3>5, <3>6 DEF StateType
    <3> HIDE DEF w, z
    <3>9. Typed(z) /\ InSync(z)
      BY <3>2, <3>5, <3>8 DEF Sound, Typed, InSync
    <3>10. ASSUME Careless = {} PROVE Accepted(z) /\ SetUp(z) /\ Whole(z)
      <4>1. /\ y.srv.listen = Channels(y.recs) /\ y.srv.set = Given(y.vars) /\ Accepted(y)
        BY <3>2, <3>10 DEF Sound, SetUp
      <4>2. Accepted(z)
        BY <3>6, <3>8, <4>1 DEF Accepted
      <4>3. SetUp(z)
        BY <3>5, <3>8, <4>1 DEF SetUp, l
      <4>4. Given(y.vars) = GivenInTx(z)
        BY <3>6, <3>8 DEF Given, GivenInTx
      <4> QED BY <3>2, <3>5, <3>8, <4>1, <4>2, <4>3, <4>4 DEF Whole
    <3> QED BY <3>7, <3>9, <3>10 DEF Fine, Good, Sound
  <2> QED BY <2>3, <2>4, <2>5
<1> QED BY <1>3, <1>4

\* The session after a rollback.
LEMMA RolledBackFacts ==
  ASSUME NEW srv \in SrvType
  PROVE  /\ RolledBack(srv) \in SrvType /\ RolledBack(srv).block = "idle"
         /\ RolledBack(srv).prep = srv.prep
         /\ RolledBack(srv).listen = IF srv.block = "idle" THEN srv.listen
                                                           ELSE srv.saved.listen
         /\ RolledBack(srv).set = IF srv.block = "idle" THEN srv.set ELSE srv.saved.set
<1> DEFINE L == srv.saved.listen
           S == srv.saved.set
           t == [srv EXCEPT !.block = "idle", !.listen = L, !.set = S]
<1>1. L \in SUBSET Channels(Receiver) /\ S \in [Var -> Val \cup {Default}]
  BY DEF SrvType
<1> HIDE DEF L, S
<1>2. t \in SrvType /\ t.block = "idle" /\ t.prep = srv.prep /\ t.listen = L /\ t.set = S
  BY <1>1 DEF SrvType, Block
<1>3. RolledBack(srv) = IF srv.block = "idle" THEN srv ELSE t
  BY DEF RolledBack, L, S
<1> HIDE DEF t
<1> QED BY <1>2, <1>3 DEF L, S

\* The answers to COMMIT and ROLLBACK.
LEMMA EndAnswers ==
  ASSUME NEW srv
  PROVE  /\ \A a \in COMMIT(srv) :
              a.srv = IF a.exc = "ok" /\ srv.block = "open"
                      THEN [srv EXCEPT !.block = "idle"] ELSE RolledBack(srv)
         /\ \A a \in ROLLBACK(srv) : a.srv = RolledBack(srv)
BY DEF COMMIT, ROLLBACK, Answer

\* A rollback restores what the connection remembers.
LEMMA RollbackSound ==
  ASSUME NEW y, Sound(y), y.alive, NEW z \in StateType, z.srv = RolledBack(y.srv),
         z.handle = y.handle, z.alive = y.alive, z.defs = y.defs, z.vars = y.vars,
         z.recs = y.recs, z.tvars = y.tvars
  PROVE  Sound(z)
<1>1. y \in StateType /\ y.srv \in SrvType /\ Typed(y) /\ InSync(y)
  BY DEF Sound, Typed, StateType
<1> DEFINE t == RolledBack(y.srv)
<1>2. /\ t \in SrvType /\ t.block = "idle" /\ t.prep = y.srv.prep
      /\ t.listen = IF y.srv.block = "idle" THEN y.srv.listen ELSE y.srv.saved.listen
      /\ t.set = IF y.srv.block = "idle" THEN y.srv.set ELSE y.srv.saved.set
  BY <1>1, RolledBackFacts
<1>3. z.srv = t
  OBVIOUS
<1> HIDE DEF t
<1>4. Typed(z) /\ InSync(z)
  BY <1>1, <1>2, <1>3 DEF Typed, InSync
<1>5. ASSUME Careless = {} PROVE Accepted(z) /\ SetUp(z)
  <2>1. Accepted(z)
    BY <1>5 DEF Sound, Accepted
  <2>2. t.listen = Channels(y.recs) /\ t.set = Given(y.vars)
    BY <1>2, <1>5 DEF Sound, SetUp, Local
  <2> QED BY <1>2, <1>3, <2>1, <2>2 DEF SetUp
<1> QED BY <1>4, <1>5 DEF Sound

\* Ended() of a connection without a block.
LEMMA EndedGood ==
  ASSUME NEW y, Sound(y), y.srv.block = "idle"
  PROVE  Good(Ended(y))
<1>1. PICK e : e = <<>> /\ e \in PartialType(Var, Val) /\ DOMAIN e = {}
  BY EmptyFacts
<1> DEFINE z == [y EXCEPT !.tx = "none", !.tvars = e]
<1>2. y \in StateType
  BY DEF Sound, Typed
<1>3. /\ z \in StateType /\ z.srv = y.srv /\ z.handle = y.handle /\ z.alive = y.alive
      /\ z.defs = y.defs /\ z.vars = y.vars /\ z.recs = y.recs /\ z.tx = "none"
      /\ z.tvars = e
  BY <1>1, <1>2 DEF StateType
<1> HIDE DEF z
<1>4. Typed(z) /\ InSync(z)
  BY <1>3 DEF Sound, Typed, InSync
<1>5. Careless = {} => Accepted(z) /\ SetUp(z) /\ Whole(z)
  BY <1>1, <1>3 DEF Sound, Accepted, SetUp, Whole
<1>6. Good(z)
  BY <1>4, <1>5 DEF Good, Sound
<1> QED BY <1>1, <1>6 DEF Ended, z

\* end(), in any state of the transaction.
LEMMA EndFacts ==
  ASSUME NEW x, Good(x), NEW o \in end(x)
  PROVE  Fine(o)
<1>1. CASE x.tx = "closed"
  <2>1. o = Ok(Ended(x)) /\ Sound(x) /\ x.srv.block = "idle"
    BY <1>1 DEF end, Good, Sound, Typed
  <2>2. Good(Ended(x))
    BY <2>1, EndedGood
  <2> QED BY <2>1, <2>2 DEF Ok, Out, Fine, Good
<1>2. CASE x.tx # "closed"
  <2>1. PICK p \in Exec(x, ROLLBACK) : o = Ok(Ended(p.x))
    BY <1>2 DEF end
  <2>2. Broke(x, p) \/ \E y : Carried(x, p, y, ROLLBACK(y.srv))
    BY ExecRollback
  <2>3. Sound(p.x) /\ p.x.srv.block = "idle"
    <3>1. CASE Broke(x, p)
      BY <3>1, NewSessionFacts DEF Broke
    <3>2. CASE \E y : Carried(x, p, y, ROLLBACK(y.srv))
      <4>1. PICK y : Carried(x, p, y, ROLLBACK(y.srv))
        BY <3>2
      <4> DEFINE t == RolledBack(y.srv)
      <4>2. p.x = [y EXCEPT !.srv = t] /\ Sound(y) /\ y.alive /\ y \in StateType
        BY <4>1, EndAnswers DEF Carried, Reached, Good, Sound, Typed
      <4>3. t.block = "idle" /\ t \in SrvType
        BY <4>2, RolledBackFacts DEF StateType
      <4> DEFINE z == [y EXCEPT !.srv = t]
      <4>4. t = RolledBack(y.srv)
        OBVIOUS
      <4> HIDE DEF t
      <4>5. /\ z \in StateType /\ z.srv = t /\ z.handle = y.handle /\ z.alive = y.alive
            /\ z.defs = y.defs /\ Frame(y, z)
        BY <4>2, <4>3, WithFacts
      <4> HIDE DEF z
      <4>6. Sound(z)
        BY <4>2, <4>4, <4>5, RollbackSound DEF Frame
      <4> QED BY <4>2, <4>3, <4>5, <4>6 DEF z
    <3> QED BY <2>2, <3>1, <3>2
  <2>4. Good(Ended(p.x))
    BY <2>3, EndedGood
  <2> QED BY <2>1, <2>4 DEF Ok, Out, Fine, Good
<1> QED BY <1>1, <1>2

\* commit(): the connection takes over the transaction's variables only when COMMIT
\* has made them last.
LEMMA CommitFacts ==
  ASSUME NEW x, Good(x), Careless = {} => x.tx = "active", NEW o \in commit(x)
  PROVE  Fine(o)
<1>1. CASE ~is_open(x)
  BY <1>1 DEF commit, Out, Fine, Good
<1>2. CASE is_open(x)
  <2>1. PICK p \in Exec(x, COMMIT) :
          o = IF p.exc = "ok" THEN Ok(Ended(AddVariables(p.x)))
              ELSE Out([p.x EXCEPT !.tx = "closed"], p.exc)
    BY <1>2 DEF commit
  <2>2. Broke(x, p) \/ Carried(x, p, x, COMMIT(x.srv))
    <3>1. Broke(x, p) \/ \E y : Carried(x, p, y, COMMIT(y.srv))
      BY <2>1, ExecCommit
    <3>2. ASSUME NEW y, Carried(x, p, y, COMMIT(y.srv)) PROVE y = x
      BY <1>2, <3>2 DEF Carried, Reached
    <3> QED BY <3>1, <3>2
  <2>x. x \in StateType /\ x.srv \in SrvType /\ Sound(x)
    BY DEF Good, Sound, Typed, StateType
  <2>3. CASE Broke(x, p)
    <3>1. p.x \in StateType /\ Sound(p.x) /\ p.exc = "broken" /\ ~p.x.alive
          /\ p.x.srv.block = "idle"
      BY <2>3, NewSessionFacts DEF Broke, Sound, Typed
    <3> DEFINE z == [p.x EXCEPT !.tx = "closed"]
    <3>2. /\ z \in StateType /\ z.srv = p.x.srv /\ z.handle = p.x.handle
          /\ z.alive = p.x.alive /\ z.defs = p.x.defs /\ z.vars = p.x.vars
          /\ z.recs = p.x.recs /\ z.tx = "closed" /\ z.tvars = p.x.tvars
      BY <3>1 DEF StateType
    <3> HIDE DEF z
    <3>3. Sound(z)
      BY <3>1, <3>2 DEF Sound, Typed, InSync, Accepted, SetUp
    <3> QED BY <2>1, <3>1, <3>3 DEF Out, Fine, z
  <2>4. CASE Carried(x, p, x, COMMIT(x.srv))
    <3>1. x.alive
      BY <2>4 DEF Carried, Reached
    <3>2. PICK a \in COMMIT(x.srv) : p.exc = a.exc /\ p.x = [x EXCEPT !.srv = a.srv]
      BY <2>4 DEF Carried
    <3>3. CASE a.exc # "ok"
      <4> DEFINE t == RolledBack(x.srv)
      <4>1. a.srv = t
        BY <3>3, EndAnswers
      <4>2. t = RolledBack(x.srv) /\ t \in SrvType
        BY <2>x, RolledBackFacts
      <4> HIDE DEF t
      <4> DEFINE z == [p.x EXCEPT !.tx = "closed"]
      <4>3. /\ z \in StateType /\ z.srv = t /\ z.handle = x.handle /\ z.alive = x.alive
            /\ z.defs = x.defs /\ z.vars = x.vars /\ z.recs = x.recs
            /\ z.tvars = x.tvars
        BY <2>x, <3>2, <4>1, <4>2 DEF StateType
      <4> HIDE DEF z
      <4>4. Sound(z)
        BY <2>x, <3>1, <4>2, <4>3, RollbackSound
      <4> QED BY <2>1, <3>2, <3>3, <4>4 DEF Out, Fine, z
    <3>4. CASE a.exc = "ok"
      <4> DEFINE t == a.srv
      <4>1. /\ t \in SrvType /\ t.block = "idle" /\ t.prep = x.srv.prep
            /\ x.srv.block = "open" => t.listen = x.srv.listen /\ t.set = x.srv.set
        <5>1. CASE x.srv.block = "open" /\ t = [x.srv EXCEPT !.block = "idle"]
          BY <2>x, <5>1 DEF SrvType, Block
        <5>2. CASE x.srv.block # "open" /\ t = RolledBack(x.srv)
          BY <2>x, <5>2, RolledBackFacts
        <5>3. t = IF x.srv.block = "open" THEN [x.srv EXCEPT !.block = "idle"]
                  ELSE RolledBack(x.srv)
          BY <3>4, EndAnswers DEF t
        <5> QED BY <5>1, <5>2, <5>3
      <4> HIDE DEF t
      <4> DEFINE f == [var \in DOMAIN x.vars \cup DOMAIN x.tvars |->
                         IF var \in DOMAIN x.tvars THEN x.tvars[var] ELSE x.vars[var]]
                 z == [x EXCEPT !.srv = t, !.vars = f]
      <4>2. /\ f \in PartialType(Var, Val) /\ DOMAIN f = DOMAIN x.vars \cup DOMAIN x.tvars
            /\ \A var \in DOMAIN f :
                 f[var] = IF var \in DOMAIN x.tvars THEN x.tvars[var] ELSE x.vars[var]
        BY <2>x, PartialFacts DEF StateType
      <4>3. AddVariables(p.x) = z
        BY <2>x, <3>2 DEF AddVariables, StateType, t
      <4> HIDE DEF f
      <4>4. /\ z \in StateType /\ z.srv = t /\ z.handle = x.handle /\ z.alive = x.alive
            /\ z.defs = x.defs /\ z.vars = f /\ z.recs = x.recs /\ z.tx = x.tx
            /\ z.tvars = x.tvars
        BY <2>x, <4>1, <4>2 DEF StateType
      <4> HIDE DEF z
      <4>5. Typed(z) /\ InSync(z)
        BY <2>x, <4>1, <4>4 DEF Sound, Typed, InSync
      <4>6. ASSUME Careless = {} PROVE Accepted(z) /\ SetUp(z)
        <5>1. /\ x.srv.block = "open" /\ x.srv.set = GivenInTx(x)
              /\ x.srv.listen = Channels(x.recs) /\ Accepted(x)
          BY <2>x, <3>1, <4>6 DEF Good, Sound, SetUp, Whole
        <5>2. GivenInTx(x) = Given(f)
          BY <4>2 DEF GivenInTx, Given
        <5> QED BY <4>1, <4>2, <4>4, <5>1, <5>2 DEF Accepted, SetUp
      <4>7. Good(Ended(z))
        BY <4>1, <4>4, <4>5, <4>6, EndedGood DEF Sound
      <4> QED BY <2>1, <3>2, <3>4, <4>3, <4>7 DEF Ok, Out, Fine, Good
    <3> QED BY <3>3, <3>4
  <2> QED BY <2>2, <2>3, <2>4
<1> QED BY <1>1, <1>2

----------------------------------------------------------------------------
(* The invariant.                                                          *)

\* What a call returns becomes the state; a transaction whose call threw is hurt.
LEMMA ReturnedGood ==
  ASSUME NEW o, Fine(o), Returned(o)
  PROVE  SessionInv'
<1>1. CASE o.exc # "ok" /\ o.x.tx = "active"
  <2> DEFINE z == [o.x EXCEPT !.tx = "hurt"]
  <2>1. s' = z
    BY <1>1 DEF Returned
  <2>2. Sound(o.x) /\ o.x \in StateType
    BY DEF Fine, Sound, Typed
  <2>3. /\ z \in StateType /\ z.srv = o.x.srv /\ z.handle = o.x.handle
        /\ z.alive = o.x.alive /\ z.defs = o.x.defs /\ z.vars = o.x.vars
        /\ z.recs = o.x.recs /\ z.tx = "hurt" /\ z.tvars = o.x.tvars
    BY <2>2 DEF StateType
  <2> HIDE DEF z
  <2>4. Sound(z) /\ Whole(z)
    BY <2>2, <2>3 DEF Sound, Typed, InSync, Accepted, SetUp, Whole
  <2>5. Good(z)
    BY <2>4 DEF Good
  <2> QED BY <2>1, <2>5 DEF SessionInv, Good, Sound, Typed, InSync, Accepted, SetUp, Whole
<1>2. CASE ~(o.exc # "ok" /\ o.x.tx = "active")
  <2>1. s' = o.x
    BY <1>2 DEF Returned
  <2>2. Good(o.x)
    BY <1>2 DEF Fine, Good, Whole
  <2> QED BY <2>1, <2>2 DEF SessionInv, Good, Sound, Typed, InSync, Accepted, SetUp, Whole
<1> QED BY <1>1, <1>2

\* The operations on the connection itself.
LEMMA ConnectionSteps ==
  ASSUME SessionInv, Activate \/ Deactivate \/ Disconnect \/ GetNotifs \/ LinkLost
  PROVE  SessionInv'
<1>1. Good(s) /\ Sound(s)
  BY DEF SessionInv, Good
<1>2. CASE Activate
  <2>1. PICK o \in activate(s) : Returned(o)
    BY <1>2 DEF Activate
  <2>2. Fine(o)
    BY <1>1, ActivateFacts
  <2> QED BY <2>1, <2>2, ReturnedGood
<1>3. CASE Deactivate
  <2>1. PICK o \in deactivate(s) : Returned(o)
    BY <1>3 DEF Deactivate
  <2>2. \/ o \in {Ok(s), Out(s, "usage")}
        \/ s.tx = "none" /\ o = Ok(Gone(s, "none"))
    BY DEF deactivate
  <2>3. Sound(Gone(s, "none")) /\ Frame(s, Gone(s, "none"))
    BY <1>1, GoneFacts
  <2>4. Fine(o)
    BY <1>1, <2>2, <2>3 DEF Ok, Out, Fine, Good, Whole, Frame
  <2> QED BY <2>1, <2>4, ReturnedGood
<1>4. CASE Disconnect
  <2> DEFINE g == Gone(s, "none")
  <2>1. Returned(Ok(g)) /\ (Careless = {} => s.tx = "none")
    BY <1>4 DEF Disconnect, Idle
  <2>2. Sound(g) /\ Frame(s, g)
    BY <1>1, GoneFacts
  <2>3. Fine(Ok(g))
    BY <2>1, <2>2 DEF Ok, Out, Fine, Good, Whole, Frame
  <2> QED BY <2>1, <2>3, ReturnedGood
<1>5. CASE GetNotifs
  <2>1. PICK o \in get_notifs(s) : Returned(o)
    BY <1>5 DEF GetNotifs
  <2>2. Sound(Gone(s, "bad"))
    BY <1>1, GoneFacts
  <2>3. Fine(o)
    BY <1>1, <2>2, GetNotifsFacts DEF Fine, Good
  <2> QED BY <2>1, <2>3, ReturnedGood
<1>6. CASE LinkLost
  <2>1. s' = Gone(s, "ok")
    BY <1>6 DEF LinkLost
  <2>2. Sound(Gone(s, "ok")) /\ Gone(s, "ok").handle = "ok" /\ ~Gone(s, "ok").alive
    BY <1>1, GoneFacts
  <2>3. Good(Gone(s, "ok"))
    BY <2>2 DEF Good, Whole
  <2> QED BY <2>1, <2>3 DEF SessionInv, Good, Sound, Typed, InSync, Accepted, SetUp, Whole
<1> QED BY <1>2, <1>3, <1>4, <1>5, <1>6

\* Variables.
LEMMA VariableSteps ==
  ASSUME SessionInv, NEW var \in Var,
         GetVariable(var) \/ \E val \in Val : SetVariable(var, val)
  PROVE  SessionInv'
<1>1. Good(s)
  BY DEF SessionInv, Good
<1>2. CASE GetVariable(var)
  <2>1. PICK o \in get_variable(s, var) : Returned(o)
    BY <1>2 DEF GetVariable
  <2>2. Fine(o)
    BY <1>1, GetVariableFacts
  <2> QED BY <2>1, <2>2, ReturnedGood
<1>3. ASSUME NEW val \in Val, SetVariable(var, val) PROVE SessionInv'
  <2>1. PICK o \in set_variable(s, var, val) : Returned(o)
    BY <1>3 DEF SetVariable
  <2>2. /\ Careless = {} => s.tx \in {"none", "active"}
        /\ s.tx = "none" /\ Careless = {} /\ ~is_open(s) => val \notin Rejected
    BY <1>3 DEF SetVariable, Free, Idle
  <2>3. CASE s.tx = "none"
    <3>1. Fine(o)
      BY <1>1, <2>2, <2>3, SetIdleFacts
    <3> QED BY <2>1, <3>1, ReturnedGood
  <2>4. CASE s.tx # "none"
    <3>1. Fine(o)
      BY <1>1, <2>2, <2>4, SetInTxFacts
    <3> QED BY <2>1, <3>1, ReturnedGood
  <2> QED BY <2>3, <2>4
<1> QED BY <1>2, <1>3

\* Receivers.
LEMMA ReceiverSteps ==
  ASSUME SessionInv, NEW r \in Receiver, AddReceiver(r) \/ RemoveReceiver(r)
  PROVE  SessionInv'
<1>1. Good(s) /\ (Careless = {} => s.tx = "none")
  BY DEF SessionInv, Good, AddReceiver, RemoveReceiver, MayReceive, Idle
<1>2. CASE AddReceiver(r)
  <2>1. PICK o \in add_receiver(s, r) : Returned(o)
    BY <1>2 DEF AddReceiver
  <2>2. Fine(o)
    BY <1>1, AddReceiverFacts
  <2> QED BY <2>1, <2>2, ReturnedGood
<1>3. CASE RemoveReceiver(r)
  <2>1. PICK o \in remove_receiver(s, r) : Returned(o)
    BY <1>3 DEF RemoveReceiver
  <2>2. Fine(o)
    BY <1>1, RemoveReceiverFacts
  <2> QED BY <2>1, <2>2, ReturnedGood
<1> QED BY <1>2, <1>3

\* Prepared statements.
LEMMA PreparedSteps ==
  ASSUME SessionInv, NEW n \in Name,
         \/ Unprepare(n) \/ PrepareNow(n) \/ PreparedExec(n)
         \/ \E def \in Def : Prepare(n, def)
  PROVE  SessionInv'
<1>1. Good(s)
  BY DEF SessionInv, Good
<1>2. CASE Unprepare(n)
  <2>1. n \in DOMAIN s.defs /\ \E o \in unprepare(s, n) : Returned(o)
    BY <1>2 DEF Unprepare
  <2>2. PICK o \in unprepare(s, n) : Returned(o)
    BY <2>1
  <2>3. Fine(o)
    BY <1>1, <2>1, UnprepareFacts
  <2> QED BY <2>2, <2>3, ReturnedGood
<1>3. CASE PrepareNow(n)
  <2>1. n \in DOMAIN s.defs /\ \E o \in register_prepared(s, n) : Returned(o)
    BY <1>3 DEF PrepareNow
  <2>2. PICK o \in register_prepared(s, n) : Returned(o)
    BY <2>1
  <2>3. Fine(o)
    BY <1>1, <2>1, RegisterFacts
  <2> QED BY <2>2, <2>3, ReturnedGood
<1>4. CASE PreparedExec(n)
  <2>1. n \in DOMAIN s.defs /\ \E o \in prepared_exec(s, n) : Returned(o)
    BY <1>4 DEF PreparedExec
  <2>2. PICK o \in prepared_exec(s, n) : Returned(o)
    BY <2>1
  <2>3. Fine(o)
    BY <1>1, <2>1, PreparedExecFacts
  <2> QED BY <2>2, <2>3, ReturnedGood
<1>5. ASSUME NEW def \in Def, Prepare(n, def) PROVE SessionInv'
  <2>1. PICK o \in prepare(s, n, def) : Returned(o)
    BY <1>5 DEF Prepare
  <2>2. Fine(o)
    BY <1>1, PrepareFacts
  <2> QED BY <2>1, <2>2, ReturnedGood
<1> QED BY <1>2, <1>3, <1>4, <1>5

\* Transactions.
LEMMA TransactionSteps ==
  ASSUME SessionInv, Begin \/ Commit \/ End
  PROVE  SessionInv'
<1>1. Good(s) /\ s \in StateType
  BY DEF SessionInv, Good, Sound, Typed
<1>2. CASE Begin
  <2>1. s.tx = "none" /\ \E o \in begin(s) : Returned(o)
    BY <1>2 DEF Begin, Idle
  <2>2. PICK o \in begin(s) : Returned(o)
    BY <2>1
  <2>3. Fine(o)
    BY <1>1, <2>1, BeginFacts
  <2> QED BY <2>2, <2>3, ReturnedGood
<1>3. CASE Commit
  <2>1. (Careless = {} => s.tx = "active") /\ \E o \in commit(s) : Returned(o)
    BY <1>1, <1>3 DEF Commit, Free, Idle, StateType
  <2>2. PICK o \in commit(s) : Returned(o)
    BY <2>1
  <2>3. Fine(o)
    BY <1>1, <2>1, CommitFacts
  <2> QED BY <2>2, <2>3, ReturnedGood
<1>4. CASE End
  <2>1. PICK o \in end(s) : Returned(o)
    BY <1>4 DEF End
  <2>2. Fine(o)
    BY <1>1, EndFacts
  <2> QED BY <2>1, <2>2, ReturnedGood
<1> QED BY <1>2, <1>3, <1>4

\* A new connection.
LEMMA SessionInvInit ==
  ASSUME Init
  PROVE  SessionInv
<1>1. PICK e : e = <<>> /\ DOMAIN e = {} /\ e \in PartialType(Var, Val)
                /\ e \in PartialType(Name, Entry)
  BY EmptyFacts
<1>2. s = [handle |-> "ok", alive |-> TRUE, defs |-> e, vars |-> e, recs |-> {},
           tx |-> "none", tvars |-> e, srv |-> NewSession]
  BY <1>1 DEF Init
<1>3. s \in StateType
  BY <1>1, <1>2, NewSessionFacts DEF StateType
<1>4. Typed(s) /\ InSync(s)
  BY <1>1, <1>2, <1>3, NewSessionFacts DEF Typed, InSync
<1>5. NewSession.set = Given(e) /\ NewSession.listen = Channels({})
  BY <1>1 DEF NewSession, Unset, Given, Channels
<1>6. Accepted(s) /\ SetUp(s) /\ Whole(s)
  BY <1>1, <1>2, <1>5, NewSessionFacts DEF Accepted, SetUp, Whole
<1> QED BY <1>4, <1>6 DEF SessionInv, Sound

\* The invariant holds throughout every behaviour.
LEMMA SessionInvAlways == Spec => []SessionInv
<1>1. Init => SessionInv
  BY SessionInvInit
<1>2. SessionInv /\ [Next]_s => SessionInv'
  <2>1. ASSUME SessionInv, UNCHANGED s PROVE SessionInv'
    BY <2>1 DEF SessionInv, Sound, Typed, InSync, Accepted, SetUp, Whole
  <2> QED BY <2>1, ConnectionSteps, VariableSteps, ReceiverSteps, PreparedSteps,
             TransactionSteps DEF Next
<1> QED BY <1>1, <1>2, PTL DEF Spec

\* register_prepared(), unprepare(), SetupState(): for every client, careless or not,
\* "registered" says what the session has, through losses and reconnections at any
\* point.
THEOREM PreparedInSyncHolds == Spec => []PreparedInSync
<1>1. SessionInv => PreparedInSync
  BY DEF SessionInv, Sound, InSync, PreparedInSync, Connected
<1> QED BY <1>1, SessionInvAlways, PTL

\* SetupState(), set_variable(), add_receiver(): for a client that ends a transaction
\* once one of its calls has thrown, has no receivers come and go within one and sets
\* no variable unchecked to a value the backend rejects, every session has
\* the variables and listens to the channels that the object remembers.
THEOREM RestoredInFullHolds ==
  ASSUME Careless = {}
  PROVE  Spec => []RestoredInFull
<1>1. SessionInv => TypeOK
  BY DEF SessionInv, Sound, Typed, TypeOK, Idle
<1>2. SessionInv => ReceiversListen
  BY DEF SessionInv, Sound, SetUp, ReceiversListen, Connected
<1>3. SessionInv => VariablesCurrent
  <2>1. SUFFICES ASSUME SessionInv, Connected, s.tx \in {"none", "active"}
                 PROVE  s.srv.set = [var \in Var |->
                          IF s.tx = "active" /\ var \in DOMAIN s.tvars THEN s.tvars[var]
                          ELSE IF var \in DOMAIN s.vars THEN s.vars[var] ELSE Default]
    BY DEF VariablesCurrent
  <2>2. CASE s.tx = "none"
    BY <2>1, <2>2 DEF SessionInv, Sound, Typed, SetUp, Connected, Given
  <2>3. CASE s.tx = "active"
    BY <2>1, <2>3 DEF SessionInv, Whole, Connected, Given, GivenInTx
  <2> QED BY <2>1, <2>2, <2>3
<1>4. SessionInv => RestoredInFull
  BY <1>1, <1>2, <1>3 DEF RestoredInFull
<1> QED BY <1>4, SessionInvAlways, PTL
=============================================================================
