-------------------------- MODULE ConnectionPolicy --------------------------
(***************************************************************************)
(* How a connection object gets and loses its libpq connection: the        *)
(* policies of src/connection.cxx (direct, lazy, asynchronous, null) and   *)
(* the functions of connection_base that drive them.                       *)
(*                                                                         *)
(* A member function is an operator from a state x to its outcomes         *)
(* [x, exc].  The fields of x that matter here are                         *)
(*   policy      the connection's class                                    *)
(*   conn        m_Conn                                                    *)
(*   completed   m_Completed                                               *)
(*   connecting  connect_async's m_connecting                              *)
(*   status      of each libpq handle: free, connecting, ok, lost (the     *)
(*               link is gone and PQstatus() is still OK) or bad           *)
(*   inbox       the notifications that libpq has or is about to get       *)
(*   trans       m_Trans                                                   *)
(* Reactivation is not inhibited and no cursor lives outside transactions: *)
(* Connection and Transaction deal with both.                              *)
(***************************************************************************)
EXTENDS Naturals, Sequences

CONSTANTS
  Handle, Null,   \* libpq connections that can exist at a time
  Faults          \* faults that the properties exclude

\* start_fails  PQconnectStart() itself reports failure
\* old_server   a server older than read_capabilities() accepts
ASSUME PolicyAssumption ==
  Null \notin Handle /\ Faults \subseteq {"start_fails", "old_server"}

Out(x, exc) == [x |-> x, exc |-> exc]

Ok(x) == Out(x, "ok")

\* Run F after the outcomes that returned normally; the others propagate.
Then(os, F(_)) == UNION {IF o.exc = "ok" THEN F(o.x) ELSE {o} : o \in os}

----------------------------------------------------------------------------
(* libpq.                                                                  *)

\* A new connection takes memory that is free, if there is any.
Free(x) == {h \in Handle : x.status[h] = "free"}

Connect(x, st) ==
  IF Free(x) = {} THEN {}
  ELSE LET h == CHOOSE h \in Free(x) : TRUE
       IN {[x EXCEPT !.conn = h, !.status[h] = st]}

PQfinish(x) ==
  [x EXCEPT !.status[x.conn] = "free", !.conn = Null, !.inbox = <<>>]

StatusOK(x) == x.conn # Null /\ x.status[x.conn] \in {"ok", "lost"}

----------------------------------------------------------------------------
(* The policies.                                                           *)

normalconnect(x) ==
  IF x.conn # Null THEN {Ok(x)}
  ELSE {Out(x, "broken")} \cup {Ok(y) : y \in Connect(x, "ok")}

\* An asynchronous attempt that fails at once is neither kept nor finished.
start_async(x) ==
  IF x.conn # Null THEN {Ok(x)}
  ELSE {Ok([y EXCEPT !.connecting = TRUE]) : y \in Connect(x, "connecting")}
       \cup {Out([y EXCEPT !.conn = Null, !.connecting = FALSE], "broken") :
             y \in IF "start_fails" \in Faults THEN Connect(x, "bad") ELSE {}}

do_startconnect(x) ==
  CASE x.policy = "direct" -> normalconnect(x)
    [] x.policy = "async"  -> start_async(x)
    [] OTHER               -> {Ok(x)}

\* The loop around PQconnectPoll(), run to its end.  activate() has always
\* started the attempt, so that there is no new one to start or to finish here.
complete_async(x) ==
  IF ~x.connecting THEN {Ok(x)}
  ELSE {Ok([x EXCEPT !.connecting = FALSE, !.status[x.conn] = "ok"]),
        Out([x EXCEPT !.connecting = FALSE, !.status[x.conn] = "bad"], "broken")}

do_completeconnect(x) ==
  CASE x.policy = "lazy"  -> normalconnect(x)
    [] x.policy = "async" -> complete_async(x)
    [] OTHER              -> {Ok(x)}

do_dropconnect(x) == [x EXCEPT !.connecting = FALSE]

do_disconnect(x) ==
  LET y == do_dropconnect(x) IN IF y.conn = Null THEN y ELSE PQfinish(y)

is_ready(x) == x.conn # Null /\ ~x.connecting

----------------------------------------------------------------------------
(* connection_base.                                                        *)

is_open(x) == StatusOK(x) /\ x.completed

disconnect(x) == do_disconnect(x)

\* What SetupState() restores is Session's; here it succeeds, loses the link
\* (make_result() has then disconnected) or finds an old server.
SetupState(x) ==
  {Out([do_disconnect(x) EXCEPT !.completed = FALSE], "broken")}
    \cup (IF x.status[x.conn] = "ok" THEN {Ok(x)} ELSE {})
    \cup (IF "old_server" \in Faults THEN {Out(x, "unsupported")} ELSE {})

\* A connection is made when its handle is usable and the session set up.
Completed(x) ==
  LET y == [x EXCEPT !.completed = TRUE]
  IN IF is_open(y) THEN SetupState(y) ELSE {Out(y, "broken")}

Complete(x) == Then(do_completeconnect(x), Completed)

Attempt(x) == Then(do_startconnect(x), Complete)

\* Mutant: a handle that has gone bad is kept.
activate_KeepsBad(x) ==
  IF is_open(x) THEN {Ok(x)}
  ELSE {IF o.exc = "ok" THEN o ELSE Out([o.x EXCEPT !.completed = FALSE], o.exc) :
        o \in Attempt(x)}

activate(x) ==
  IF is_open(x) THEN {Ok(x)}
  ELSE {CASE o.exc = "ok"     -> o
          [] o.exc = "broken" -> Out([disconnect(o.x) EXCEPT !.completed = FALSE],
                                     "broken")
          [] OTHER            -> Out([o.x EXCEPT !.completed = FALSE], o.exc) :
        o \in Attempt(x)}

init(x) ==
  Then(do_startconnect(x), LAMBDA y : IF is_ready(y) THEN activate(y) ELSE {Ok(y)})

deactivate(x) ==
  IF x.conn = Null THEN {Ok(x)}
  ELSE IF x.trans # 0 THEN {Out(x, "usage")}
  ELSE {Ok(do_disconnect([x EXCEPT !.completed = FALSE]))}

\* dbname(), username(), hostname() and port() ask the handle, if there is one,
\* however far it has got.
dbname(x) == IF x.conn = Null THEN activate(x) ELSE {Ok(x)}

\* PQexec(), make_result() and check_result(): a query on a link that is gone
\* ends with the handle dropped.
query(x) ==
  IF x.status[x.conn] = "ok" THEN {Ok(x)}
  ELSE {Out([disconnect(x) EXCEPT !.completed = FALSE], "broken")}
=============================================================================
