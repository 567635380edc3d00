------------------------------ MODULE Session ------------------------------
(***************************************************************************)
(* What connection_base keeps for the client beyond one physical           *)
(* connection: prepared statements, session variables and notification     *)
(* receivers, and their restoration by SetupState() in the session that    *)
(* replaces a lost one (src/connection_base.cxx).                          *)
(*                                                                         *)
(* As in Connection, a member function is an operator from a state x to    *)
(* its outcomes [x, exc].  x has the fields                                *)
(*   handle, alive   as in Backend                                         *)
(*   defs    m_prepared: name -> [def, registered]                         *)
(*   vars    m_Vars: variable -> value                                     *)
(*   recs    m_receivers                                                   *)
(*   tx      m_Trans: no transaction, one that is active, one of whose     *)
(*           calls has thrown ("hurt"), one whose commit() has ("closed")  *)
(*   tvars   the transaction's m_Vars                                      *)
(*   srv     the backend session: its block, prepared statements,          *)
(*           channels listened to and variables; saved is what a rollback  *)
(*           restores (prepared statements are not transactional)          *)
(* When the link is lost so is the session, and it makes no difference     *)
(* whether the backend has carried out the last command.                   *)
(***************************************************************************)
EXTENDS Naturals, Functions

CONSTANTS
  Name, Unnamed,     \* names of prepared statements; one of them is empty
  Def, NoDef,        \* their definitions
  Var, Val, Default, \* session variables and their values
  Rejected,          \* values that the backend does not accept
  Receiver, Channel, \* receivers, and Channel[r]: what r listens to
  Careless           \* what the client does that the properties exclude

\* go_on           use a transaction after one of its calls has thrown, or after
\*                 disconnecting
\* receiver_in_tx  create or destroy a receiver during a transaction
\* set_unchecked   give a variable a rejected value while disconnected
ASSUME ConstantsAssumption ==
  /\ Unnamed \in Name /\ NoDef \notin Def /\ Default \notin Val
  /\ Rejected \subseteq Val
  /\ DOMAIN Channel = Receiver
  /\ Careless \subseteq {"go_on", "receiver_in_tx", "set_unchecked"}

VARIABLE s   \* the connection, its transaction and its session

Out(x, exc) == [x |-> x, exc |-> exc]

Ok(x) == Out(x, "ok")

\* Run F after the outcomes that returned normally; the others propagate.
Then(os, F(_)) == UNION {IF o.exc = "ok" THEN F(o.x) ELSE {o} : o \in os}

Channels(recs) == {Channel[r] : r \in recs}

----------------------------------------------------------------------------
(* The backend session.                                                    *)

Local(listen, set) == [listen |-> listen, set |-> set]

Unset == [v \in Var |-> Default]

NewSession ==
  [block |-> "idle", prep |-> [n \in Name |-> NoDef], listen |-> {},
   set |-> Unset, saved |-> Local({}, Unset)]

Answer(srv, exc) == [srv |-> srv, exc |-> exc]

Refuse(srv) ==
  {Answer([srv EXCEPT !.block = IF @ = "idle" THEN "idle" ELSE "failed"], "sql")}

\* A command that changes srv to new, unless the block is doomed.
Do(srv, new) == IF srv.block = "failed" THEN Refuse(srv) ELSE {Answer(new, "ok")}

RolledBack(srv) ==
  IF srv.block = "idle" THEN srv
  ELSE [srv EXCEPT !.block = "idle", !.listen = srv.saved.listen,
                   !.set = srv.saved.set]

BEGIN(srv) ==
  Do(srv, IF srv.block = "open" THEN srv
          ELSE [srv EXCEPT !.block = "open", !.saved = Local(srv.listen, srv.set)])

\* COMMIT of a doomed block rolls back and answers OK; any COMMIT may be refused.
COMMIT(srv) ==
  {Answer(IF srv.block = "open" THEN [srv EXCEPT !.block = "idle"]
                                ELSE RolledBack(srv), "ok"),
   Answer(RolledBack(srv), "sql")}

ROLLBACK(srv) == {Answer(RolledBack(srv), "ok")}

SET(srv, var, val) ==
  IF val \in Rejected THEN Refuse(srv) ELSE Do(srv, [srv EXCEPT !.set[var] = val])

SHOW(srv) == Do(srv, srv)

LISTEN(srv, ch) == Do(srv, [srv EXCEPT !.listen = @ \cup {ch}])

UNLISTEN(srv, ch) == Do(srv, [srv EXCEPT !.listen = @ \ {ch}])

\* The definition may be wrong; a name that is in use is refused.
PREPARE(srv, n, def) ==
  Refuse(srv)
    \cup (IF n # Unnamed /\ srv.prep[n] # NoDef THEN {}
          ELSE Do(srv, [srv EXCEPT !.prep[n] = def]))

DEALLOCATE(srv, n) ==
  IF srv.prep[n] = NoDef THEN Refuse(srv)
  ELSE Do(srv, [srv EXCEPT !.prep[n] = NoDef])

EXECUTE(srv, n) ==
  Refuse(srv) \cup (IF srv.prep[n] = NoDef THEN {} ELSE Do(srv, srv))

----------------------------------------------------------------------------
(* The connection.                                                         *)

is_open(x) == x.handle = "ok"

\* The session is gone; the client may have noticed (handle).
Gone(x, handle) ==
  [x EXCEPT !.handle = handle, !.alive = FALSE, !.srv = NewSession]

\* Mutant: the new session is taken to know the old one's statements.
Unregistered_Not(x) == x

\* SetupState() on the prepared statements: to be registered again on demand.
Unregistered(x) ==
  [x EXCEPT !.defs = [n \in DOMAIN x.defs |->
                        [def |-> x.defs[n].def, registered |-> FALSE]]]

\* Mutant: only variables are restored.
Restored_NoListen(x) ==
  IF \E var \in DOMAIN x.vars : x.vars[var] \in Rejected THEN NewSession
  ELSE [NewSession EXCEPT
          !.set = [var \in Var |-> IF var \in DOMAIN x.vars THEN x.vars[var]
                                                            ELSE Default]]

\* The batch of LISTEN and SET commands: one that fails undoes the batch, and
\* nothing looks at its result.
Restored(x) ==
  IF \E var \in DOMAIN x.vars : x.vars[var] \in Rejected THEN NewSession
  ELSE [NewSession EXCEPT
          !.listen = Channels(x.recs),
          !.set = [var \in Var |-> IF var \in DOMAIN x.vars THEN x.vars[var]
                                                            ELSE Default]]

SetupState(x) ==
  LET y == Unregistered(x) IN
  {Ok([y EXCEPT !.handle = "ok", !.alive = TRUE, !.srv = Restored(y)]),
   Out(Gone(y, "none"), "broken")}

activate(x) ==
  IF is_open(x) THEN {Ok(x)}
  ELSE {Out(Gone(x, "none"), "broken")}
         \cup (IF x.handle = "none" THEN SetupState(x) ELSE {})

get_notifs(x) ==
  {Ok(x)} \cup (IF is_open(x) THEN {Out(Gone(x, "bad"), "broken")} ELSE {})

\* PQexec and its kin, make_result() and check_result(): make_result() drops a
\* handle that has become BAD.
Query(x, F(_)) ==
  {Out(Gone(x, "none"), "broken")}
    \cup (IF x.alive THEN {Out([x EXCEPT !.srv = a.srv], a.exc) : a \in F(x.srv)}
                     ELSE {})

Exec(x, F(_)) ==
  Then(activate(x), LAMBDA y : Then(Query(y, F), get_notifs))

deactivate(x) ==
  IF x.handle = "none" THEN {Ok(x)}
  ELSE IF x.tx # "none" THEN {Out(x, "usage")}
  ELSE {Ok(Gone(x, "none"))}

----------------------------------------------------------------------------
(* Session variables.                                                      *)

Put(f, k, e) == [j \in DOMAIN f \cup {k} |-> IF j = k THEN e ELSE f[j]]

RawSetVar(x, var, val) == Exec(x, LAMBDA srv : SET(srv, var, val))

\* connection_base's forwards to the transaction's if there is one.
set_variable(x, var, val) ==
  IF x.tx # "none"
  THEN Then(RawSetVar(x, var, val),
            LAMBDA y : {Ok([y EXCEPT !.tvars = Put(@, var, val)])})
  ELSE Then(IF is_open(x) THEN RawSetVar(x, var, val) ELSE {Ok(x)},
            LAMBDA y : {Ok([y EXCEPT !.vars = Put(@, var, val)])})

\* A value that the transaction or the connection remembers is not asked for.
get_variable(x, var) ==
  IF (x.tx # "none" /\ var \in DOMAIN x.tvars) \/ var \in DOMAIN x.vars
  THEN {Ok(x)} ELSE Exec(x, SHOW)

----------------------------------------------------------------------------
(* Receivers.                                                              *)

Add(x, r) == [x EXCEPT !.recs = @ \cup {r}]

\* A connection lost in LISTEN is ignored: SetupState() will listen.
add_receiver(x, r) ==
  IF Channel[r] \in Channels(x.recs) \/ ~is_open(x) THEN {Ok(Add(x, r))}
  ELSE {IF o.exc \in {"ok", "broken"} THEN Ok(Add(o.x, r)) ELSE o :
        o \in Query(x, LAMBDA srv : LISTEN(srv, Channel[r]))}

\* The receiver goes first; whatever UNLISTEN throws is only reported.
remove_receiver(x, r) ==
  LET y == [x EXCEPT !.recs = @ \ {r}] IN
  IF x.handle = "none" \/ Channel[r] \in Channels(y.recs) THEN {Ok(y)}
  ELSE {Ok(o.x) : o \in Exec(y, LAMBDA srv : UNLISTEN(srv, Channel[r]))}

----------------------------------------------------------------------------
(* Prepared statements.                                                    *)

Define(x, n, def) ==
  [x EXCEPT !.defs = Put(@, n, [def |-> def, registered |-> FALSE])]

prepare(x, n, def) ==
  IF n \notin DOMAIN x.defs THEN {Ok(Define(x, n, def))}
  ELSE IF x.defs[n].def = def THEN {Ok(x)}
  ELSE IF n # Unnamed THEN {Out(x, "argument")}
  ELSE {Ok(Define(x, n, def))}

\* "registered" is read before Exec(), which may find it necessary to connect.
unprepare(x, n) ==
  Then(IF x.defs[n].registered THEN Exec(x, LAMBDA srv : DEALLOCATE(srv, n))
                               ELSE {Ok(x)},
       LAMBDA y : {Ok([y EXCEPT !.defs = Restrict(@, DOMAIN @ \ {n})])})

Registered(x, n) ==
  [x EXCEPT !.defs = Put(@, n, [def |-> x.defs[n].def, registered |-> n # Unnamed])]

register_prepared(x, n) ==
  Then(activate(x),
       LAMBDA y : IF y.defs[n].registered THEN {Ok(y)}
                  ELSE Then(Query(y, LAMBDA srv : PREPARE(srv, n, y.defs[n].def)),
                            LAMBDA z : {Ok(Registered(z, n))}))

prepared_exec(x, n) ==
  Then(register_prepared(x, n), LAMBDA y : Exec(y, LAMBDA srv : EXECUTE(srv, n)))

----------------------------------------------------------------------------
(* A dbtransaction, as far as it touches the above.                        *)

\* The constructor registers the transaction, and unregisters it if it throws.
begin(x) ==
  {IF o.exc = "ok" THEN Ok([o.x EXCEPT !.tx = "active", !.tvars = <<>>]) ELSE o :
   o \in Then(get_notifs(x), LAMBDA y : Exec(y, BEGIN))}

\* AddVariables()
AddVariables(x) ==
  [x EXCEPT !.vars = [var \in DOMAIN x.vars \cup DOMAIN x.tvars |->
                        IF var \in DOMAIN x.tvars THEN x.tvars[var] ELSE x.vars[var]]]

Ended(x) == [x EXCEPT !.tx = "none", !.tvars = <<>>]

commit(x) ==
  IF ~is_open(x) THEN {Out(x, "broken")}
  ELSE {IF o.exc = "ok" THEN Ok(Ended(AddVariables(o.x)))
                        ELSE Out([o.x EXCEPT !.tx = "closed"], o.exc) :
        o \in Exec(x, COMMIT)}

\* abort(), or the destructor of a transaction that is not committed.
end(x) ==
  IF x.tx = "closed" THEN {Ok(Ended(x))}
  ELSE {Ok(Ended(o.x)) : o \in Exec(x, ROLLBACK)}

----------------------------------------------------------------------------
Idle == s.tx = "none"

\* A call that throws during a transaction leaves it hurt.
Returned(o) ==
  s' = IF o.exc # "ok" /\ o.x.tx = "active" THEN [o.x EXCEPT !.tx = "hurt"] ELSE o.x

\* A client that is not careless ends a hurt transaction first.
Free == s.tx \in {"none", "active"} \/ "go_on" \in Careless

Activate == Free /\ \E o \in activate(s) : Returned(o)

Deactivate == Free /\ \E o \in deactivate(s) : Returned(o)

Disconnect ==
  /\ Idle \/ "go_on" \in Careless
  /\ Returned(Ok(Gone(s, "none")))

GetNotifs == Free /\ \E o \in get_notifs(s) : Returned(o)

SetVariable(var, val) ==
  /\ Free
  /\ Idle /\ ~is_open(s) /\ val \in Rejected => "set_unchecked" \in Careless
  /\ \E o \in set_variable(s, var, val) : Returned(o)

GetVariable(var) == Free /\ \E o \in get_variable(s, var) : Returned(o)

MayReceive == Free /\ (Idle \/ "receiver_in_tx" \in Careless)

AddReceiver(r) ==
  /\ MayReceive /\ r \notin s.recs
  /\ \E o \in add_receiver(s, r) : Returned(o)

RemoveReceiver(r) ==
  /\ MayReceive /\ r \in s.recs
  /\ \E o \in remove_receiver(s, r) : Returned(o)

Prepare(n, def) == Free /\ \E o \in prepare(s, n, def) : Returned(o)

Unprepare(n) ==
  /\ Free /\ n \in DOMAIN s.defs
  /\ \E o \in unprepare(s, n) : Returned(o)

PrepareNow(n) ==
  /\ Free /\ n \in DOMAIN s.defs
  /\ \E o \in register_prepared(s, n) : Returned(o)

PreparedExec(n) ==
  /\ Free /\ s.tx \in {"active", "hurt"} /\ n \in DOMAIN s.defs
  /\ \E o \in prepared_exec(s, n) : Returned(o)

Begin == Idle /\ \E o \in begin(s) : Returned(o)

Commit == Free /\ ~Idle /\ s.tx # "closed" /\ \E o \in commit(s) : Returned(o)

End == ~Idle /\ \E o \in end(s) : Returned(o)

LinkLost == is_open(s) /\ s.alive /\ s' = Gone(s, "ok")

Init ==
  s = [handle |-> "ok", alive |-> TRUE, defs |-> <<>>, vars |-> <<>>,
       recs |-> {}, tx |-> "none", tvars |-> <<>>, srv |-> NewSession]

Next ==
  \/ Activate \/ Deactivate \/ Disconnect \/ GetNotifs
  \/ \E var \in Var : GetVariable(var) \/ \E val \in Val : SetVariable(var, val)
  \/ \E r \in Receiver : AddReceiver(r) \/ RemoveReceiver(r)
  \/ \E n \in Name : \/ Unprepare(n) \/ PrepareNow(n) \/ PreparedExec(n)
                     \/ \E def \in Def : Prepare(n, def)
  \/ Begin \/ Commit \/ End \/ LinkLost

Spec == Init /\ [][Next]_s

----------------------------------------------------------------------------
(* Properties.                                                             *)

Block == {"idle", "open", "failed"}

PartialType(D, R) == UNION {[E -> R] : E \in SUBSET D}

SrvType ==
  [block : Block, prep : [Name -> Def \cup {NoDef}],
   listen : SUBSET Channels(Receiver), set : [Var -> Val \cup {Default}],
   saved : [listen : SUBSET Channels(Receiver), set : [Var -> Val \cup {Default}]]]

Entry == [def : Def, registered : BOOLEAN]

StateType ==
  [handle : {"none", "bad", "ok"}, alive : BOOLEAN,
   defs : PartialType(Name, Entry),
   vars : PartialType(Var, Val), recs : SUBSET Receiver,
   tx : {"none", "active", "hurt", "closed"},
   tvars : PartialType(Var, Val), srv : SrvType]

\* Every piece of state has its type, and the backend has a block only while the
\* connection has a transaction (transaction_base::Begin and End).
TypeOK == s \in StateType /\ (Idle => s.srv.block = "idle")

Connected == is_open(s) /\ s.alive

\* register_prepared(), unprepare(), SetupState(): a statement counts as
\* registered if and only if this session has it, and with the definition that
\* the connection has for it; the session has no others.  So PREPARE never meets
\* a name in use, and no statement runs with a definition that was dropped.
PreparedInSync ==
  Connected =>
    \A n \in Name \ {Unnamed} :
      s.srv.prep[n] = IF n \in DOMAIN s.defs /\ s.defs[n].registered
                      THEN s.defs[n].def ELSE NoDef

\* set_variable(), get_variable(), AddVariables(), SetupState(): the value that
\* get_variable() takes from m_Vars is the one the session has, also after
\* reconnections and aborted transactions, and no other variable is set.
VariablesCurrent ==
  Connected /\ s.tx \in {"none", "active"} =>
    s.srv.set = [var \in Var |->
                   IF s.tx = "active" /\ var \in DOMAIN s.tvars THEN s.tvars[var]
                   ELSE IF var \in DOMAIN s.vars THEN s.vars[var] ELSE Default]

\* add_receiver(), remove_receiver(), SetupState(): the session listens to the
\* channels that have receivers, and to no other.
ReceiversListen == Connected => s.srv.listen = Channels(s.recs)

\* SetupState(), set_variable(), add_receiver(): whatever session the connection
\* has, the first one or the last, is set up as the object remembers it.
RestoredInFull == TypeOK /\ VariablesCurrent /\ ReceiversListen
=============================================================================
