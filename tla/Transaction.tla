---------------------------- MODULE Transaction ----------------------------
(***************************************************************************)
(* Transaction objects on one connection: transaction_base, dbtransaction, *)
(* transaction<> and nontransaction, with a tablewriter as the stream that *)
(* can take a transaction's focus.                                         *)
(*                                                                         *)
(* An action is one call of the client into the library, with everything   *)
(* the call does: a failed exec() includes the abort() it triggers and the *)
(* reconnection that the ROLLBACK of that abort() may cause.  The          *)
(* environment may cut the link between, and (inside Backend) during, any  *)
(* two calls.                                                              *)
(*                                                                         *)
(* A running call works on x = [w, o]: the world and the object's fields   *)
(*   live   the object exists: constructed and not yet destroyed           *)
(*   st     m_Status ("absent" before construction)                        *)
(*   reg    m_Registered                                                   *)
(*   focus  m_Focus is set                                                 *)
(*   perr   m_PendingError is not empty                                    *)
(***************************************************************************)
EXTENDS Connection, FiniteSets

CONSTANTS
  Tx,          \* transaction objects
  Kind,        \* Kind[t]: which class t is of
  Effect,      \* the effects statements can have on the database
  Calls,       \* the entry points the client uses, of AllCalls
  Inhibited,   \* whether the client has called inhibit_reactivation(true)
  MaxAvoid     \* bound on the WITH HOLD cursors created

AllCalls == {"exec", "prepared", "parameterized", "late_parameterized",
             "direct", "stream", "abort", "abort_stream", "hold", "activate",
             "disconnect", "inhibit", "permit", "simulate_failure"}

ASSUME ConstantsAssumption ==
  /\ Kind \in [Tx -> {"transaction", "nontransaction"}]
  /\ NoTrans \notin Tx
  /\ Calls \subseteq AllCalls
  /\ Inhibited \in BOOLEAN
  /\ MaxAvoid \in Nat

VARIABLES
  w,       \* the connection and the backend session behind it
  obj,     \* obj[t]: the fields of transaction object t
  tried,   \* tried[t]: effects of the statements t was asked to execute
  done     \* done[t]: effects of those that returned normally

vars == <<w, obj, tried, done>>

Status == {"absent", "nascent", "active", "aborted", "committed", "in_doubt"}

Absent == [live |-> FALSE, st |-> "absent", reg |-> FALSE, focus |-> FALSE,
           perr |-> FALSE]

----------------------------------------------------------------------------
(* Member functions, as operators on x = [w, o].                           *)

Ret(x, exc) == [x |-> x, exc |-> exc]

\* A connection_base operation's outcomes, seen from the object.
Lift(x, os) == {Ret([x EXCEPT !.w = r.w], r.exc) : r \in os}

CheckPendingError(x) ==
  Ret([x EXCEPT !.o.perr = FALSE], IF x.o.perr THEN "failure" ELSE "ok")

DirectExec(x, op, eff) ==
  LET p == CheckPendingError(x) IN
  IF p.exc = "ok" THEN Lift(x, Exec(x.w, op, eff)) ELSE {p}

\* Mutant: End() forgets connection_base::UnregisterTransaction().
Unregister_KeepsTrans(x) ==
  [w |-> x.w, o |-> [x.o EXCEPT !.perr = FALSE, !.reg = FALSE]]

\* The part of End() that every caller reaches: report a pending error and
\* unregister from the connection.
Unregister(x) ==
  [w |-> IF x.o.reg THEN [x.w EXCEPT !.trans = NoTrans] ELSE x.w,
   o |-> [x.o EXCEPT !.perr = FALSE, !.reg = FALSE]]

SetStatus(x, st) == [w |-> x.w, o |-> [x.o EXCEPT !.st = st]]

\* Mutant: the block is never opened.
do_begin_Nothing(x, kind) == {Ret(x, "ok")}

do_begin(x, kind) ==
  IF kind = "nontransaction" THEN {Ret(x, "ok")} ELSE DirectExec(x, "BEGIN", {})

do_abort(x, kind) ==
  IF kind = "nontransaction" THEN {Ret(x, "ok")}
  ELSE DirectExec(x, "ROLLBACK", {})

\* Mutant: a COMMIT lost with the connection counts as refused.
do_commit_NeverInDoubt(x, kind) ==
  IF kind = "nontransaction" THEN {Ret(x, "ok")}
  ELSE DirectExec(x, "COMMIT", {})

\* A COMMIT that fails is in doubt if the connection is lost, refused if not.
do_commit(x, kind) ==
  IF kind = "nontransaction" THEN {Ret(x, "ok")}
  ELSE {IF r.exc # "ok" /\ ~is_open(r.x.w) THEN Ret(r.x, "in_doubt") ELSE r :
        r \in DirectExec(x, "COMMIT", {})}

\* Mutant: abort() only closes the object and sends no ROLLBACK.
abort_NoRollback(x, kind) ==
  IF x.o.st \in {"nascent", "active"}
  THEN {Ret(Unregister(SetStatus(x, "aborted")), "ok")}
  ELSE {Ret(x, IF x.o.st = "committed" THEN "usage" ELSE "ok")}

\* abort(): whatever do_abort() throws is swallowed.
abort(x, kind) ==
  CASE x.o.st = "nascent" ->
         {Ret(Unregister(SetStatus(x, "aborted")), "ok")}
    [] x.o.st = "active" ->
         {Ret(Unregister(SetStatus(r.x, "aborted")), "ok") :
          r \in do_abort(x, kind)}
    [] x.o.st = "committed" -> {Ret(x, "usage")}
    [] OTHER -> {Ret(x, "ok")}

\* End() of an object that is still active aborts it.
End(x, kind) ==
  IF x.o.st = "active" THEN abort(Unregister(x), kind)
                       ELSE {Ret(Unregister(x), "ok")}

\* dbtransaction::do_exec() aborts the transaction when a statement fails.
do_exec(x, kind, op, eff) ==
  IF kind = "nontransaction" THEN DirectExec(x, op, eff)
  ELSE UNION {IF r.exc = "ok" THEN {r}
              ELSE {Ret(a.x, r.exc) : a \in abort(r.x, kind)} :
              r \in DirectExec(x, op, eff)}

\* transaction_base::exec().  The constructors of the two classes begin the
\* transaction, so activate() never finds a nascent one.
exec(x, kind, op, eff) ==
  LET p == CheckPendingError(x) IN
  IF p.exc # "ok" THEN {p}
  ELSE IF x.o.focus \/ x.o.st # "active" THEN {Ret(x, "usage")}
  ELSE do_exec(x, kind, op, eff)

\* A commit() that fails leaves the object registered and closed to further
\* use; it does not call End().
commit(x, kind) ==
  LET p == CheckPendingError(x) IN
  IF p.exc # "ok" THEN {p}
  ELSE CASE x.o.st = "nascent"   -> {Ret(x, "ok")}
         [] x.o.st = "aborted"   -> {Ret(x, "usage")}
         [] x.o.st = "committed" -> {Ret(x, "ok")}
         [] x.o.st = "in_doubt"  -> {Ret(x, "in_doubt")}
         [] OTHER ->
              IF x.o.focus THEN {Ret(x, "failure")}
              ELSE IF ~is_open(x.w) THEN {Ret(x, "broken")}
              ELSE {CASE r.exc = "ok" ->
                           Ret(Unregister(SetStatus(r.x, "committed")), "ok")
                      [] r.exc = "in_doubt" ->
                           Ret(SetStatus(r.x, "in_doubt"), r.exc)
                      [] OTHER -> Ret(SetStatus(r.x, "aborted"), r.exc) :
                    r \in do_commit(x, kind)}

----------------------------------------------------------------------------
(* The client's calls.                                                     *)

\* The call on t leaves r; a statement with effect eff counts as tried, and as
\* done if the call returned normally.
Apply(t, r, eff) ==
  /\ w' = r.x.w
  /\ obj' = [obj EXCEPT ![t] = r.x.o]
  /\ tried' = [tried EXCEPT ![t] = @ \cup eff]
  /\ done' = [done EXCEPT ![t] = IF r.exc = "ok" THEN @ \cup eff ELSE @]

This(t) == [w |-> w, o |-> obj[t]]

Exists(t) == obj[t].live

\* Effects no statement has been issued for.
Unused == Effect \ UNION {tried[t] : t \in Tx}

\* transaction(C) { Begin(); }: register, then get_notifs() and do_begin().  If
\* either throws, End() unregisters and there is no object.
Construct(t) ==
  /\ obj[t].st = "absent" /\ w.trans = NoTrans
  /\ LET x == [w |-> [w EXCEPT !.trans = t],
               o |-> [Absent EXCEPT !.live = TRUE, !.st = "nascent",
                                    !.reg = TRUE]]
     IN \E n \in Lift(x, get_notifs(x.w)) :
        \E r \in (IF n.exc = "ok" THEN do_begin(n.x, Kind[t]) ELSE {n}) :
          IF r.exc = "ok" THEN Apply(t, Ret(SetStatus(r.x, "active"), "ok"), {})
          ELSE /\ w' = Unregister(r.x).w
               /\ UNCHANGED <<obj, tried, done>>

TxExec(t) ==
  /\ "exec" \in Calls /\ Exists(t)
  /\ \E e \in Unused : \E r \in exec(This(t), Kind[t], "SQL", {e}) :
       Apply(t, r, {e})

TxCommit(t) ==
  /\ Exists(t)
  /\ \E r \in commit(This(t), Kind[t]) : Apply(t, r, {})

TxAbort(t) ==
  /\ "abort" \in Calls /\ Exists(t)
  /\ obj[t].focus => "abort_stream" \in Calls
  /\ \E r \in abort(This(t), Kind[t]) : Apply(t, r, {})

\* ~transaction() calls End(); ~transaction_base() unregisters what is left.
TxDestroy(t) ==
  /\ Exists(t)
  /\ \E r \in End(This(t), Kind[t]) :
       LET o == [r.x.o EXCEPT !.live = FALSE, !.focus = FALSE]
       IN Apply(t, Ret([w |-> r.x.w, o |-> o], "ok"), {})

\* prepared(): activate() refuses a closed transaction; nothing looks at the
\* focus or at a pending error, and a failure does not abort.
TxPrepared(t) ==
  /\ "prepared" \in Calls /\ Exists(t) /\ obj[t].st = "active"
  /\ \E e \in Unused : \E r \in Lift(This(t), prepared_exec(w, {e})) :
       Apply(t, r, {e})

\* parameterized(): not even the transaction's status is looked at.
TxParameterized(t) ==
  /\ Exists(t)
  /\ IF obj[t].st = "active" THEN "parameterized" \in Calls
                             ELSE "late_parameterized" \in Calls
  /\ \E e \in Unused : \E r \in Lift(This(t), parameterized_exec(w, {e})) :
       Apply(t, r, {e})

\* A cursor's FETCH, MOVE and CLOSE, set_variable() and get_variable() go
\* straight to the connection's Exec().
TxDirect(t) ==
  /\ "direct" \in Calls /\ Exists(t)
  /\ \E r \in Lift(This(t), Exec(w, "SQL", {})) : Apply(t, r, {})

\* A WITH HOLD cursor: sql_cursor() activates the connection, declares the
\* cursor, fetches an empty result and raises the avoidance count.
TxHold(t) ==
  /\ "hold" \in Calls /\ Exists(t) /\ w.avoid < MaxAvoid
  /\ \E a \in Lift(This(t), activate(w)) :
     \E d \in (IF a.exc = "ok" THEN exec(a.x, Kind[t], "SQL", {}) ELSE {a}) :
     \E r \in (IF d.exc = "ok" THEN exec(d.x, Kind[t], "SQL", {}) ELSE {d}) :
       Apply(t, IF r.exc = "ok" THEN [r EXCEPT !.x.w.avoid = @ + 1] ELSE r, {})

\* tablewriter(): BeginCopyWrite(), then register_me().
StreamOpen(t) ==
  /\ "stream" \in Calls /\ Exists(t)
  /\ \E r \in exec(This(t), Kind[t], "COPY", {}) :
       Apply(t, IF r.exc = "ok" THEN [r EXCEPT !.x.o.focus = TRUE] ELSE r, {})

StreamWrite(t) ==
  /\ obj[t].focus
  /\ \E r \in Lift(This(t), WriteCopyLine(w)) : Apply(t, r, {})

\* writer_close() gives up the focus and ends the COPY.  complete() lets an
\* exception through; ~tablewriter() registers it as the pending error.
StreamClose(t, destroyed) ==
  /\ obj[t].focus
  /\ \E eff \in {{}} \cup {{e} : e \in Unused} :
     \E r \in Lift(This(t), EndCopyWrite(w, eff)) :
       Apply(t, [r EXCEPT !.x.o.focus = FALSE,
                          !.x.o.perr = @ \/ (destroyed /\ r.exc # "ok")], eff)

----------------------------------------------------------------------------
(* Calls on the connection, and the network.                               *)

OnConnection(v) == w' = v /\ UNCHANGED <<obj, tried, done>>

ConnGetNotifs == \E r \in get_notifs(w) : OnConnection(r.w)

ConnDeactivate == \E r \in deactivate(w) : OnConnection(r.w)

ConnActivate == "activate" \in Calls /\ \E r \in activate(w) : OnConnection(r.w)

ConnDisconnect == "disconnect" \in Calls /\ OnConnection(disconnect(w))

inhibit_reactivation(v, inhibit) == [v EXCEPT !.inhibit = inhibit]

ConnInhibit ==
  \/ "inhibit" \in Calls /\ OnConnection(inhibit_reactivation(w, TRUE))
  \/ "permit" \in Calls /\ OnConnection(inhibit_reactivation(w, FALSE))

ConnSimulateFailure ==
  "simulate_failure" \in Calls /\ OnConnection(simulate_failure(w))

\* The link goes; the client has not noticed.
LinkLost == w.handle = "ok" /\ w.alive /\ OnConnection(Gone(w))

----------------------------------------------------------------------------
Init ==
  /\ w = [handle |-> "ok", alive |-> TRUE, tx |-> "idle", copy |-> FALSE,
          work |-> {}, db |-> {}, inhibit |-> Inhibited, avoid |-> 0,
          trans |-> NoTrans]
  /\ obj = [t \in Tx |-> Absent]
  /\ tried = [t \in Tx |-> {}]
  /\ done = [t \in Tx |-> {}]

Next ==
  \/ \E t \in Tx : \/ Construct(t) \/ TxExec(t) \/ TxCommit(t) \/ TxAbort(t)
                   \/ TxDestroy(t) \/ TxPrepared(t) \/ TxParameterized(t)
                   \/ TxDirect(t) \/ TxHold(t) \/ StreamOpen(t)
                   \/ StreamWrite(t)
                   \/ \E d \in BOOLEAN : StreamClose(t, d)
  \/ ConnGetNotifs \/ ConnDeactivate \/ ConnActivate \/ ConnDisconnect
  \/ ConnInhibit \/ ConnSimulateFailure \/ LinkLost

Spec == Init /\ [][Next]_vars

----------------------------------------------------------------------------
(* Properties.                                                             *)

ObjType == [live : BOOLEAN, st : Status, reg : BOOLEAN, focus : BOOLEAN,
            perr : BOOLEAN]

WorldType ==
  [handle : Handle, alive : BOOLEAN, tx : TxState, copy : BOOLEAN,
   work : SUBSET Effect, db : SUBSET Effect, inhibit : BOOLEAN, avoid : Nat,
   trans : Tx \cup {NoTrans}]

\* Every piece of state has its type, and an object that counts itself
\* registered is the one the connection knows (m_Registered and m_Trans).
TypeOK ==
  /\ w \in WorldType
  /\ obj \in [Tx -> ObjType]
  /\ tried \in [Tx -> SUBSET Effect]
  /\ done \in [Tx -> SUBSET Effect]
  /\ \A t \in Tx : obj[t].reg <=> w.trans = t

Bracketed(t) == Kind[t] = "transaction"

\* dbtransaction: the work of one transaction is never half in the database,
\* whatever fails: either everything the client saw succeed is there, or
\* nothing it asked for is (transaction_base::commit, dbtransaction::do_exec).
NoHalfWork ==
  \A t \in Tx : Bracketed(t) =>
    done[t] \subseteq w.db \/ tried[t] \cap w.db = {}

\* transaction_base::commit: when it has returned normally, the work is
\* durable; and until it is called, and after an abort, none of it is.
OutcomeTruthful ==
  \A t \in Tx : Bracketed(t) =>
    /\ obj[t].st = "committed" => done[t] \subseteq w.db
    /\ obj[t].st \notin {"committed", "in_doubt"} => tried[t] \cap w.db = {}

\* transaction_base::End and abort: when no transaction is under way, the
\* session holds no open or doomed block that the next one would inherit.
SessionClean ==
  (\A t \in Tx : obj[t].st # "active") => w.tx = "idle" /\ w.work = {}

\* nontransaction: what it executes is durable at once; no block left behind by
\* an earlier transaction swallows it.
NontransactionImmediate ==
  \A t \in Tx : ~Bracketed(t) => done[t] \subseteq w.db

\* The refinement mapping to AtomicCommit: the objects of class transaction<>, what
\* their m_Status tells the client, and the part of the database that is theirs.
BracketedTx == {t \in Tx : Bracketed(t)}

AtomicStatus ==
  [t \in BracketedTx |->
     IF obj[t].st \in {"committed", "aborted", "in_doubt"} THEN obj[t].st ELSE "open"]

AtomicWork == [t \in BracketedTx |-> done[t]]

AtomicDb == {e \in w.db : \E t \in BracketedTx : e \in tried[t]}

Atomic ==
  INSTANCE AtomicCommit
    WITH Tx <- BracketedTx, status <- AtomicStatus, work <- AtomicWork, db <- AtomicDb

\* transaction<> keeps AtomicCommit's promise: through failed statements, lost
\* links, reconnections and the transactions before and after, its work becomes
\* durable only as a whole and only in the commit() that answers for it.
ImplementsAtomicCommit == Atomic!Spec
=============================================================================
