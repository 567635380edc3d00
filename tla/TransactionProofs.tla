------------------------- MODULE TransactionProofs -------------------------
(***************************************************************************)
(* Proofs about Transaction, for every set of objects, classes and         *)
(* effects.  The argument has four layers:                                 *)
(*   - what connection_base::Exec leaves of the session, command by        *)
(*     command (Plain worlds: no COPY under way, no hold cursor created);  *)
(*   - what an operation of a transaction object may do to the object and  *)
(*     to the database (ObjectSound, WorkSound), which is all that         *)
(*     preserving the invariant needs (ApplyPreserves);                    *)
(*   - the same for AtomicCommit (AtomicSound, ApplyRefines);              *)
(*   - one lemma per action, and the theorems.                             *)
(***************************************************************************)
EXTENDS Transaction, TLAPS

\* A world in which no COPY is under way and no hold cursor was created, and a
\* session that is gone holds no block.
Plain(v) ==
  /\ v \in WorldType
  /\ ~v.copy /\ v.avoid = 0
  /\ v.alive => v.handle = "ok"
  /\ ~v.alive => v.tx = "idle"
  /\ v.tx # "open" => v.work = {}

\* What no connection_base operation touches.
Frame(u, v) == v.trans = u.trans /\ v.inhibit = u.inhibit

\* What losing, replacing and dropping the session leaves (Gone, PQreset,
\* connection_base::disconnect): the block is gone, the database is not.
LEMMA GoneFacts ==
  ASSUME NEW v, Plain(v)
  PROVE  /\ Plain(Lost(v)) /\ Frame(v, Lost(v)) /\ Lost(v).db = v.db
         /\ Lost(v).tx = "idle" /\ ~Lost(v).alive /\ Lost(v).handle = "bad"
         /\ Plain(Fresh(v)) /\ Frame(v, Fresh(v)) /\ Fresh(v).db = v.db
         /\ Fresh(v).tx = "idle" /\ Fresh(v).alive /\ Fresh(v).handle = "ok"
         /\ Plain(disconnect(v)) /\ Frame(v, disconnect(v))
         /\ disconnect(v).db = v.db /\ disconnect(v).tx = "idle"
         /\ ~disconnect(v).alive /\ disconnect(v).handle = "none"
BY DEF Plain, Frame, Lost, Fresh, disconnect, Gone, WorldType, Handle, TxState

\* connection_base::activate: it returns normally only with an open connection,
\* never touches the database, and never revives a handle that is BAD.
LEMMA ActivateFacts ==
  ASSUME NEW v, Plain(v), NEW o \in activate(v)
  PROVE  /\ Plain(o.w) /\ Frame(v, o.w) /\ o.w.db = v.db
         /\ o.exc = "ok" => is_open(o.w)
         /\ is_open(v) => o = Out(v, "ok")
         /\ ~is_open(v) => o.w.tx = "idle"
         /\ v.handle = "bad" => o.exc # "ok"
         /\ o.exc \in {"ok", "broken"}
BY GoneFacts DEF activate, Out, is_open, Plain, Frame

\* connection_base::get_notifs changes the world only by noticing a loss.
LEMMA GetNotifsFacts ==
  ASSUME NEW v, Plain(v), NEW o \in get_notifs(v)
  PROVE  /\ Plain(o.w) /\ Frame(v, o.w) /\ o.w.db = v.db
         /\ o.exc = "ok" => o.w = v
         /\ o.exc # "ok" => o.w.handle = "bad"
         /\ o.w.handle = "none" => v.handle = "none"
BY GoneFacts DEF get_notifs, PQconsumeInput, Out, is_open, Plain, Frame

Ops == {"BEGIN", "COMMIT", "ROLLBACK", "SQL"}

\* How a command that was answered changes the session.
Effected(u, v, op, eff, res) ==
  /\ op = "BEGIN" =>
       v.db = u.db /\ (u.tx # "failed" => v.tx = "open" /\ v.work = u.work /\ res = "ok")
  /\ op = "COMMIT" =>
       v.tx = "idle" /\ v.db = IF res = "ok" THEN u.db \cup u.work ELSE u.db
  /\ op = "ROLLBACK" => v.tx = "idle" /\ v.db = u.db
  /\ op = "SQL" /\ u.tx = "idle" =>
       v.tx = "idle" /\ v.db = IF res = "ok" THEN u.db \cup eff ELSE u.db
  /\ op = "SQL" /\ u.tx # "idle" =>
       v.db = u.db /\ (res = "ok" => v.tx = "open" /\ v.work = u.work \cup eff)

\* a is the reply, from u's session, that Reply describes.
Replied(a, u, tx, work, db, res) ==
  /\ Plain(a.w) /\ Frame(u, a.w)
  /\ a.w.handle = u.handle /\ a.w.alive = u.alive
  /\ a.w.tx = tx /\ a.w.work = work /\ a.w.db = db /\ a.res = res

\* A reply changes the four fields it names and no other.
LEMMA ReplyFacts ==
  ASSUME NEW u, Plain(u), u.alive, NEW tx \in TxState, NEW work \in SUBSET Effect,
         NEW db \in SUBSET Effect, NEW res, tx # "open" => work = {}
  PROVE  Replied(Reply(u, tx, work, db, res), u, tx, work, db, res)
BY DEF Replied, Reply, Plain, Frame, WorldType

\* The backend's answers to BEGIN, COMMIT, ROLLBACK and a statement.
LEMMA AnswersFacts ==
  ASSUME NEW u, Plain(u), u.alive, NEW op \in Ops, NEW eff \in SUBSET Effect,
         NEW a \in Answers(u, op, eff)
  PROVE  /\ Plain(a.w) /\ Frame(u, a.w) /\ a.res \in {"ok", "error"}
         /\ a.w.handle = u.handle /\ a.w.alive = u.alive
         /\ Effected(u, a.w, op, eff, a.res)
<1>t. /\ u.tx \in TxState /\ u.work \in SUBSET Effect /\ u.db \in SUBSET Effect
      /\ u.tx # "open" => u.work = {}
  BY DEF Plain, WorldType
<1>1. CASE op = "BEGIN"
  <2>1. a \in BeginBlock(u)
    BY <1>1 DEF Answers
  <2>2. CASE u.tx = "failed"
    <3>1. Replied(a, u, "failed", {}, u.db, "error")
      BY <1>t, <2>1, <2>2, ReplyFacts DEF BeginBlock, TxState
    <3> QED BY <1>1, <2>2, <3>1 DEF Replied, Effected
  <2>3. CASE u.tx # "failed"
    <3>1. Replied(a, u, "open", u.work, u.db, "ok")
      BY <1>t, <2>1, <2>3, ReplyFacts DEF BeginBlock, TxState
    <3> QED BY <1>1, <2>3, <3>1 DEF Replied, Effected
  <2> QED BY <2>2, <2>3
<1>2. CASE op = "COMMIT"
  <2>1. a \in CommitBlock(u)
    BY <1>2 DEF Answers
  <2>2. \/ Replied(a, u, "idle", {}, u.db \cup u.work, "ok")
        \/ Replied(a, u, "idle", {}, u.db, "error")
    <3>1. \/ a = Reply(u, "idle", {}, u.db \cup u.work, "ok")
          \/ a = Reply(u, "idle", {}, u.db, "error")
      BY <2>1 DEF CommitBlock
    <3> QED BY <1>t, <3>1, ReplyFacts DEF TxState
  <2> QED BY <1>2, <2>2 DEF Replied, Effected
<1>3. CASE op = "ROLLBACK"
  <2>1. a \in RollbackBlock(u)
    BY <1>3 DEF Answers
  <2>2. Replied(a, u, "idle", {}, u.db, "ok")
    BY <1>t, <2>1, ReplyFacts DEF RollbackBlock, TxState
  <2> QED BY <1>3, <2>2 DEF Replied, Effected
<1>4. CASE op = "SQL"
  <2>1. a \in Statement(u, eff)
    BY <1>4 DEF Answers
  <2>2. CASE u.tx = "idle"
    <3>1. \/ a = Reply(u, "idle", {}, u.db \cup eff, "ok")
          \/ a = Reply(u, "idle", {}, u.db, "error")
      BY <2>1, <2>2 DEF Statement, Doom
    <3>2. \/ Replied(a, u, "idle", {}, u.db \cup eff, "ok")
          \/ Replied(a, u, "idle", {}, u.db, "error")
      BY <1>t, <3>1, ReplyFacts DEF TxState
    <3> QED BY <1>4, <2>2, <3>2 DEF Replied, Effected
  <2>3. CASE u.tx # "idle"
    <3>1. \/ a = Reply(u, "open", u.work \cup eff, u.db, "ok")
          \/ a = Reply(u, "failed", {}, u.db, "error")
      BY <2>1, <2>3 DEF Statement, Doom
    <3>2. \/ Replied(a, u, "open", u.work \cup eff, u.db, "ok")
          \/ Replied(a, u, "failed", {}, u.db, "error")
      BY <1>t, <3>1, ReplyFacts DEF TxState
    <3> QED BY <1>4, <2>3, <3>2 DEF Replied, Effected
  <2> QED BY <2>2, <2>3
<1> QED BY <1>1, <1>2, <1>3, <1>4 DEF Ops

\* The backend carried out the command and the client got its answer.
Answered(u, o, op, eff) ==
  /\ u.alive /\ o.w.alive
  /\ \E res \in {"ok", "error"} :
       Effected(u, o.w, op, eff, res) /\ (o.exc = "ok" <=> res = "ok")

\* The connection broke; the backend may have carried out the command.
Broke(u, o, op, eff) ==
  /\ o.exc # "ok" /\ ~o.w.alive /\ ~is_open(o.w)
  /\ \/ o.w.db = u.db
     \/ /\ u.alive
        /\ \E v, res : Effected(u, v, op, eff, res) /\ o.w.db = v.db

\* A libpq call, make_result() and check_result() on an open connection: the
\* command was answered, or the connection broke and is not open afterwards.
LEMMA QueryFacts ==
  ASSUME NEW u, Plain(u), is_open(u), NEW op \in Ops,
         NEW eff \in SUBSET Effect, NEW o \in Query(u, op, eff)
  PROVE  /\ Plain(o.w) /\ Frame(u, o.w)
         /\ Answered(u, o, op, eff) \/ Broke(u, o, op, eff)
<1>1. PICK r \in PQexec(u, op, eff) :
        o \in Then(make_result(r.w), LAMBDA v : {check_result(v, r.res)})
  BY DEF Query
<1>2. PICK p \in make_result(r.w) :
        IF p.exc = "ok" THEN o = check_result(p.w, r.res) ELSE o = p
  BY <1>1 DEF Then
<1>e. EndCopy(u) = u
  BY DEF EndCopy, Plain
<1>3. CASE u.alive /\ r \in Answers(u, op, eff)
  <2>1. /\ Plain(r.w) /\ Frame(u, r.w) /\ r.res \in {"ok", "error"}
        /\ r.w.handle = "ok" /\ r.w.alive /\ Effected(u, r.w, op, eff, r.res)
    BY <1>3, AnswersFacts DEF is_open
  <2>2. p = Out(r.w, "ok")
    BY <1>2, <2>1, ActivateFacts DEF make_result, is_open
  <2>3. o = Out(r.w, IF r.res = "ok" THEN "ok" ELSE "sql")
    BY <1>2, <2>1, <2>2 DEF Out, check_result, is_open
  <2>4. o.w = r.w /\ (o.exc = "ok" <=> r.res = "ok")
    BY <2>3 DEF Out
  <2> QED BY <1>3, <2>1, <2>4 DEF Answered
<1>4. CASE \E v : /\ Plain(v) /\ Frame(u, v) /\ r.w = Lost(v)
                  /\ \/ v.db = u.db
                     \/ u.alive /\ \E res : Effected(u, v, op, eff, res)
  <2>1. PICK v : /\ Plain(v) /\ Frame(u, v) /\ r.w = Lost(v)
                 /\ \/ v.db = u.db
                    \/ u.alive /\ \E res : Effected(u, v, op, eff, res)
    BY <1>4
  <2>2. /\ Plain(r.w) /\ Frame(u, r.w) /\ r.w.db = v.db /\ r.w.tx = "idle"
        /\ ~r.w.alive /\ r.w.handle = "bad"
    BY <2>1, GoneFacts DEF Frame
  <2>3. /\ Plain(p.w) /\ Frame(u, p.w) /\ p.w.db = v.db /\ p.exc # "ok"
    BY <1>2, <2>2, ActivateFacts DEF make_result, Frame
  <2>4. ~is_open(p.w)
    BY <1>2, <2>2, GoneFacts DEF make_result, activate, is_open, Out
  <2>5. o = p /\ ~p.w.alive
    BY <1>2, <2>3, <2>4 DEF Plain, is_open
  <2> QED BY <2>1, <2>3, <2>4, <2>5 DEF Broke
<1>5. \/ u.alive /\ r \in Answers(u, op, eff)
      \/ r.w = Lost(u)
      \/ u.alive /\ \E a \in Answers(u, op, eff) : r.w = Lost(a.w)
  <2>1. CASE ~u.alive
    BY <2>1 DEF PQexec, is_open
  <2>2. CASE u.alive
    <3>1. PQexec(u, op, eff) =
            Answers(u, op, eff) \cup {[w |-> Lost(u), res |-> "none"]}
              \cup {[w |-> Lost(a.w), res |-> "none"] : a \in Answers(u, op, eff)}
      BY <1>e, <2>2 DEF PQexec, is_open
    <3> QED BY <2>2, <3>1
  <2> QED BY <2>1, <2>2
<1>6. CASE r.w = Lost(u)
  BY <1>4, <1>6 DEF Frame
<1>7. CASE u.alive /\ \E a \in Answers(u, op, eff) : r.w = Lost(a.w)
  <2>1. PICK a \in Answers(u, op, eff) : r.w = Lost(a.w)
    BY <1>7
  <2>2. Plain(a.w) /\ Frame(u, a.w) /\ Effected(u, a.w, op, eff, a.res)
    BY <1>7, AnswersFacts
  <2> QED BY <1>4, <1>7, <2>1, <2>2
<1> QED BY <1>3, <1>5, <1>6, <1>7

\* activate() failed: the command was not sent.
Refused(u, o) ==
  /\ o.exc # "ok" /\ ~u.alive /\ ~is_open(u)
  /\ o.w.db = u.db /\ o.w.tx = "idle" /\ ~o.w.alive

\* The command was sent on v: the session u has, or a fresh one.
SentOn(u, v, o, op, eff) ==
  /\ Plain(v) /\ v.db = u.db /\ v.handle = "ok"
  /\ v = u \/ (u.handle = "none" /\ v.tx = "idle" /\ v.work = {})
  /\ Answered(v, o, op, eff) \/ Broke(v, o, op, eff)

\* connection_base::Exec: the command is refused, or sent on the session there
\* is, or, only if the handle was null, on a fresh one.
LEMMA ExecFacts ==
  ASSUME NEW u, Plain(u), NEW op \in Ops, NEW eff \in SUBSET Effect,
         NEW o \in Exec(u, op, eff)
  PROVE  /\ Plain(o.w) /\ Frame(u, o.w)
         /\ Refused(u, o) \/ \E v : SentOn(u, v, o, op, eff)
<1>1. PICK p \in activate(u) :
        IF p.exc = "ok" THEN o \in Then(Query(p.w, op, eff), get_notifs)
                        ELSE o = p
  BY DEF Exec, Then
<1>2. /\ Plain(p.w) /\ Frame(u, p.w) /\ p.w.db = u.db
      /\ p.exc = "ok" => is_open(p.w)
      /\ is_open(u) => p = Out(u, "ok")
      /\ ~is_open(u) => p.w.tx = "idle"
      /\ u.handle = "bad" => p.exc # "ok"
  BY <1>1, ActivateFacts
<1>3. CASE p.exc # "ok"
  <2>1. ~is_open(u) /\ ~u.alive
    BY <1>2, <1>3 DEF Out, Plain, is_open
  <2>2. ~p.w.alive
    BY <1>1, <1>3, <2>1, GoneFacts DEF activate, Out, is_open
  <2> QED BY <1>1, <1>2, <1>3, <2>1, <2>2 DEF Refused
<1>4. CASE p.exc = "ok"
  <2>v. /\ p.w.handle = "ok"
        /\ \/ p.w = u
           \/ u.handle = "none" /\ p.w.tx = "idle" /\ p.w.work = {}
    BY <1>2, <1>4 DEF Out, Plain, is_open, WorldType, Handle
  <2>1. PICK q \in Query(p.w, op, eff) :
          IF q.exc = "ok" THEN o \in get_notifs(q.w) ELSE o = q
    BY <1>1, <1>4 DEF Then
  <2>2. /\ Plain(q.w) /\ Frame(u, q.w)
        /\ Answered(p.w, q, op, eff) \/ Broke(p.w, q, op, eff)
    BY <1>2, <1>4, <2>1, QueryFacts DEF Frame
  <2>3. CASE q.exc # "ok"
    BY <1>2, <2>v, <2>1, <2>2, <2>3 DEF SentOn
  <2>4. CASE q.exc = "ok"
    <3>1. Answered(p.w, q, op, eff)
      BY <2>2, <2>4 DEF Broke
    <3>2. /\ Plain(o.w) /\ Frame(u, o.w) /\ o.w.db = q.w.db
          /\ o.exc = "ok" => o.w = q.w
          /\ o.exc # "ok" => o.w.handle = "bad"
      BY <2>1, <2>2, <2>4, GetNotifsFacts DEF Frame
    <3>3. CASE o.exc = "ok"
      BY <1>2, <2>v, <2>4, <3>1, <3>2, <3>3 DEF Answered, SentOn
    <3>4. CASE o.exc # "ok"
      <4>1. ~o.w.alive /\ ~is_open(o.w)
        BY <3>2, <3>4 DEF Plain, is_open
      <4>2. Broke(p.w, o, op, eff)
        BY <3>1, <3>2, <3>4, <4>1 DEF Answered, Broke
      <4> QED BY <1>2, <2>v, <3>2, <4>2 DEF SentOn
    <3> QED BY <3>3, <3>4
  <2> QED BY <2>3, <2>4
<1> QED BY <1>3, <1>4

----------------------------------------------------------------------------
(* What the four commands a transaction issues leave behind.               *)

\* ROLLBACK leaves no block, whether or not it could be sent.
LEMMA RollbackFacts ==
  ASSUME NEW u, Plain(u), NEW o \in Exec(u, "ROLLBACK", {})
  PROVE  Plain(o.w) /\ Frame(u, o.w) /\ o.w.db = u.db /\ o.w.tx = "idle"
<1>1. "ROLLBACK" \in Ops /\ {} \in SUBSET Effect
  BY DEF Ops
<1>3. Plain(o.w) /\ Frame(u, o.w)
  BY <1>1, ExecFacts
<1>4. CASE Refused(u, o)
  BY <1>3, <1>4 DEF Refused, Plain
<1>5. CASE \E v : SentOn(u, v, o, "ROLLBACK", {})
  <2>1. PICK v : SentOn(u, v, o, "ROLLBACK", {})
    BY <1>5
  <2>2. CASE Answered(v, o, "ROLLBACK", {})
    BY <1>3, <2>1, <2>2 DEF SentOn, Answered, Effected, Plain
  <2>3. CASE Broke(v, o, "ROLLBACK", {})
    BY <1>3, <2>1, <2>3 DEF SentOn, Broke, Effected, Plain
  <2> QED BY <2>1, <2>2, <2>3 DEF SentOn
<1> QED BY <1>1, <1>4, <1>5, ExecFacts

\* BEGIN outside a block opens an empty one or fails and leaves none.
LEMMA BeginFacts ==
  ASSUME NEW u, Plain(u), u.tx = "idle", NEW o \in Exec(u, "BEGIN", {})
  PROVE  /\ Plain(o.w) /\ Frame(u, o.w) /\ o.w.db = u.db
         /\ o.exc = "ok" => o.w.alive /\ o.w.tx = "open" /\ o.w.work = {}
         /\ o.exc # "ok" => o.w.tx = "idle"
<1>1. "BEGIN" \in Ops /\ {} \in SUBSET Effect
  BY DEF Ops
<1>2. u.work = {}
  BY DEF Plain
<1>3. Plain(o.w) /\ Frame(u, o.w)
  BY <1>1, ExecFacts
<1>4. CASE Refused(u, o)
  BY <1>3, <1>4, <1>2 DEF Refused, Plain
<1>5. CASE \E v : SentOn(u, v, o, "BEGIN", {})
  <2>1. PICK v : SentOn(u, v, o, "BEGIN", {})
    BY <1>5
  <2>2. CASE Answered(v, o, "BEGIN", {})
    BY <1>3, <1>2, <2>1, <2>2 DEF SentOn, Answered, Effected, Plain
  <2>3. CASE Broke(v, o, "BEGIN", {})
    BY <1>3, <1>2, <2>1, <2>3 DEF SentOn, Broke, Effected, Plain
  <2> QED BY <2>1, <2>2, <2>3 DEF SentOn
<1> QED BY <1>1, <1>4, <1>5, ExecFacts

\* COMMIT: on success the work is durable; on failure it is not, unless the
\* connection is no longer open.
LEMMA CommitFacts ==
  ASSUME NEW u, Plain(u), is_open(u), NEW o \in Exec(u, "COMMIT", {})
  PROVE  /\ Plain(o.w) /\ Frame(u, o.w) /\ o.w.tx = "idle"
         /\ o.exc = "ok" => u.alive /\ o.w.db = u.db \cup u.work
         /\ o.exc # "ok" => \/ o.w.db = u.db
                            \/ u.alive /\ o.w.db = u.db \cup u.work /\ ~is_open(o.w)
<1>1. "COMMIT" \in Ops /\ {} \in SUBSET Effect
  BY DEF Ops
<1>2. /\ Plain(o.w) /\ Frame(u, o.w)
      /\ Answered(u, o, "COMMIT", {}) \/ Broke(u, o, "COMMIT", {})
  BY <1>1, ExecFacts DEF is_open, Refused, SentOn
<1> QED BY <1>2 DEF Answered, Broke, Effected, Plain

\* A statement inside a transaction's block, or on its dead connection.
LEMMA BlockStatementFacts ==
  ASSUME NEW u, Plain(u), u.handle # "none", u.alive => u.tx = "open",
         NEW eff \in SUBSET Effect, NEW o \in Exec(u, "SQL", eff)
  PROVE  /\ Plain(o.w) /\ Frame(u, o.w) /\ o.w.db = u.db
         /\ o.exc = "ok" => /\ u.alive /\ o.w.alive /\ o.w.tx = "open"
                            /\ o.w.work = u.work \cup eff
<1>1. "SQL" \in Ops
  BY DEF Ops
<1>3. Plain(o.w) /\ Frame(u, o.w)
  BY <1>1, ExecFacts
<1>4. CASE Refused(u, o)
  BY <1>3, <1>4 DEF Refused, Plain
<1>5. CASE \E v : SentOn(u, v, o, "SQL", eff)
  <2>1. PICK v : SentOn(u, v, o, "SQL", eff)
    BY <1>5
  <2>2. CASE Answered(v, o, "SQL", eff)
    BY <1>3, <2>1, <2>2 DEF SentOn, Answered, Effected, Plain
  <2>3. CASE Broke(v, o, "SQL", eff)
    BY <1>3, <2>1, <2>3 DEF SentOn, Broke, Effected, Plain
  <2> QED BY <2>1, <2>2, <2>3 DEF SentOn
<1> QED BY <1>1, <1>4, <1>5, ExecFacts

\* A statement outside any block.
LEMMA SingleStatementFacts ==
  ASSUME NEW u, Plain(u), u.tx = "idle", NEW eff \in SUBSET Effect,
         NEW o \in Exec(u, "SQL", eff)
  PROVE  /\ Plain(o.w) /\ Frame(u, o.w) /\ o.w.tx = "idle"
         /\ o.exc = "ok" => o.w.db = u.db \cup eff
         /\ o.w.db = u.db \/ o.w.db = u.db \cup eff
<1>1. "SQL" \in Ops
  BY DEF Ops
<1>3. Plain(o.w) /\ Frame(u, o.w)
  BY <1>1, ExecFacts
<1>4. CASE Refused(u, o)
  BY <1>3, <1>4 DEF Refused, Plain
<1>5. CASE \E v : SentOn(u, v, o, "SQL", eff)
  <2>1. PICK v : SentOn(u, v, o, "SQL", eff)
    BY <1>5
  <2>2. CASE Answered(v, o, "SQL", eff)
    BY <1>3, <2>1, <2>2 DEF SentOn, Answered, Effected, Plain
  <2>3. CASE Broke(v, o, "SQL", eff)
    BY <1>3, <2>1, <2>3 DEF SentOn, Broke, Effected, Plain
  <2> QED BY <2>1, <2>2, <2>3 DEF SentOn
<1> QED BY <1>1, <1>4, <1>5, ExecFacts

----------------------------------------------------------------------------
(* The inductive invariant of a client that executes statements only        *)
(* through transaction_base::exec().                                        *)

ExecOnlyCalls == {"exec", "abort", "inhibit", "permit"}

\* No stream is ever open, and no constructor is left half way.
ObjectsQuiet ==
  \A t \in Tx : /\ ~obj[t].focus /\ ~obj[t].perr /\ obj[t].st # "nascent"
                /\ obj[t].live => obj[t].st # "absent"
                /\ obj[t].st = "active" => obj[t].reg

\* The backend has a block exactly for the active transaction, unless the
\* connection is gone; the block holds what that transaction has done.
BlockMatches ==
  /\ (\A t \in Tx : Bracketed(t) => obj[t].st # "active") => w.tx = "idle"
  /\ \A t \in Tx : Bracketed(t) /\ obj[t].st = "active" =>
       /\ w.handle # "none"
       /\ w.alive => w.tx = "open" /\ w.work = done[t]

\* Each effect belongs to one object.
Bookkeeping ==
  /\ \A t \in Tx : done[t] \subseteq tried[t]
  /\ \A t \in Tx : obj[t].st = "absent" => tried[t] = {}
  /\ \A t, u \in Tx : t # u => tried[t] \cap tried[u] = {}
  /\ w.db \subseteq UNION {tried[t] : t \in Tx}

ExecInv ==
  /\ TypeOK /\ Plain(w) /\ ObjectsQuiet /\ BlockMatches /\ Bookkeeping
  /\ NoHalfWork /\ OutcomeTruthful /\ NontransactionImmediate

\* The work of t after a call that ended as r and tried eff.
DoneAfter(t, r, eff) == IF r.exc = "ok" THEN done[t] \cup eff ELSE done[t]

\* What a call on t may do to the object and to the connection's m_Trans.
ObjectSound(t, r) ==
  /\ Plain(r.x.w) /\ r.x.o \in ObjType /\ ~r.x.o.focus /\ ~r.x.o.perr
  /\ r.x.o.st \notin {"nascent", "absent"}
  /\ r.x.o.reg <=> r.x.w.trans = t
  /\ r.x.o.st = "active" => r.x.o.reg
  /\ \/ r.x.w.trans = w.trans
     \/ w.trans = t /\ r.x.w.trans = NoTrans
     \/ w.trans = NoTrans /\ r.x.w.trans = t

\* The call changed nothing but the object's registration of its own end.
Idle(t, r, eff) ==
  /\ r.x.w = w /\ r.x.o.st = obj[t].st
  /\ r.exc # "ok" \/ eff = {}

\* The call was on the one transaction under way, and accounts for its work.
WorkSound(t, r, eff) ==
  /\ w.trans \in {t, NoTrans}
  /\ w.db \subseteq r.x.w.db /\ r.x.w.db \subseteq w.db \cup tried[t] \cup eff
  /\ IF Bracketed(t) /\ r.x.o.st = "active"
     THEN /\ r.x.w.handle # "none"
          /\ r.x.w.alive => /\ r.x.w.tx = "open"
                            /\ r.x.w.work = DoneAfter(t, r, eff)
     ELSE r.x.w.tx = "idle"
  /\ Bracketed(t) =>
       /\ r.x.o.st = "committed" => DoneAfter(t, r, eff) \subseteq r.x.w.db
       /\ r.x.o.st = "in_doubt" =>
            \/ DoneAfter(t, r, eff) \subseteq r.x.w.db
            \/ (tried[t] \cup eff) \cap r.x.w.db = {}
       /\ r.x.o.st \notin {"committed", "in_doubt"} =>
            (tried[t] \cup eff) \cap r.x.w.db = {}
  /\ ~Bracketed(t) => DoneAfter(t, r, eff) \subseteq r.x.w.db

\* A call whose effect on its object and on the database is sound preserves the
\* invariant for every object.
LEMMA ApplyPreserves ==
  ASSUME ExecInv, NEW t \in Tx, NEW r, NEW eff \in SUBSET Effect,
         eff \cap UNION {tried[u] : u \in Tx} = {},
         ObjectSound(t, r),
         Idle(t, r, eff) \/ WorkSound(t, r, eff),
         Apply(t, r, eff)
  PROVE  ExecInv'
<1>1. /\ w' = r.x.w
      /\ obj' = [obj EXCEPT ![t] = r.x.o]
      /\ tried' = [tried EXCEPT ![t] = tried[t] \cup eff]
      /\ done' = [done EXCEPT ![t] = DoneAfter(t, r, eff)]
  BY DEF Apply, DoneAfter
<1>2. /\ w \in WorldType /\ obj \in [Tx -> ObjType]
      /\ tried \in [Tx -> SUBSET Effect] /\ done \in [Tx -> SUBSET Effect]
      /\ \A u \in Tx : obj[u].reg <=> w.trans = u
  BY DEF ExecInv, TypeOK
<1>3. /\ \A u \in Tx : u # t => /\ obj'[u] = obj[u] /\ tried'[u] = tried[u]
                                /\ done'[u] = done[u]
      /\ obj'[t] = r.x.o /\ tried'[t] = tried[t] \cup eff
      /\ done'[t] = DoneAfter(t, r, eff)
  BY <1>1, <1>2
<1>4. NoTrans \notin Tx
  BY ConstantsAssumption
<1>5. TypeOK'
  <2>1. w' \in WorldType
    BY <1>1 DEF ObjectSound, Plain
  <2>2. obj' \in [Tx -> ObjType] /\ tried' \in [Tx -> SUBSET Effect]
    BY <1>1, <1>2 DEF ObjectSound
  <2>3. done' \in [Tx -> SUBSET Effect]
    BY <1>1, <1>2 DEF DoneAfter
  <2>4. \A u \in Tx : obj'[u].reg <=> w'.trans = u
    BY <1>1, <1>2, <1>3, <1>4 DEF ObjectSound
  <2> QED BY <2>1, <2>2, <2>3, <2>4 DEF TypeOK
<1>6. Plain(w)'
  BY <1>1 DEF ObjectSound, Plain, WorldType
<1>7. ObjectsQuiet'
  BY <1>3 DEF ObjectSound, ExecInv, ObjectsQuiet
<1>8. CASE Idle(t, r, eff)
  <2>1. w' = w /\ obj'[t].st = obj[t].st /\ done'[t] = done[t]
    BY <1>1, <1>3, <1>8 DEF Idle, DoneAfter
  <2>2. \A u \in Tx : obj'[u].st = obj[u].st /\ done'[u] = done[u]
    BY <1>3, <2>1
  <2>3. BlockMatches'
    BY <2>1, <2>2 DEF ExecInv, BlockMatches, Bracketed
  <2>4. Bookkeeping'
    BY <1>2, <1>3, <2>1, <2>2 DEF ExecInv, Bookkeeping, ObjectSound
  <2>5. eff \cap w.db = {}
    BY DEF ExecInv, Bookkeeping
  <2>6. NoHalfWork' /\ OutcomeTruthful' /\ NontransactionImmediate'
    BY <1>3, <2>1, <2>2, <2>5
    DEF ExecInv, NoHalfWork, OutcomeTruthful, NontransactionImmediate, Bracketed
  <2> QED BY <1>5, <1>6, <1>7, <2>3, <2>4, <2>6 DEF ExecInv
<1>9. CASE WorkSound(t, r, eff)
  <2>1. \A u \in Tx : u # t => obj[u].st # "active"
    BY <1>2, <1>4, <1>9 DEF WorkSound, ExecInv, ObjectsQuiet
  <2>2. BlockMatches'
    BY <1>1, <1>3, <1>9, <2>1 DEF WorkSound, BlockMatches, Bracketed
  <2>3. Bookkeeping'
    <3>1. \A u \in Tx : done'[u] \subseteq tried'[u]
      BY <1>3 DEF DoneAfter, ExecInv, Bookkeeping
    <3>2. \A u \in Tx : obj'[u].st = "absent" => tried'[u] = {}
      BY <1>3 DEF ObjectSound, ExecInv, Bookkeeping
    <3>3. \A u, v \in Tx : u # v => tried'[u] \cap tried'[v] = {}
      BY <1>3 DEF ExecInv, Bookkeeping
    <3>4. w'.db \subseteq UNION {tried'[u] : u \in Tx}
      BY <1>1, <1>3, <1>9 DEF WorkSound, ExecInv, Bookkeeping
    <3> QED BY <3>1, <3>2, <3>3, <3>4 DEF Bookkeeping
  <2>4. \A u \in Tx : u # t => tried[u] \cap w'.db = tried[u] \cap w.db
    BY <1>1, <1>9 DEF WorkSound, ExecInv, Bookkeeping
  <2>5. w.db \subseteq w'.db
    BY <1>1, <1>9 DEF WorkSound
  <2>6. NoHalfWork'
    BY <1>1, <1>3, <1>9, <2>4, <2>5 DEF WorkSound, ExecInv, NoHalfWork, Bracketed
  <2>7. OutcomeTruthful'
    BY <1>1, <1>3, <1>9, <2>4, <2>5
    DEF WorkSound, ExecInv, OutcomeTruthful, Bracketed
  <2>8. NontransactionImmediate'
    BY <1>1, <1>3, <1>9, <2>5
    DEF WorkSound, ExecInv, NontransactionImmediate, Bracketed
  <2> QED BY <1>5, <1>6, <1>7, <2>2, <2>3, <2>6, <2>7, <2>8 DEF ExecInv
<1> QED BY <1>8, <1>9

----------------------------------------------------------------------------
(* The same calls as steps of AtomicCommit.                                *)

\* What AtomicCommit's client knows of a transaction with this m_Status.
Told(s) == IF s \in {"committed", "aborted", "in_doubt"} THEN s ELSE "open"

AtomicStep == [Atomic!Next]_<<AtomicStatus, AtomicWork, AtomicDb>>

\* What a call on t may do to the outcome of a transaction<>: it leaves the
\* outcome and the database alone and may add one statement's work, or it is the
\* one that answers, and the work follows the answer as a whole.
AtomicSound(t, r, eff) ==
  Bracketed(t) =>
    \/ /\ r.x.o.st = obj[t].st \/ (obj[t].st = "absent" /\ r.x.o.st = "active")
       /\ r.x.w.db = w.db
       /\ \/ DoneAfter(t, r, eff) = done[t]
          \/ /\ obj[t].st = "active"
             /\ \E e \in Effect : DoneAfter(t, r, eff) = done[t] \cup {e}
    \/ /\ obj[t].st = "active" /\ DoneAfter(t, r, eff) = done[t]
       /\ \/ r.x.o.st = "committed" /\ r.x.w.db = w.db \cup done[t]
          \/ r.x.o.st = "aborted" /\ r.x.w.db = w.db
          \/ r.x.o.st = "in_doubt" /\ r.x.w.db \in {w.db, w.db \cup done[t]}

\* Such a call is a step of AtomicCommit, or changes nothing AtomicCommit sees.
LEMMA ApplyRefines ==
  ASSUME ExecInv, NEW t \in Tx, NEW r, NEW eff \in SUBSET Effect,
         eff \cap UNION {tried[u] : u \in Tx} = {},
         \/ Idle(t, r, eff)
         \/ WorkSound(t, r, eff) /\ AtomicSound(t, r, eff),
         Apply(t, r, eff)
  PROVE  AtomicStep
<1>1. /\ w' = r.x.w
      /\ obj' = [obj EXCEPT ![t] = r.x.o]
      /\ tried' = [tried EXCEPT ![t] = tried[t] \cup eff]
      /\ done' = [done EXCEPT ![t] = DoneAfter(t, r, eff)]
  BY DEF Apply, DoneAfter
<1>2. /\ obj \in [Tx -> ObjType]
      /\ tried \in [Tx -> SUBSET Effect] /\ done \in [Tx -> SUBSET Effect]
  BY DEF ExecInv, TypeOK
<1>3. /\ \A u \in Tx : u # t => /\ obj'[u] = obj[u] /\ tried'[u] = tried[u]
                                /\ done'[u] = done[u]
      /\ obj'[t] = r.x.o /\ tried'[t] = tried[t] \cup eff
      /\ done'[t] = DoneAfter(t, r, eff)
  BY <1>1, <1>2
<1>4. eff \cap w.db = {} /\ done[t] \subseteq tried[t]
  BY DEF ExecInv, Bookkeeping
<1>5. BracketedTx \subseteq Tx /\ (t \in BracketedTx <=> Bracketed(t))
  BY DEF BracketedTx
<1>6. ASSUME r.x.w.db = w.db
      PROVE  AtomicDb' = AtomicDb
  <2>1. AtomicDb' = {e \in w.db : \E u \in BracketedTx : e \in tried'[u]}
    BY <1>1, <1>6 DEF AtomicDb, BracketedTx, Bracketed
  <2>2. ASSUME NEW e \in w.db
        PROVE  \A u \in BracketedTx : e \in tried'[u] <=> e \in tried[u]
    BY <1>3, <1>4, <1>5
  <2> QED BY <2>1, <2>2 DEF AtomicDb
<1>7. ASSUME Told(r.x.o.st) = Told(obj[t].st) \/ ~Bracketed(t)
      PROVE  AtomicStatus' = AtomicStatus
  <2>1. AtomicStatus' = [u \in BracketedTx |-> Told(obj'[u].st)]
    BY DEF AtomicStatus, BracketedTx, Bracketed, Told
  <2>2. AtomicStatus = [u \in BracketedTx |-> Told(obj[u].st)]
    BY DEF AtomicStatus, Told
  <2>3. \A u \in BracketedTx : Told(obj'[u].st) = Told(obj[u].st)
    BY <1>3, <1>5, <1>7
  <2> QED BY <2>1, <2>2, <2>3
<1>8. ASSUME DoneAfter(t, r, eff) = done[t] \/ ~Bracketed(t)
      PROVE  AtomicWork' = AtomicWork
  <2>1. AtomicWork' = [u \in BracketedTx |-> done'[u]]
    BY DEF AtomicWork, BracketedTx, Bracketed
  <2>2. \A u \in BracketedTx : done'[u] = done[u]
    BY <1>3, <1>5, <1>8
  <2> QED BY <2>1, <2>2 DEF AtomicWork
<1>9. CASE Idle(t, r, eff)
  <2>1. r.x.w.db = w.db /\ r.x.o.st = obj[t].st /\ DoneAfter(t, r, eff) = done[t]
    BY <1>9 DEF Idle, DoneAfter
  <2> QED BY <1>6, <1>7, <1>8, <2>1 DEF AtomicStep
<1>10. CASE ~Bracketed(t) /\ WorkSound(t, r, eff)
  <2>1. \A u \in BracketedTx : u \in Tx /\ u # t /\ tried'[u] = tried[u]
    BY <1>3, <1>5, <1>10
  <2>2. AtomicDb' = {e \in r.x.w.db : \E u \in BracketedTx : e \in tried[u]}
    BY <1>1, <2>1 DEF AtomicDb, BracketedTx, Bracketed
  <2>3. ASSUME NEW e \in r.x.w.db, NEW u \in BracketedTx, e \in tried[u]
        PROVE  e \in w.db
    BY <1>10, <2>1, <2>3 DEF WorkSound, ExecInv, Bookkeeping
  <2>4. w.db \subseteq r.x.w.db
    BY <1>10 DEF WorkSound
  <2>5. AtomicDb' = AtomicDb
    BY <2>2, <2>3, <2>4 DEF AtomicDb
  <2> QED BY <1>7, <1>8, <1>10, <2>5 DEF AtomicStep
<1>11. CASE Bracketed(t) /\ AtomicSound(t, r, eff)
  <2>t. t \in BracketedTx
    BY <1>5, <1>11
  <2>s. /\ AtomicStatus[t] = Told(obj[t].st) /\ AtomicWork[t] = done[t]
        /\ DOMAIN AtomicStatus = BracketedTx /\ DOMAIN AtomicWork = BracketedTx
    BY <2>t DEF AtomicStatus, AtomicWork, Told
  <2>1. CASE /\ Told(r.x.o.st) = Told(obj[t].st) /\ r.x.w.db = w.db
             /\ DoneAfter(t, r, eff) = done[t]
    BY <1>6, <1>7, <1>8, <2>1 DEF AtomicStep
  <2>2. CASE /\ r.x.o.st = "active" /\ obj[t].st = "active" /\ r.x.w.db = w.db
             /\ \E e \in Effect : DoneAfter(t, r, eff) = done[t] \cup {e}
    <3>1. PICK e \in Effect : DoneAfter(t, r, eff) = done[t] \cup {e}
      BY <2>2
    <3>2. AtomicWork' = [AtomicWork EXCEPT ![t] = AtomicWork[t] \cup {e}]
      <4>1. AtomicWork' = [u \in BracketedTx |-> done'[u]]
        BY DEF AtomicWork, BracketedTx, Bracketed
      <4> QED BY <1>3, <1>5, <2>t, <2>s, <3>1, <4>1 DEF AtomicWork
    <3>3. AtomicStatus[t] = "open"
      BY <2>2, <2>s DEF Told
    <3>4. Atomic!Execute(t, e)
      BY <1>6, <1>7, <2>2, <3>2, <3>3 DEF Atomic!Execute
    <3> QED BY <2>t, <3>4 DEF AtomicStep, Atomic!Next
  <2>3. CASE /\ obj[t].st = "active" /\ DoneAfter(t, r, eff) = done[t]
             /\ r.x.o.st \in {"committed", "aborted", "in_doubt"}
             /\ \/ r.x.w.db = w.db /\ r.x.o.st # "committed"
                \/ r.x.w.db = w.db \cup done[t] /\ r.x.o.st # "aborted"
    <3>1. AtomicStatus[t] = "open" /\ Told(r.x.o.st) = r.x.o.st
      BY <2>3, <2>s DEF Told
    <3>2. AtomicStatus' = [AtomicStatus EXCEPT ![t] = r.x.o.st]
      <4>1. AtomicStatus' = [u \in BracketedTx |-> Told(obj'[u].st)]
        BY DEF AtomicStatus, BracketedTx, Bracketed, Told
      <4>2. AtomicStatus = [u \in BracketedTx |-> Told(obj[u].st)]
        BY DEF AtomicStatus, Told
      <4> QED BY <1>3, <1>5, <2>t, <3>1, <4>1, <4>2
    <3>3. Atomic!Answer(t, r.x.o.st)
      BY <1>8, <2>3, <3>1, <3>2 DEF Atomic!Answer
    <3>4. CASE r.x.w.db = w.db /\ r.x.o.st # "committed"
      <4>1. AtomicDb' = AtomicDb
        BY <1>6, <3>4
      <4>2. Atomic!Abort(t) \/ Atomic!InDoubt(t)
        BY <2>3, <3>3, <3>4, <4>1 DEF Atomic!Abort, Atomic!InDoubt
      <4> QED BY <2>t, <4>2 DEF AtomicStep, Atomic!Next
    <3>5. CASE r.x.w.db = w.db \cup done[t] /\ r.x.o.st # "aborted"
      <4>1. AtomicDb' = AtomicDb \cup AtomicWork[t]
        <5>1. AtomicDb' = {e \in w.db \cup done[t] :
                             \E u \in BracketedTx : e \in tried'[u]}
          BY <1>1, <3>5 DEF AtomicDb, BracketedTx, Bracketed
        <5>2. ASSUME NEW e \in w.db
              PROVE  \A u \in BracketedTx : e \in tried'[u] <=> e \in tried[u]
          BY <1>3, <1>4, <1>5
        <5>3. \A e \in done[t] : e \in tried'[t]
          BY <1>3, <1>4
        <5> QED BY <2>t, <2>s, <5>1, <5>2, <5>3 DEF AtomicDb
      <4>2. Atomic!Commit(t) \/ Atomic!InDoubt(t)
        BY <2>3, <3>3, <3>5, <4>1 DEF Atomic!Commit, Atomic!InDoubt
      <4> QED BY <2>t, <4>2 DEF AtomicStep, Atomic!Next
    <3> QED BY <2>3, <3>4, <3>5
  <2>4. Told("absent") = Told("active")
    BY DEF Told
  <2> QED BY <1>11, <2>1, <2>2, <2>3, <2>4 DEF AtomicSound
<1> QED BY <1>9, <1>10, <1>11

\* A call on the connection, or the network, moves w to v.
ConnectionSound(v) ==
  /\ Plain(v) /\ v.trans = w.trans /\ v.db = w.db
  /\ w.tx = "idle" => v.tx = "idle"
  /\ w.trans # NoTrans /\ w.handle # "none" => v.handle # "none"
  /\ v.alive /\ w.trans # NoTrans => w.alive /\ v.tx = w.tx /\ v.work = w.work

\* So does a call on the connection that leaves block and database alone.
LEMMA ConnectionPreserves ==
  ASSUME ExecInv, NEW v, ConnectionSound(v), OnConnection(v)
  PROVE  ExecInv' /\ AtomicStep
<1>1. w' = v /\ obj' = obj /\ tried' = tried /\ done' = done
  BY DEF OnConnection
<1>2. NoTrans \notin Tx
  BY ConstantsAssumption
<1>3. TypeOK'
  BY <1>1 DEF ConnectionSound, Plain, ExecInv, TypeOK
<1>4. Plain(w)'
  BY <1>1 DEF ConnectionSound, Plain, WorldType
<1>5. BlockMatches'
  <2>1. \A t \in Tx : obj[t].st = "active" => w.trans = t
    BY DEF ExecInv, ObjectsQuiet, TypeOK
  <2> QED BY <1>1, <1>2, <2>1 DEF ConnectionSound, ExecInv, BlockMatches, Bracketed
<1>6. ObjectsQuiet' /\ Bookkeeping'
  BY <1>1 DEF ConnectionSound, ExecInv, ObjectsQuiet, Bookkeeping
<1>7. NoHalfWork' /\ OutcomeTruthful' /\ NontransactionImmediate'
  BY <1>1 DEF ConnectionSound, ExecInv, NoHalfWork, OutcomeTruthful,
              NontransactionImmediate, Bracketed
<1>8. ExecInv'
  BY <1>3, <1>4, <1>5, <1>6, <1>7 DEF ExecInv
<1>9. AtomicStatus' = AtomicStatus /\ AtomicWork' = AtomicWork /\ AtomicDb' = AtomicDb
  BY <1>1 DEF ConnectionSound, AtomicStatus, AtomicWork, AtomicDb, BracketedTx, Bracketed
<1> QED BY <1>8, <1>9 DEF AtomicStep

----------------------------------------------------------------------------
(* The object's operations in that invariant.                              *)

\* The object t as a call finds it.
LEMMA ThisFacts ==
  ASSUME ExecInv, NEW t \in Tx
  PROVE  /\ This(t).w = w /\ This(t).o = obj[t]
         /\ This(t) = [w |-> w, o |-> obj[t]]
         /\ Plain(w) /\ obj[t] \in ObjType /\ ~obj[t].focus /\ ~obj[t].perr
         /\ obj[t].st # "nascent" /\ (obj[t].live => obj[t].st # "absent")
         /\ obj[t].reg <=> w.trans = t
         /\ obj[t].st = "active" => obj[t].reg
         /\ obj[t].reg => \A u \in Tx : obj[u].st = "active" => u = t
         /\ obj[t].reg /\ (Bracketed(t) => obj[t].st # "active") => w.tx = "idle"
         /\ Bracketed(t) /\ obj[t].st = "active" =>
              /\ w.handle # "none"
              /\ w.alive => w.tx = "open" /\ w.work = done[t]
         /\ tried[t] \in SUBSET Effect /\ done[t] \in SUBSET Effect
         /\ done[t] \subseteq tried[t]
BY DEF ExecInv, This, ObjectsQuiet, TypeOK, BlockMatches, Bookkeeping

\* x is an object and its connection with no pending error.
Clean(x) ==
  /\ x = [w |-> x.w, o |-> x.o]
  /\ Plain(x.w) /\ x.o \in ObjType /\ ~x.o.perr /\ ~x.o.focus

\* transaction_base::DirectExec without a pending error is the connection's
\* Exec().
LEMMA DirectExecFacts ==
  ASSUME NEW x, Clean(x), NEW op, NEW eff, NEW r \in DirectExec(x, op, eff)
  PROVE  \E o \in Exec(x.w, op, eff) :
           r = [x |-> [w |-> o.w, o |-> x.o], exc |-> o.exc]
<1>1. CheckPendingError(x).exc = "ok"
  BY DEF CheckPendingError, Ret, Clean
<1>2. r \in Lift(x, Exec(x.w, op, eff))
  BY <1>1 DEF DirectExec
<1>3. PICK o \in Exec(x.w, op, eff) : r = Ret([x EXCEPT !.w = o.w], o.exc)
  BY <1>2 DEF Lift
<1>4. [x EXCEPT !.w = o.w] = [w |-> o.w, o |-> x.o]
  BY DEF Clean
<1> QED BY <1>3, <1>4 DEF Ret

\* transaction_base::End unregisters the object and changes nothing else of the
\* connection.
LEMMA UnregisterFacts ==
  ASSUME NEW x, Clean(x)
  PROVE  /\ Clean(Unregister(x))
         /\ Unregister(x).o.st = x.o.st /\ ~Unregister(x).o.reg
         /\ Unregister(x).w.trans = IF x.o.reg THEN NoTrans ELSE x.w.trans
         /\ Unregister(x).w.tx = x.w.tx /\ Unregister(x).w.db = x.w.db
         /\ ~x.o.reg => Unregister(x).w = x.w
<1> DEFINE v == IF x.o.reg THEN [x.w EXCEPT !.trans = NoTrans] ELSE x.w
           o == [x.o EXCEPT !.perr = FALSE, !.reg = FALSE]
<1>1. Unregister(x) = [w |-> v, o |-> o]
  BY DEF Unregister
<1>2. x.w \in WorldType /\ x.o \in ObjType
  BY DEF Clean, Plain
<1>3. /\ v \in WorldType /\ v.trans = (IF x.o.reg THEN NoTrans ELSE x.w.trans)
      /\ v.tx = x.w.tx /\ v.db = x.w.db /\ v.handle = x.w.handle
      /\ v.alive = x.w.alive /\ v.copy = x.w.copy /\ v.avoid = x.w.avoid
      /\ v.work = x.w.work
  BY <1>2 DEF WorldType
<1>4. o \in ObjType /\ o.st = x.o.st /\ ~o.reg /\ ~o.perr /\ o.focus = x.o.focus
  BY <1>2 DEF ObjType
<1>5. ~x.o.reg => v = x.w
  OBVIOUS
<1>6. Plain(v)
  BY <1>3 DEF Clean, Plain
<1> HIDE DEF v, o
<1> QED BY <1>1, <1>3, <1>4, <1>5, <1>6 DEF Clean

\* An assignment to m_Status changes nothing else.
LEMMA SetStatusFacts ==
  ASSUME NEW x, Clean(x), NEW st \in Status
  PROVE  /\ Clean(SetStatus(x, st)) /\ SetStatus(x, st).w = x.w
         /\ SetStatus(x, st).o.st = st /\ SetStatus(x, st).o.reg = x.o.reg
<1>1. x.o \in ObjType /\ [x.o EXCEPT !.st = st] \in ObjType
  BY DEF Clean, ObjType
<1> QED BY <1>1 DEF SetStatus, Clean, ObjType

\* Setting a final status and End(), as commit() and abort() do.
LEMMA CloseFacts ==
  ASSUME NEW x, Clean(x), NEW st \in Status, NEW r, NEW exc,
         r = Ret(Unregister(SetStatus(x, st)), exc)
  PROVE  /\ Clean(r.x) /\ r.x.o.st = st /\ ~r.x.o.reg
         /\ r.x.w.trans = IF x.o.reg THEN NoTrans ELSE x.w.trans
         /\ r.x.w.tx = x.w.tx /\ r.x.w.db = x.w.db
<1> DEFINE y == SetStatus(x, st)
<1>1. Clean(y) /\ y.w = x.w /\ y.o.st = st /\ y.o.reg = x.o.reg
  BY SetStatusFacts
<1>2. r.x = Unregister(y)
  BY DEF Ret
<1> HIDE DEF y
<1> QED BY <1>1, <1>2, UnregisterFacts

\* Setting a status without End(), as a commit() that fails does.
LEMMA MarkFacts ==
  ASSUME NEW x, Clean(x), NEW st \in Status, NEW r, NEW exc,
         r = Ret(SetStatus(x, st), exc)
  PROVE  Clean(r.x) /\ r.x.o.st = st /\ r.x.o.reg = x.o.reg /\ r.x.w = x.w /\ r.exc = exc
<1>1. r.x = SetStatus(x, st) /\ r.exc = exc
  BY DEF Ret
<1>2. /\ Clean(SetStatus(x, st)) /\ SetStatus(x, st).w = x.w
      /\ SetStatus(x, st).o.st = st /\ SetStatus(x, st).o.reg = x.o.reg
  BY SetStatusFacts
<1> QED BY <1>1, <1>2

\* A commit, an exec or an abort that does not involve the backend.
LEMMA NoEffect ==
  ASSUME ExecInv, NEW t \in Tx, Exists(t), NEW eff, NEW exc, exc # "ok" \/ eff = {}
  PROVE  ObjectSound(t, Ret(This(t), exc)) /\ Idle(t, Ret(This(t), exc), eff)
BY ThisFacts DEF ObjectSound, Idle, Ret, Exists

\* abort() of an active object: the block is gone whether or not the ROLLBACK
\* could be sent.
LEMMA AbortActiveFacts ==
  ASSUME NEW x, Clean(x), NEW t \in Tx, x.o.st = "active",
         ~Bracketed(t) => x.w.tx = "idle", NEW r \in abort(x, Kind[t])
  PROVE  /\ Clean(r.x) /\ r.x.o.st = "aborted" /\ ~r.x.o.reg /\ r.exc = "ok"
         /\ r.x.w.tx = "idle" /\ r.x.w.db = x.w.db
         /\ r.x.w.trans = IF x.o.reg THEN NoTrans ELSE x.w.trans
<1>1. PICK p \in do_abort(x, Kind[t]) :
        r = Ret(Unregister(SetStatus(p.x, "aborted")), "ok")
  BY DEF abort
<1>2. Clean(p.x) /\ p.x.o = x.o /\ p.x.w.tx = "idle" /\ p.x.w.db = x.w.db
      /\ p.x.w.trans = x.w.trans
  <2>1. CASE Bracketed(t)
    <3>1. p \in DirectExec(x, "ROLLBACK", {})
      BY <1>1, <2>1 DEF do_abort, Bracketed
    <3>2. PICK o \in Exec(x.w, "ROLLBACK", {}) :
            p = [x |-> [w |-> o.w, o |-> x.o], exc |-> o.exc]
      BY <3>1, DirectExecFacts
    <3>3. Plain(o.w) /\ Frame(x.w, o.w) /\ o.w.db = x.w.db /\ o.w.tx = "idle"
      BY <3>2, RollbackFacts DEF Clean
    <3> QED BY <3>2, <3>3 DEF Clean, Frame
  <2>2. CASE ~Bracketed(t)
    <3>1. p = Ret(x, "ok")
      BY <1>1, <2>2, ConstantsAssumption DEF do_abort, Bracketed
    <3> QED BY <2>2, <3>1 DEF Ret
  <2> QED BY <2>1, <2>2
<1> QED BY <1>1, <1>2, CloseFacts DEF Ret, Status

----------------------------------------------------------------------------
(* Each action preserves the invariant.                                    *)

\* Effects that nobody has tried are new to everybody.
LEMMA UnusedFacts ==
  ASSUME ExecInv, NEW e \in Unused
  PROVE  /\ {e} \in SUBSET Effect
         /\ {e} \cap UNION {tried[u] : u \in Tx} = {}
         /\ {e} \cap w.db = {}
BY DEF Unused, ExecInv, Bookkeeping

\* transaction_base::exec() preserves the invariant: the block gains the
\* statement, or the transaction is aborted on the spot.
LEMMA ExecStep ==
  ASSUME ExecInv, NEW t \in Tx, TxExec(t)
  PROVE  ExecInv' /\ AtomicStep
<1>1. Exists(t)
  BY DEF TxExec
<1>2. PICK e \in Unused : \E r \in exec(This(t), Kind[t], "SQL", {e}) :
                             Apply(t, r, {e})
  BY DEF TxExec
<1>3. PICK r \in exec(This(t), Kind[t], "SQL", {e}) : Apply(t, r, {e})
  BY <1>2
<1>4. CheckPendingError(This(t)).exc = "ok"
  BY ThisFacts DEF CheckPendingError, Ret
<1>5. CASE obj[t].st # "active"
  <2>1. r = Ret(This(t), "usage")
    BY <1>3, <1>4, <1>5, ThisFacts DEF exec
  <2> QED BY <1>1, <1>3, <2>1, NoEffect, UnusedFacts, ApplyPreserves, ApplyRefines
<1>6. CASE obj[t].st = "active"
  <2>1. r \in do_exec(This(t), Kind[t], "SQL", {e})
    BY <1>3, <1>4, <1>6, ThisFacts DEF exec
  <2>2. Clean(This(t)) /\ obj[t].reg /\ w.trans = t
    BY <1>6, ThisFacts DEF Clean
  <2>3. CASE ~Bracketed(t)
    <3>1. r \in DirectExec(This(t), "SQL", {e})
      BY <2>1, <2>3, ConstantsAssumption DEF do_exec, Bracketed
    <3>2. PICK o \in Exec(w, "SQL", {e}) :
            r = [x |-> [w |-> o.w, o |-> obj[t]], exc |-> o.exc]
      BY <2>2, <3>1, DirectExecFacts, ThisFacts
    <3>3. w.tx = "idle"
      BY <2>2, <2>3, ThisFacts
    <3>4. /\ Plain(o.w) /\ Frame(w, o.w) /\ o.w.tx = "idle"
          /\ o.exc = "ok" => o.w.db = w.db \cup {e}
          /\ o.w.db = w.db \/ o.w.db = w.db \cup {e}
      BY <3>2, <3>3, SingleStatementFacts, ThisFacts, UnusedFacts
    <3>5. ObjectSound(t, r)
      BY <1>1, <1>6, <2>2, <3>2, <3>4, ThisFacts DEF ObjectSound, Frame
    <3>6. done[t] \subseteq w.db
      BY <2>3 DEF ExecInv, NontransactionImmediate
    <3>7. WorkSound(t, r, {e})
      BY <2>2, <2>3, <3>2, <3>4, <3>6 DEF WorkSound, DoneAfter
    <3>a. AtomicSound(t, r, {e})
      BY <2>3 DEF AtomicSound
    <3> QED BY <1>3, <3>5, <3>7, <3>a, UnusedFacts, ApplyPreserves, ApplyRefines
  <2>4. CASE Bracketed(t)
    <3>1. PICK p \in DirectExec(This(t), "SQL", {e}) :
            r \in (IF p.exc = "ok" THEN {p}
                   ELSE {Ret(a.x, p.exc) : a \in abort(p.x, Kind[t])})
      BY <2>1, <2>4 DEF do_exec, Bracketed
    <3>2. PICK o \in Exec(w, "SQL", {e}) :
            p = [x |-> [w |-> o.w, o |-> obj[t]], exc |-> o.exc]
      BY <2>2, <3>1, DirectExecFacts, ThisFacts
    <3>3. w.handle # "none" /\ (w.alive => w.tx = "open" /\ w.work = done[t])
      BY <1>6, <2>4, ThisFacts
    <3>4. /\ Plain(o.w) /\ Frame(w, o.w) /\ o.w.db = w.db
          /\ o.exc = "ok" => /\ w.alive /\ o.w.alive /\ o.w.tx = "open"
                             /\ o.w.work = w.work \cup {e}
      BY <3>2, <3>3, BlockStatementFacts, ThisFacts, UnusedFacts
    <3>5. (tried[t] \cup {e}) \cap w.db = {}
      BY <1>6, <2>4, UnusedFacts DEF ExecInv, OutcomeTruthful
    <3>6. CASE o.exc = "ok"
      <4>1. r = p
        BY <3>1, <3>2, <3>6
      <4>2. ObjectSound(t, r)
        BY <1>1, <1>6, <2>2, <3>2, <3>4, <4>1, ThisFacts DEF ObjectSound, Frame
      <4>3. WorkSound(t, r, {e})
        BY <1>6, <2>2, <2>4, <3>2, <3>3, <3>4, <3>5, <3>6, <4>1
        DEF WorkSound, DoneAfter, Plain
      <4>a. AtomicSound(t, r, {e})
        <5>1. e \in Effect
          BY DEF Unused
        <5> QED BY <1>6, <3>2, <3>4, <3>6, <4>1, <5>1 DEF AtomicSound, DoneAfter
      <4> QED BY <1>3, <4>2, <4>3, <4>a, UnusedFacts, ApplyPreserves, ApplyRefines
    <3>7. CASE o.exc # "ok"
      <4>1. PICK a \in abort(p.x, Kind[t]) : r = Ret(a.x, p.exc)
        BY <3>1, <3>2, <3>7
      <4>2. Clean(p.x) /\ p.x.o = obj[t] /\ p.x.w = o.w
        BY <3>2, <3>4, ThisFacts DEF Clean
      <4>3. /\ Clean(a.x) /\ a.x.o.st = "aborted" /\ ~a.x.o.reg
            /\ a.x.w.tx = "idle" /\ a.x.w.db = w.db /\ a.x.w.trans = NoTrans
        BY <1>6, <2>2, <2>4, <3>4, <4>1, <4>2, AbortActiveFacts
      <4>4. ObjectSound(t, r)
        BY <2>2, <4>1, <4>3, ConstantsAssumption DEF ObjectSound, Clean, Ret
      <4>5. WorkSound(t, r, {e})
        BY <2>2, <2>4, <3>2, <3>5, <3>7, <4>1, <4>3 DEF WorkSound, DoneAfter, Ret
      <4>a. AtomicSound(t, r, {e})
        BY <1>6, <3>2, <3>7, <4>1, <4>3 DEF AtomicSound, DoneAfter, Ret
      <4> QED BY <1>3, <4>4, <4>5, <4>a, UnusedFacts, ApplyPreserves, ApplyRefines
    <3> QED BY <3>6, <3>7
  <2> QED BY <2>3, <2>4
<1> QED BY <1>5, <1>6

\* transaction_base::commit() preserves it: committed, aborted or in doubt, each
\* with the database in the state it stands for.
LEMMA CommitStep ==
  ASSUME ExecInv, NEW t \in Tx, TxCommit(t)
  PROVE  ExecInv' /\ AtomicStep
<1>1. Exists(t)
  BY DEF TxCommit
<1>2. PICK r \in commit(This(t), Kind[t]) : Apply(t, r, {})
  BY DEF TxCommit
<1>3. CheckPendingError(This(t)).exc = "ok"
  BY ThisFacts DEF CheckPendingError, Ret
<1>4. CASE \E exc : r = Ret(This(t), exc)
  BY <1>1, <1>2, <1>4, NoEffect, ApplyPreserves, ApplyRefines
<1>5. CASE ~\E exc : r = Ret(This(t), exc)
  <2>1. obj[t].st = "active" /\ is_open(w)
    <3>1. obj[t].st \in Status \ {"nascent", "absent"}
      BY <1>1, ThisFacts DEF ObjType, Exists
    <3> QED BY <1>2, <1>3, <1>5, <3>1, ThisFacts DEF commit, Status
  <2>2. PICK p \in do_commit(This(t), Kind[t]) :
          r = CASE p.exc = "ok" -> Ret(Unregister(SetStatus(p.x, "committed")), "ok")
                [] p.exc = "in_doubt" -> Ret(SetStatus(p.x, "in_doubt"), p.exc)
                [] OTHER -> Ret(SetStatus(p.x, "aborted"), p.exc)
    BY <1>2, <1>3, <2>1, ThisFacts DEF commit
  <2>3. Clean(This(t)) /\ obj[t].reg /\ w.trans = t
    BY <2>1, ThisFacts DEF Clean
  <2>s. {"committed", "in_doubt", "aborted"} \subseteq Status
    BY DEF Status
  <2>4. CASE ~Bracketed(t)
    <3>1. p = Ret(This(t), "ok")
      BY <2>2, <2>4, ConstantsAssumption DEF do_commit, Bracketed
    <3>2. r = Ret(Unregister(SetStatus(This(t), "committed")), "ok")
      BY <2>2, <3>1 DEF Ret
    <3>3. /\ Clean(r.x) /\ r.x.o.st = "committed" /\ ~r.x.o.reg
          /\ r.x.w.trans = NoTrans /\ r.x.w.tx = w.tx /\ r.x.w.db = w.db
      BY <2>3, <2>s, <3>2, CloseFacts, ThisFacts
    <3>4. ObjectSound(t, r)
      BY <2>3, <3>3, ConstantsAssumption DEF ObjectSound, Clean
    <3>5. WorkSound(t, r, {})
      BY <2>3, <2>4, <3>3, ThisFacts
      DEF WorkSound, DoneAfter, ExecInv, NontransactionImmediate
    <3>a. AtomicSound(t, r, {})
      BY <2>4 DEF AtomicSound
    <3> QED BY <1>2, <3>4, <3>5, <3>a, ApplyPreserves, ApplyRefines
  <2>5. CASE Bracketed(t)
    <3>1. PICK q \in DirectExec(This(t), "COMMIT", {}) :
            p = IF q.exc # "ok" /\ ~is_open(q.x.w) THEN Ret(q.x, "in_doubt") ELSE q
      BY <2>2, <2>5 DEF do_commit, Bracketed
    <3>2. PICK o \in Exec(w, "COMMIT", {}) :
            q = [x |-> [w |-> o.w, o |-> obj[t]], exc |-> o.exc]
      BY <2>3, <3>1, DirectExecFacts, ThisFacts
    <3>3. /\ Plain(o.w) /\ Frame(w, o.w) /\ o.w.tx = "idle"
          /\ o.exc = "ok" => w.alive /\ o.w.db = w.db \cup w.work
          /\ o.exc # "ok" => \/ o.w.db = w.db
                             \/ w.alive /\ o.w.db = w.db \cup w.work /\ ~is_open(o.w)
      BY <2>1, <3>2, CommitFacts, ThisFacts
    <3>4. /\ w.alive => w.work = done[t]
          /\ tried[t] \cap w.db = {} /\ done[t] \subseteq tried[t]
      BY <2>1, <2>5, ThisFacts DEF ExecInv, OutcomeTruthful
    <3>5. Clean(q.x) /\ q.x.o = obj[t] /\ q.x.w = o.w /\ q.x.w.trans = t
      BY <2>3, <3>2, <3>3, ThisFacts DEF Clean, Frame
    <3>6. CASE o.exc = "ok"
      <4>1. r = Ret(Unregister(SetStatus(q.x, "committed")), "ok")
        BY <2>2, <3>1, <3>2, <3>6
      <4>2. /\ Clean(r.x) /\ r.x.o.st = "committed" /\ ~r.x.o.reg
            /\ r.x.w.trans = NoTrans /\ r.x.w.tx = "idle" /\ r.x.w.db = o.w.db
        BY <2>3, <2>s, <3>3, <3>5, <4>1, CloseFacts
      <4>3. ObjectSound(t, r)
        BY <2>3, <4>2, ConstantsAssumption DEF ObjectSound, Clean
      <4>4. WorkSound(t, r, {})
        BY <2>3, <2>5, <3>3, <3>4, <3>6, <4>2 DEF WorkSound, DoneAfter
      <4>a. AtomicSound(t, r, {})
        BY <2>1, <3>3, <3>4, <3>6, <4>2 DEF AtomicSound, DoneAfter
      <4> QED BY <1>2, <4>3, <4>4, <4>a, ApplyPreserves, ApplyRefines
    <3>7. CASE o.exc # "ok" /\ ~is_open(o.w)
      <4>1. r = Ret(SetStatus(q.x, "in_doubt"), "in_doubt")
        BY <2>2, <3>1, <3>2, <3>7 DEF Ret
      <4>2. /\ Clean(r.x) /\ r.x.o.st = "in_doubt" /\ r.x.o.reg
            /\ r.x.w = o.w /\ r.exc # "ok"
        <5>1. "in_doubt" \in Status
          BY <2>s
        <5>2. /\ Clean(r.x) /\ r.x.o.st = "in_doubt" /\ r.x.o.reg = q.x.o.reg
              /\ r.x.w = q.x.w /\ r.exc = "in_doubt"
          BY <3>5, <4>1, <5>1, MarkFacts
        <5> QED BY <2>3, <3>5, <5>2
      <4>3. ObjectSound(t, r)
        BY <2>3, <3>5, <4>2 DEF ObjectSound, Clean
      <4>4. WorkSound(t, r, {})
        BY <2>3, <2>5, <3>3, <3>4, <3>7, <4>2 DEF WorkSound, DoneAfter
      <4>a. AtomicSound(t, r, {})
        BY <2>1, <3>3, <3>4, <3>7, <4>2 DEF AtomicSound, DoneAfter
      <4> QED BY <1>2, <4>3, <4>4, <4>a, ApplyPreserves, ApplyRefines
    <3>8. CASE o.exc # "ok" /\ is_open(o.w)
      <4>1. \E exc : r = Ret(SetStatus(q.x, "in_doubt"), exc) \/ r = Ret(SetStatus(q.x, "aborted"), exc)
        <5>1. p = q
          BY <3>1, <3>2, <3>8
        <5>2. r = IF q.exc = "in_doubt" THEN Ret(SetStatus(q.x, "in_doubt"), q.exc)
                  ELSE Ret(SetStatus(q.x, "aborted"), q.exc)
          BY <2>2, <3>2, <3>8, <5>1
        <5> QED BY <5>2
      <4>2. /\ Clean(r.x) /\ r.x.o.st \in {"in_doubt", "aborted"} /\ r.x.o.reg
            /\ r.x.w = o.w
        <5>1. "in_doubt" \in Status /\ "aborted" \in Status
          BY <2>s
        <5>2. PICK st \in {"in_doubt", "aborted"}, exc \in {r.exc} : r = Ret(SetStatus(q.x, st), exc)
          BY <4>1 DEF Ret
        <5>3. /\ Clean(r.x) /\ r.x.o.st = st /\ r.x.o.reg = q.x.o.reg
              /\ r.x.w = q.x.w
          BY <3>5, <5>1, <5>2, MarkFacts
        <5> QED BY <2>3, <3>5, <5>2, <5>3
      <4>3. ObjectSound(t, r)
        BY <2>3, <3>5, <4>2 DEF ObjectSound, Clean
      <4>4. WorkSound(t, r, {})
        BY <2>3, <2>5, <3>3, <3>4, <3>8, <4>2 DEF WorkSound, DoneAfter
      <4>a. AtomicSound(t, r, {})
        BY <2>1, <3>3, <3>4, <3>8, <4>2 DEF AtomicSound, DoneAfter
      <4> QED BY <1>2, <4>3, <4>4, <4>a, ApplyPreserves, ApplyRefines
    <3> QED BY <3>6, <3>7, <3>8
  <2> QED BY <2>4, <2>5
<1> QED BY <1>4, <1>5

\* transaction_base::abort() preserves it.
LEMMA AbortStep ==
  ASSUME ExecInv, NEW t \in Tx, TxAbort(t)
  PROVE  ExecInv' /\ AtomicStep
<1>1. Exists(t)
  BY DEF TxAbort
<1>2. PICK r \in abort(This(t), Kind[t]) : Apply(t, r, {})
  BY DEF TxAbort
<1>3. CASE obj[t].st # "active"
  <2>1. \E exc : r = Ret(This(t), exc)
    <3>1. obj[t].st # "nascent"
      BY ThisFacts
    <3> QED BY <1>2, <1>3, <3>1, ThisFacts DEF abort
  <2> QED BY <1>1, <1>2, <2>1, NoEffect, ApplyPreserves, ApplyRefines
<1>4. CASE obj[t].st = "active"
  <2>1. Clean(This(t)) /\ obj[t].reg /\ w.trans = t
    BY <1>4, ThisFacts DEF Clean
  <2>2. ~Bracketed(t) => w.tx = "idle"
    BY <2>1, ThisFacts
  <2>3. /\ Clean(r.x) /\ r.x.o.st = "aborted" /\ ~r.x.o.reg /\ r.x.w.tx = "idle"
        /\ r.x.w.db = w.db /\ r.x.w.trans = NoTrans
    BY <1>2, <1>4, <2>1, <2>2, AbortActiveFacts, ThisFacts
  <2>4. ObjectSound(t, r)
    BY <2>1, <2>3, ConstantsAssumption DEF ObjectSound, Clean
  <2>5. WorkSound(t, r, {})
    BY <1>4, <2>1, <2>3
    DEF WorkSound, DoneAfter, ExecInv, OutcomeTruthful, NontransactionImmediate
  <2>a. AtomicSound(t, r, {})
    BY <1>4, <2>3 DEF AtomicSound, DoneAfter
  <2> QED BY <1>2, <2>4, <2>5, <2>a, ApplyPreserves, ApplyRefines
<1> QED BY <1>3, <1>4

\* The destructor preserves it, for active and for closed objects.
LEMMA DestroyStep ==
  ASSUME ExecInv, NEW t \in Tx, TxDestroy(t)
  PROVE  ExecInv' /\ AtomicStep
<1>1. Exists(t)
  BY DEF TxDestroy
<1>2. PICK e \in End(This(t), Kind[t]) :
        Apply(t, Ret([w |-> e.x.w,
                      o |-> [e.x.o EXCEPT !.live = FALSE, !.focus = FALSE]], "ok"), {})
  BY DEF TxDestroy
<1> DEFINE r == Ret([w |-> e.x.w,
                     o |-> [e.x.o EXCEPT !.live = FALSE, !.focus = FALSE]], "ok")
<1>3. r.x.w = e.x.w /\ r.exc = "ok"
  BY DEF Ret
<1>4. e.x.o \in ObjType =>
        /\ r.x.o \in ObjType /\ ~r.x.o.focus /\ r.x.o.perr = e.x.o.perr
        /\ r.x.o.st = e.x.o.st /\ r.x.o.reg = e.x.o.reg
  BY DEF Ret, ObjType
<1> HIDE DEF r
<1>5. Clean(This(t))
  BY ThisFacts DEF Clean
<1> DEFINE y == Unregister(This(t))
<1>6. /\ Clean(y) /\ y.o.st = obj[t].st /\ ~y.o.reg /\ y.w.tx = w.tx
      /\ y.w.db = w.db /\ y.w.trans = IF obj[t].reg THEN NoTrans ELSE w.trans
      /\ ~obj[t].reg => y.w = w
  BY <1>5, UnregisterFacts, ThisFacts
<1>7. CASE obj[t].st = "active"
  <2>1. obj[t].reg /\ w.trans = t
    BY <1>7, ThisFacts
  <2>2. e \in abort(y, Kind[t])
    BY <1>2, <1>7, ThisFacts DEF End
  <2>3. ~Bracketed(t) => y.w.tx = "idle"
    BY <1>6, <2>1, ThisFacts
  <2> HIDE DEF y
  <2>4. /\ Clean(e.x) /\ e.x.o.st = "aborted" /\ ~e.x.o.reg
        /\ e.x.w.tx = "idle" /\ e.x.w.db = w.db /\ e.x.w.trans = NoTrans
    BY <1>6, <1>7, <2>1, <2>2, <2>3, AbortActiveFacts
  <2>5. ObjectSound(t, r)
    BY <1>3, <1>4, <2>1, <2>4, ConstantsAssumption DEF ObjectSound, Clean
  <2>6. WorkSound(t, r, {})
    BY <1>3, <1>4, <1>7, <2>1, <2>4
    DEF WorkSound, DoneAfter, Clean, ExecInv, OutcomeTruthful, NontransactionImmediate
  <2>a. AtomicSound(t, r, {})
    BY <1>3, <1>4, <1>7, <2>4 DEF AtomicSound, DoneAfter, Clean
  <2> QED BY <1>2, <2>5, <2>6, <2>a, ApplyPreserves, ApplyRefines DEF r
<1>8. CASE obj[t].st # "active"
  <2>1. e = Ret(y, "ok")
    BY <1>2, <1>8, ThisFacts DEF End
  <2>2. e.x = y
    BY <2>1 DEF Ret
  <2> HIDE DEF y
  <2>3. obj[t].st \notin {"nascent", "absent"} /\ (obj[t].reg <=> w.trans = t)
    BY <1>1, ThisFacts DEF Exists
  <2>4. ObjectSound(t, r)
    BY <1>3, <1>4, <1>6, <1>8, <2>2, <2>3, ConstantsAssumption DEF ObjectSound, Clean
  <2>5. CASE ~obj[t].reg
    <3>1. Idle(t, r, {})
      BY <1>3, <1>4, <1>6, <2>2, <2>5 DEF Idle, Clean
    <3> QED BY <1>2, <2>4, <3>1, ApplyPreserves, ApplyRefines DEF r
  <2>6. CASE obj[t].reg
    <3>1. w.tx = "idle" /\ w.trans = t
      BY <1>8, <2>6, ThisFacts
    <3>2. WorkSound(t, r, {})
      BY <1>3, <1>4, <1>6, <1>8, <2>2, <3>1
      DEF WorkSound, DoneAfter, Clean, ExecInv, OutcomeTruthful, NoHalfWork,
          NontransactionImmediate
    <3>a. AtomicSound(t, r, {})
      BY <1>3, <1>4, <1>6, <2>2 DEF AtomicSound, DoneAfter, Clean
    <3> QED BY <1>2, <2>4, <3>2, <3>a, ApplyPreserves, ApplyRefines DEF r
  <2> QED BY <2>5, <2>6
<1> QED BY <1>7, <1>8

\* The constructor and Begin() preserve it, also when BEGIN fails.
LEMMA ConstructStep ==
  ASSUME ExecInv, NEW t \in Tx, Construct(t)
  PROVE  ExecInv' /\ AtomicStep
<1> DEFINE x == [w |-> [w EXCEPT !.trans = t],
                 o |-> [Absent EXCEPT !.live = TRUE, !.st = "nascent", !.reg = TRUE]]
<1>1. obj[t].st = "absent" /\ w.trans = NoTrans
  BY DEF Construct
<1>2. PICK n \in Lift(x, get_notifs(x.w)) :
        \E r \in (IF n.exc = "ok" THEN do_begin(n.x, Kind[t]) ELSE {n}) :
          IF r.exc = "ok" THEN Apply(t, Ret(SetStatus(r.x, "active"), "ok"), {})
          ELSE w' = Unregister(r.x).w /\ UNCHANGED <<obj, tried, done>>
  BY DEF Construct
<1>3. PICK r \in (IF n.exc = "ok" THEN do_begin(n.x, Kind[t]) ELSE {n}) :
        IF r.exc = "ok" THEN Apply(t, Ret(SetStatus(r.x, "active"), "ok"), {})
        ELSE w' = Unregister(r.x).w /\ UNCHANGED <<obj, tried, done>>
  BY <1>2
<1>4. Plain(w) /\ w.tx = "idle" /\ tried[t] = {} /\ done[t] = {}
  <2>1. \A u \in Tx : obj[u].st # "active"
    BY <1>1, ConstantsAssumption DEF ExecInv, ObjectsQuiet, TypeOK
  <2> QED BY <1>1, <2>1 DEF ExecInv, BlockMatches, Bookkeeping
<1>5. /\ Clean(x) /\ x.w.trans = t /\ x.w.tx = "idle" /\ x.w.db = w.db
      /\ x.o.reg /\ x.o = [live |-> TRUE, st |-> "nascent", reg |-> TRUE,
                           focus |-> FALSE, perr |-> FALSE]
  <2>1. x.o = [live |-> TRUE, st |-> "nascent", reg |-> TRUE,
               focus |-> FALSE, perr |-> FALSE]
    BY DEF Absent
  <2>2. x.o \in ObjType
    BY <2>1 DEF ObjType, Status
  <2>3. /\ x.w \in WorldType /\ x.w.trans = t /\ x.w.tx = w.tx /\ x.w.db = w.db
        /\ x.w.handle = w.handle /\ x.w.alive = w.alive /\ x.w.copy = w.copy
        /\ x.w.avoid = w.avoid /\ x.w.work = w.work
    BY <1>4 DEF Plain, WorldType
  <2>4. x = [w |-> x.w, o |-> x.o]
    OBVIOUS
  <2> HIDE DEF x
  <2>5. Plain(x.w)
    BY <1>4, <2>3 DEF Plain
  <2> QED BY <1>4, <2>1, <2>2, <2>3, <2>4, <2>5 DEF Clean
<1>w. x = [w |-> x.w, o |-> x.o]
  OBVIOUS
<1> HIDE DEF x
<1>6. PICK g \in get_notifs(x.w) : n = [x |-> [w |-> g.w, o |-> x.o], exc |-> g.exc]
  <2>1. PICK g \in get_notifs(x.w) : n = Ret([x EXCEPT !.w = g.w], g.exc)
    BY <1>2 DEF Lift
  <2>2. [x EXCEPT !.w = g.w] = [w |-> g.w, o |-> x.o]
    BY <1>w
  <2> QED BY <2>1, <2>2 DEF Ret
<1>7. /\ Plain(g.w) /\ Frame(x.w, g.w) /\ g.w.db = w.db /\ g.w.tx = "idle"
  <2>1. /\ Plain(g.w) /\ Frame(x.w, g.w) /\ g.w.db = x.w.db
        /\ g.exc = "ok" => g.w = x.w
        /\ g.exc # "ok" => g.w.handle = "bad"
    BY <1>5, <1>6, GetNotifsFacts DEF Clean
  <2> QED BY <1>5, <2>1 DEF Plain
<1>8. Clean(n.x) /\ n.x.w = g.w /\ n.x.o = x.o /\ n.exc = g.exc
  BY <1>5, <1>6, <1>7 DEF Clean
<1>9. /\ Clean(r.x) /\ r.x.o = x.o /\ r.x.w.trans = t /\ r.x.w.db = w.db
      /\ r.exc # "ok" \/ ~Bracketed(t) => r.x.w.tx = "idle"
      /\ r.exc = "ok" /\ Bracketed(t) =>
           r.x.w.alive /\ r.x.w.tx = "open" /\ r.x.w.work = {}
  <2>1. CASE n.exc # "ok"
    BY <1>3, <1>5, <1>7, <1>8, <2>1 DEF Frame
  <2>2. CASE n.exc = "ok" /\ ~Bracketed(t)
    <3>1. r = Ret(n.x, "ok")
      BY <1>3, <2>2, ConstantsAssumption DEF do_begin, Bracketed
    <3> QED BY <1>5, <1>7, <1>8, <2>2, <3>1 DEF Frame, Ret
  <2>3. CASE n.exc = "ok" /\ Bracketed(t)
    <3>1. r \in DirectExec(n.x, "BEGIN", {})
      BY <1>3, <2>3 DEF do_begin, Bracketed
    <3>2. PICK o \in Exec(g.w, "BEGIN", {}) :
            r = [x |-> [w |-> o.w, o |-> x.o], exc |-> o.exc]
      BY <1>8, <3>1, DirectExecFacts
    <3>3. /\ Plain(o.w) /\ Frame(g.w, o.w) /\ o.w.db = w.db
          /\ o.exc = "ok" => o.w.alive /\ o.w.tx = "open" /\ o.w.work = {}
          /\ o.exc # "ok" => o.w.tx = "idle"
      BY <1>7, <3>2, BeginFacts
    <3> QED BY <1>5, <1>7, <2>3, <3>2, <3>3 DEF Frame, Clean
  <2> QED BY <2>1, <2>2, <2>3
<1>10. CASE r.exc = "ok"
  <2> DEFINE s == Ret(SetStatus(r.x, "active"), "ok")
  <2>1. Apply(t, s, {})
    BY <1>3, <1>10
  <2>2. /\ Clean(s.x) /\ s.x.w = r.x.w /\ s.x.o.st = "active" /\ s.x.o.reg
        /\ s.exc = "ok"
    BY <1>5, <1>9, SetStatusFacts DEF Ret, Status
  <2> HIDE DEF s
  <2>3. ObjectSound(t, s)
    BY <1>1, <1>9, <2>2 DEF ObjectSound, Clean
  <2>4. WorkSound(t, s, {})
    BY <1>1, <1>4, <1>9, <1>10, <2>2 DEF WorkSound, DoneAfter, Plain, Clean
  <2>a. AtomicSound(t, s, {})
    BY <1>1, <1>9, <2>2 DEF AtomicSound, DoneAfter
  <2> QED BY <2>1, <2>3, <2>4, <2>a, ApplyPreserves, ApplyRefines
<1>11. CASE r.exc # "ok"
  <2>1. /\ Clean(Unregister(r.x)) /\ Unregister(r.x).w.trans = NoTrans
        /\ Unregister(r.x).w.tx = "idle" /\ Unregister(r.x).w.db = w.db
    BY <1>5, <1>9, <1>11, UnregisterFacts
  <2>2. OnConnection(Unregister(r.x).w)
    BY <1>3, <1>11 DEF OnConnection
  <2>3. ConnectionSound(Unregister(r.x).w)
    BY <1>1, <2>1 DEF ConnectionSound, Clean
  <2> QED BY <2>2, <2>3, ConnectionPreserves
<1> QED BY <1>10, <1>11

\* The calls on the connection, and a link that is lost, preserve it.
LEMMA ConnectionStep ==
  ASSUME ExecInv, Calls \subseteq ExecOnlyCalls,
         \/ ConnGetNotifs \/ ConnDeactivate \/ ConnActivate \/ ConnDisconnect
         \/ ConnInhibit \/ ConnSimulateFailure \/ LinkLost
  PROVE  ExecInv' /\ AtomicStep
<1>p. Plain(w)
  BY DEF ExecInv
<1>1. CASE ConnGetNotifs
  <2>1. PICK r \in get_notifs(w) : OnConnection(r.w)
    BY <1>1 DEF ConnGetNotifs
  <2>2. /\ Plain(r.w) /\ Frame(w, r.w) /\ r.w.db = w.db
        /\ r.exc = "ok" => r.w = w
        /\ r.exc # "ok" => r.w.handle = "bad"
    BY <1>p, <2>1, GetNotifsFacts
  <2>3. ConnectionSound(r.w)
    BY <1>p, <2>2 DEF ConnectionSound, Frame, Plain
  <2> QED BY <2>1, <2>3, ConnectionPreserves
<1>2. CASE ConnDeactivate
  <2>1. PICK r \in deactivate(w) : OnConnection(r.w)
    BY <1>2 DEF ConnDeactivate
  <2>2. r.w = w \/ (w.trans = NoTrans /\ r.w = disconnect(w))
    BY <2>1 DEF deactivate, Out
  <2>3. ConnectionSound(r.w)
    BY <1>p, <2>2, GoneFacts DEF ConnectionSound, Frame
  <2> QED BY <2>1, <2>3, ConnectionPreserves
<1>3. CASE ConnInhibit
  <2>1. PICK b \in BOOLEAN : OnConnection([w EXCEPT !.inhibit = b])
    BY <1>3 DEF ConnInhibit, inhibit_reactivation
  <2>2. ConnectionSound([w EXCEPT !.inhibit = b])
    BY <1>p, <2>1 DEF ConnectionSound, Plain, WorldType
  <2> QED BY <2>1, <2>2, ConnectionPreserves
<1>4. CASE LinkLost
  <2>1. OnConnection(Gone(w))
    BY <1>4 DEF LinkLost
  <2>2. ConnectionSound(Gone(w))
    BY <1>p, <1>4 DEF LinkLost, ConnectionSound, Gone, Plain, WorldType, TxState
  <2> QED BY <2>1, <2>2, ConnectionPreserves
<1>5. ~ConnActivate /\ ~ConnDisconnect /\ ~ConnSimulateFailure
  BY DEF ExecOnlyCalls, ConnActivate, ConnDisconnect, ConnSimulateFailure
<1> QED BY <1>1, <1>2, <1>3, <1>4, <1>5

----------------------------------------------------------------------------
\* The invariant holds on a new connection.
LEMMA ExecInvInit ==
  ASSUME Init
  PROVE  ExecInv
<1>1. TypeOK
  BY ConstantsAssumption
  DEF Init, TypeOK, WorldType, ObjType, Absent, Handle, TxState, Status
<1>2. Plain(w)
  BY <1>1 DEF Init, TypeOK, Plain
<1>3. ObjectsQuiet /\ BlockMatches /\ Bookkeeping
  BY DEF Init, ObjectsQuiet, BlockMatches, Bookkeeping, Absent
<1>4. NoHalfWork /\ OutcomeTruthful /\ NontransactionImmediate
  BY DEF Init, NoHalfWork, OutcomeTruthful, NontransactionImmediate
<1> QED BY <1>1, <1>2, <1>3, <1>4 DEF ExecInv

\* Every step of an exec-only client preserves the invariant, and is a step of
\* AtomicCommit or none.
LEMMA ExecInvNext ==
  ASSUME ExecInv, Calls \subseteq ExecOnlyCalls, [Next]_vars
  PROVE  ExecInv' /\ AtomicStep
<1>1. CASE UNCHANGED vars
  <2>1. ExecInv'
    BY <1>1 DEF vars, ExecInv, TypeOK, Plain, WorldType, ObjectsQuiet, BlockMatches,
      Bookkeeping, NoHalfWork, OutcomeTruthful, NontransactionImmediate, Bracketed
  <2>2. AtomicStatus' = AtomicStatus /\ AtomicWork' = AtomicWork /\ AtomicDb' = AtomicDb
    BY <1>1 DEF vars, AtomicStatus, AtomicWork, AtomicDb, BracketedTx, Bracketed
  <2> QED BY <2>1, <2>2 DEF AtomicStep
<1>2. ASSUME NEW t \in Tx, Construct(t) PROVE ExecInv' /\ AtomicStep
  BY <1>2, ConstructStep
<1>3. ASSUME NEW t \in Tx, TxExec(t) PROVE ExecInv' /\ AtomicStep
  BY <1>3, ExecStep
<1>4. ASSUME NEW t \in Tx, TxCommit(t) PROVE ExecInv' /\ AtomicStep
  BY <1>4, CommitStep
<1>5. ASSUME NEW t \in Tx, TxAbort(t) PROVE ExecInv' /\ AtomicStep
  BY <1>5, AbortStep
<1>6. ASSUME NEW t \in Tx, TxDestroy(t) PROVE ExecInv' /\ AtomicStep
  BY <1>6, DestroyStep
<1>7. ASSUME NEW t \in Tx
      PROVE  /\ ~TxPrepared(t) /\ ~TxParameterized(t) /\ ~TxDirect(t) /\ ~TxHold(t)
             /\ ~StreamOpen(t) /\ ~StreamWrite(t)
             /\ \A d \in BOOLEAN : ~StreamClose(t, d)
  <2>1. ~obj[t].focus
    BY DEF ExecInv, ObjectsQuiet
  <2> QED BY <2>1 DEF ExecOnlyCalls, TxPrepared, TxParameterized, TxDirect, TxHold,
                      StreamOpen, StreamWrite, StreamClose
<1> QED BY <1>1, <1>2, <1>3, <1>4, <1>5, <1>6, <1>7, ConnectionStep DEF Next

\* The invariant holds throughout every behaviour of an exec-only client.
LEMMA ExecInvAlways ==
  ASSUME Calls \subseteq ExecOnlyCalls
  PROVE  Spec => []ExecInv
<1>1. Init => ExecInv
  BY ExecInvInit
<1>2. ExecInv /\ [Next]_vars => ExecInv'
  BY ExecInvNext
<1> QED BY <1>1, <1>2, PTL DEF Spec

\* transaction_base, dbtransaction: the state of a client that executes through
\* exec() is well typed and m_Registered agrees with the connection's m_Trans.
THEOREM ExecOnlyTypeOK ==
  ASSUME Calls \subseteq ExecOnlyCalls
  PROVE  Spec => []TypeOK
<1>1. ExecInv => TypeOK
  BY DEF ExecInv
<1> QED BY <1>1, ExecInvAlways, PTL

\* dbtransaction: however often and whenever the connection breaks, the work of a
\* transaction whose statements go through exec() is in the database as a whole
\* or not at all.
THEOREM ExecOnlyNoHalfWork ==
  ASSUME Calls \subseteq ExecOnlyCalls
  PROVE  Spec => []NoHalfWork
<1>1. ExecInv => NoHalfWork
  BY DEF ExecInv
<1> QED BY <1>1, ExecInvAlways, PTL

\* transaction_base::commit and abort: for such a client every outcome but "in
\* doubt" is the truth about the database.
THEOREM ExecOnlyOutcomeTruthful ==
  ASSUME Calls \subseteq ExecOnlyCalls
  PROVE  Spec => []OutcomeTruthful
<1>1. ExecInv => OutcomeTruthful
  BY DEF ExecInv
<1> QED BY <1>1, ExecInvAlways, PTL

\* transaction_base::End: for such a client a closed transaction never leaves a
\* block behind in the session.
THEOREM ExecOnlySessionClean ==
  ASSUME Calls \subseteq ExecOnlyCalls
  PROVE  Spec => []SessionClean
<1>1. ExecInv => SessionClean
  BY DEF ExecInv, SessionClean, BlockMatches, Plain
<1> QED BY <1>1, ExecInvAlways, PTL

\* nontransaction: for such a client what it executed is durable.
THEOREM ExecOnlyNontransaction ==
  ASSUME Calls \subseteq ExecOnlyCalls
  PROVE  Spec => []NontransactionImmediate
<1>1. ExecInv => NontransactionImmediate
  BY DEF ExecInv
<1> QED BY <1>1, ExecInvAlways, PTL

\* transaction<> implements AtomicCommit: for a client that executes through
\* exec(), every call, reconnection and loss of the link is one atomic step of the
\* abstract transaction, or invisible to it.
THEOREM ExecOnlyImplementsAtomicCommit ==
  ASSUME Calls \subseteq ExecOnlyCalls
  PROVE  Spec => ImplementsAtomicCommit
<1>1. Init => Atomic!Init
  <2>1. ASSUME Init PROVE AtomicStatus = [t \in BracketedTx |-> "open"]
    BY <2>1 DEF Init, AtomicStatus, BracketedTx, Absent
  <2>2. ASSUME Init PROVE AtomicWork = [t \in BracketedTx |-> {}] /\ AtomicDb = {}
    BY <2>2 DEF Init, AtomicWork, AtomicDb, BracketedTx
  <2> QED BY <2>1, <2>2 DEF Atomic!Init
<1>2. ExecInv /\ [Next]_vars => [Atomic!Next]_<<AtomicStatus, AtomicWork, AtomicDb>>
  BY ExecInvNext DEF AtomicStep
<1> QED BY <1>1, <1>2, ExecInvAlways, PTL DEF Spec, ImplementsAtomicCommit, Atomic!Spec
=============================================================================
