---------------------- MODULE RobustTransactionProofs ----------------------
(***************************************************************************)
(* Proofs about RobustTransaction, for every set of transactions, every    *)
(* number of rounds, with and without reconnection, and whether or not the *)
(* query for the record can be parsed.  First what one exchange with the   *)
(* backend can leave of the server (DirectExecFacts), then that every step *)
(* preserves the inductive invariant RobustInv, then the theorems.         *)
(***************************************************************************)
EXTENDS RobustTransaction, TLAPS

----------------------------------------------------------------------------
(* The server's records, field by field.                                   *)

\* The end of a block changes nothing outside it.
LEMMA NoBlockFacts ==
  ASSUME NEW x \in ServerType
  PROVE  /\ NoBlock(x) \in ServerType
         /\ NoBlock(x).block = "none" /\ NoBlock(x).own = "none"
         /\ NoBlock(x).old = x.old /\ NoBlock(x).rec = x.rec /\ NoBlock(x).dur = x.dur
BY DEF NoBlock, ServerType, Own

\* An error dooms the block and changes nothing else.
LEMMA DoomedFacts ==
  ASSUME NEW x \in ServerType
  PROVE  /\ Doomed(x) \in ServerType
         /\ Doomed(x).block = IF x.block = "none" THEN "none" ELSE "doomed"
         /\ Doomed(x).old = x.old /\ Doomed(x).rec = x.rec /\ Doomed(x).dur = x.dur
BY DEF Doomed, ServerType

\* COMMIT makes the transaction and what its block did to the record durable.
LEMMA CommitFacts ==
  ASSUME NEW x \in ServerType, NEW t \in Tx, NEW own \in Own
  PROVE  /\ Commit(x, t, own) \in ServerType
         /\ Commit(x, t, own).old = x.old
         /\ Commit(x, t, own).dur = x.dur \cup {t}
         /\ own = "del" => Commit(x, t, own).rec = x.rec \ {t}
         /\ Commit(x, t, own).block = x.block /\ Commit(x, t, own).own = x.own
<1> DEFINE rec == IF own = "ins" THEN x.rec \cup {t}
                  ELSE IF own = "del" THEN x.rec \ {t} ELSE x.rec
           dur == x.dur \cup {t}
<1>1. rec \in SUBSET Tx /\ dur \in SUBSET Tx /\ (own = "del" => rec = x.rec \ {t})
  BY DEF ServerType
<1> DEFINE y == [x EXCEPT !.rec = rec]
<1>2. Commit(x, t, own) = [y EXCEPT !.dur = dur]
  BY DEF Commit, ServerType
<1> HIDE DEF rec, dur
<1>3. /\ y \in ServerType /\ y.rec = rec /\ y.old = x.old /\ y.block = x.block
      /\ y.own = x.own
  BY <1>1 DEF ServerType
<1> HIDE DEF y
<1>4. /\ [y EXCEPT !.dur = dur] \in ServerType /\ [y EXCEPT !.dur = dur].dur = dur
      /\ [y EXCEPT !.dur = dur].rec = rec /\ [y EXCEPT !.dur = dur].old = x.old
      /\ [y EXCEPT !.dur = dur].block = x.block /\ [y EXCEPT !.dur = dur].own = x.own
  BY <1>1, <1>3 DEF ServerType
<1> QED BY <1>1, <1>2, <1>4 DEF dur

\* A cut link ends the block for the client; only t's old session is affected.
LEMMA CutFacts ==
  ASSUME NEW x \in ServerType, NEW t \in Tx, NEW phase \in Phase
  PROVE  /\ Cut(x, t, phase) \in ServerType
         /\ Cut(x, t, phase).block = "none" /\ Cut(x, t, phase).own = "none"
         /\ Cut(x, t, phase).rec = x.rec /\ Cut(x, t, phase).dur = x.dur
         /\ \A u \in Tx : u # t => Cut(x, t, phase).old[u] = x.old[u]
         /\ Cut(x, t, phase).old[t] = IF x.block = "open"
                                      THEN [phase |-> phase, own |-> x.own]
                                      ELSE x.old[t]
<1> DEFINE y == NoBlock(x)
           o == IF x.block = "open" THEN [phase |-> phase, own |-> x.own] ELSE x.old[t]
<1>1. /\ y \in ServerType /\ y.block = "none" /\ y.own = "none"
      /\ y.old = x.old /\ y.rec = x.rec /\ y.dur = x.dur
  BY NoBlockFacts
<1>2. Cut(x, t, phase) = [y EXCEPT !.old = [y.old EXCEPT ![t] = o]]
  BY <1>1 DEF Cut, ServerType
<1>3. o \in [phase : Phase, own : Own]
  BY DEF ServerType
<1> HIDE DEF y, o
<1>4. /\ [y.old EXCEPT ![t] = o] \in [Tx -> [phase : Phase, own : Own]]
      /\ [y.old EXCEPT ![t] = o][t] = o
      /\ \A u \in Tx : u # t => [y.old EXCEPT ![t] = o][u] = x.old[u]
  BY <1>1, <1>3 DEF ServerType
<1> DEFINE f == [y.old EXCEPT ![t] = o]
<1> HIDE DEF f
<1>5. /\ [y EXCEPT !.old = f].block = "none" /\ [y EXCEPT !.old = f].own = "none"
      /\ [y EXCEPT !.old = f].rec = x.rec /\ [y EXCEPT !.old = f].dur = x.dur
      /\ [y EXCEPT !.old = f].old = f
      /\ f \in [Tx -> [phase : Phase, own : Own]] => [y EXCEPT !.old = f] \in ServerType
  BY <1>1 DEF ServerType
<1> QED BY <1>2, <1>4, <1>5 DEF f, o
----------------------------------------------------------------------------
(* One exchange with the backend.                                          *)

\* A statement that is answered with exc: ok only outside a doomed block.
Ran(x, y, exc) ==
  /\ exc = "ok" => x.block # "doomed" /\ y.block = x.block
  /\ exc # "ok" => y.block # "open" /\ (x.block = "none" => y.block = "none")

\* How op, answered with exc, changes the server from x to y for transaction t.
Outcome(x, y, t, op, exc) ==
  /\ op # "commit" => y.dur = x.dur
  /\ op \notin {"insert", "delete", "new_id", "commit"} => y.rec = x.rec
  /\ op = "begin" =>
       /\ exc = "ok" => x.block # "doomed" /\ y.block = "open"
       /\ exc # "ok" => y.block # "open"
  /\ op = "rollback" => y.block = "none"
  /\ op = "create" => y.block = x.block
  /\ op = "look" => y = x /\ exc = "ok"
  /\ op = "mistake" => exc # "ok"
  /\ op \in {"log", "insert", "delete", "new_id", "select", "mistake"} => Ran(x, y, exc)
  /\ op = "select" /\ exc = "ok" => y.own = x.own
  /\ op = "insert" =>
       y.rec = IF exc = "ok" /\ x.block = "none" THEN x.rec \cup {t} ELSE x.rec
  /\ op = "delete" =>
       /\ y.rec \subseteq x.rec /\ x.rec \subseteq y.rec \cup {t}
       /\ exc = "ok" /\ x.block = "open" => y.own = "del"
       /\ x.block # "none" => y.rec = x.rec
  /\ op = "new_id" => y.rec \subseteq x.rec /\ x.rec \subseteq y.rec \cup {t}
  /\ op = "commit" =>
       /\ y.block = "none"
       /\ x.block = "open" /\ x.own = "del" =>
            IF exc = "ok" THEN y.dur = x.dur \cup {t} /\ y.rec = x.rec \ {t}
                          ELSE y.dur = x.dur /\ y.rec = x.rec

Ops == {"begin", "rollback", "create", "log", "insert", "delete", "new_id", "look",
        "mistake", "commit", "select"}

\* Executed() in terms of Ran.
LEMMA ExecutedFacts ==
  ASSUME NEW x \in ServerType, NEW y \in ServerType, y.block = x.block, y.old = x.old,
         NEW a \in Executed(x, y) \cup OnTable(x, y)
  PROVE  /\ a.v \in ServerType /\ a.exc \in {"ok", "sql"} /\ a.v.old = x.old
         /\ Ran(x, a.v, a.exc)
         /\ a.exc = "ok" => a.v = y
         /\ a.exc # "ok" => a.v.rec = x.rec /\ a.v.dur = x.dur
<1>1. \/ x.block # "doomed" /\ a = Answer(y, "ok")
      \/ a = Answer(Doomed(x), "sql")
  BY DEF Executed, OnTable
<1>2. CASE x.block # "doomed" /\ a = Answer(y, "ok")
  BY <1>2 DEF Answer, Ran
<1>3. CASE a = Answer(Doomed(x), "sql")
  BY <1>3, DoomedFacts DEF Answer, Ran
<1> QED BY <1>1, <1>2, <1>3

\* The backend's answer to each command.
LEMMA AnswersFacts ==
  ASSUME NEW x \in ServerType, NEW t \in Tx, NEW op \in Ops,
         NEW a \in Answers(x, t, op)
  PROVE  /\ a.v \in ServerType /\ a.exc \in {"ok", "sql"} /\ a.v.old = x.old
         /\ Outcome(x, a.v, t, op, a.exc)
<1>1. CASE op = "begin"
  <2> DEFINE y == [x EXCEPT !.block = "open"]
  <2>1. \/ x.block = "doomed" /\ a = Answer(x, "sql")
        \/ x.block # "doomed" /\ a = Answer(y, "ok")
    BY <1>1 DEF Answers
  <2>2. /\ y \in ServerType /\ y.block = "open" /\ y.old = x.old /\ y.rec = x.rec
        /\ y.dur = x.dur
    BY DEF ServerType
  <2> HIDE DEF y
  <2> QED BY <1>1, <2>1, <2>2 DEF Answer, Outcome
<1>2. CASE op = "rollback"
  <2>1. a = Answer(NoBlock(x), "ok")
    BY <1>2 DEF Answers
  <2> QED BY <1>2, <2>1, NoBlockFacts DEF Answer, Outcome
<1>3. CASE op = "create"
  <2> DEFINE y == [x EXCEPT !.table = TRUE]
  <2>1. a = Answer(y, "ok") \/ a = Answer(x, "sql")
    BY <1>3 DEF Answers
  <2>2. /\ y \in ServerType /\ y.block = x.block /\ y.old = x.old /\ y.rec = x.rec
        /\ y.dur = x.dur
    BY DEF ServerType
  <2> HIDE DEF y
  <2> QED BY <1>3, <2>1, <2>2 DEF Answer, Outcome
<1>4. CASE op \in {"log", "select"}
  <2>1. a \in Executed(x, x) \cup OnTable(x, x)
    BY <1>4 DEF Answers
  <2>2. /\ a.v \in ServerType /\ a.exc \in {"ok", "sql"} /\ a.v.old = x.old
        /\ Ran(x, a.v, a.exc)
        /\ a.exc = "ok" => a.v = x
        /\ a.exc # "ok" => a.v.rec = x.rec /\ a.v.dur = x.dur
    BY <2>1, ExecutedFacts
  <2> QED BY <1>4, <2>2 DEF Outcome
<1>5. CASE op = "insert"
  <2> DEFINE y == InsertRecord(x, t)
  <2>1. a \in OnTable(x, y)
    BY <1>5 DEF Answers
  <2>2. /\ y \in ServerType /\ y.block = x.block /\ y.old = x.old /\ y.dur = x.dur
        /\ y.rec = IF x.block = "none" THEN x.rec \cup {t} ELSE x.rec
    BY DEF InsertRecord, ServerType, Own
  <2> HIDE DEF y
  <2>3. /\ a.v \in ServerType /\ a.exc \in {"ok", "sql"} /\ a.v.old = x.old
        /\ Ran(x, a.v, a.exc)
        /\ a.exc = "ok" => a.v = y
        /\ a.exc # "ok" => a.v.rec = x.rec /\ a.v.dur = x.dur
    BY <2>1, <2>2, ExecutedFacts
  <2> QED BY <1>5, <2>2, <2>3 DEF Outcome
<1>6. CASE op = "delete"
  <2> DEFINE y == DeleteRecord(x, t)
  <2>1. a \in OnTable(x, y)
    BY <1>6 DEF Answers
  <2>2. /\ y \in ServerType /\ y.block = x.block /\ y.old = x.old /\ y.dur = x.dur
        /\ y.rec = IF x.block = "none" THEN x.rec \ {t} ELSE x.rec
        /\ x.block = "open" => y.own = "del"
    BY DEF DeleteRecord, ServerType, Own
  <2> HIDE DEF y
  <2>3. /\ a.v \in ServerType /\ a.exc \in {"ok", "sql"} /\ a.v.old = x.old
        /\ Ran(x, a.v, a.exc)
        /\ a.exc = "ok" => a.v = y
        /\ a.exc # "ok" => a.v.rec = x.rec /\ a.v.dur = x.dur
    BY <2>1, <2>2, ExecutedFacts
  <2> QED BY <1>6, <2>2, <2>3 DEF Outcome
<1>7. CASE op = "new_id"
  <2> DEFINE y == [x EXCEPT !.rec = x.rec \ {t}]
  <2>1. a \in OnTable(x, y)
    BY <1>7 DEF Answers
  <2>2. /\ y \in ServerType /\ y.block = x.block /\ y.old = x.old /\ y.dur = x.dur
        /\ y.rec = x.rec \ {t}
    BY DEF ServerType
  <2> HIDE DEF y
  <2>3. /\ a.v \in ServerType /\ a.exc \in {"ok", "sql"} /\ a.v.old = x.old
        /\ Ran(x, a.v, a.exc)
        /\ a.exc = "ok" => a.v = y
        /\ a.exc # "ok" => a.v.rec = x.rec /\ a.v.dur = x.dur
    BY <2>1, <2>2, ExecutedFacts
  <2> QED BY <1>7, <2>2, <2>3 DEF Outcome
<1>8. CASE op = "look"
  <2>1. a = Answer(x, "ok")
    BY <1>8 DEF Answers
  <2> QED BY <1>8, <2>1 DEF Answer, Outcome
<1>9. CASE op = "mistake"
  <2>1. a = Answer(Doomed(x), "sql")
    BY <1>9 DEF Answers
  <2> QED BY <1>9, <2>1, DoomedFacts DEF Answer, Outcome, Ran
<1>10. CASE op = "commit"
  <2>1. \/ x.block = "open" /\ a = Answer(NoBlock(Commit(x, t, x.own)), "ok")
        \/ x.block # "open" /\ a = Answer(NoBlock(x), "ok")
        \/ a = Answer(NoBlock(x), "sql")
    BY <1>10 DEF Answers
  <2>2. CASE x.block = "open" /\ a = Answer(NoBlock(Commit(x, t, x.own)), "ok")
    <3>1. x.own \in Own
      BY DEF ServerType
    <3>2. /\ Commit(x, t, x.own) \in ServerType
          /\ Commit(x, t, x.own).old = x.old
          /\ Commit(x, t, x.own).dur = x.dur \cup {t}
          /\ x.own = "del" => Commit(x, t, x.own).rec = x.rec \ {t}
      BY <3>1, CommitFacts
    <3>3. /\ a.v = NoBlock(Commit(x, t, x.own)) /\ a.exc = "ok"
      BY <2>2 DEF Answer
    <3>4. /\ a.v \in ServerType /\ a.v.block = "none" /\ a.v.old = x.old
          /\ a.v.dur = x.dur \cup {t} /\ (x.own = "del" => a.v.rec = x.rec \ {t})
      BY <3>2, <3>3, NoBlockFacts
    <3> QED BY <1>10, <3>3, <3>4 DEF Outcome
  <2>3. CASE x.block # "open" /\ a = Answer(NoBlock(x), "ok")
    BY <1>10, <2>3, NoBlockFacts DEF Answer, Outcome
  <2>4. CASE a = Answer(NoBlock(x), "sql")
    BY <1>10, <2>4, NoBlockFacts DEF Answer, Outcome
  <2> QED BY <2>1, <2>2, <2>3, <2>4
<1> QED BY <1>1, <1>2, <1>3, <1>4, <1>5, <1>6, <1>7, <1>8, <1>9, <1>10 DEF Ops

\* An answer reached the client.
Answered(r, t, op) ==
  /\ r.exc \in {"ok", "sql"} /\ r.v.old = v.old
  /\ Outcome(v, r.v, t, op, r.exc)

\* The link was cut before or after the command was carried out, or (a COMMIT)
\* while it is.
Broken(r, t, op) ==
  /\ r.exc = "broken" /\ r.v.block = "none"
  /\ \A u \in Tx : u # t => r.v.old[u] = v.old[u]
  /\ \/ /\ r.v.rec = v.rec /\ r.v.dur = v.dur
        /\ \/ r.v.old[t] = v.old[t]
           \/ r.v.old[t].phase = "dying"
           \/ op = "commit" /\ v.block = "open" /\ r.v.old[t].own = v.own
     \/ /\ \E y \in ServerType, exc \in {"ok", "sql"} :
             /\ Outcome(v, y, t, op, exc)
             /\ r.v.rec = y.rec /\ r.v.dur = y.dur
        /\ r.v.old[t] = v.old[t] \/ r.v.old[t].phase = "dying"

\* dbtransaction's DirectExec: every exchange is answered or broken.
LEMMA DirectExecFacts ==
  ASSUME v \in ServerType, NEW t \in Tx, NEW op \in Ops, NEW r \in DirectExec(t, op)
  PROVE  /\ r.v \in ServerType /\ r.open \in BOOLEAN
         /\ Answered(r, t, op) \/ Broken(r, t, op)
<1>p. "dying" \in Phase /\ "committing" \in Phase
  BY DEF Phase
<1>1. \/ r = [open |-> FALSE, v |-> Cut(v, t, "dying"), exc |-> "broken"]
      \/ \E a \in Answers(v, t, op) : r = [open |-> TRUE, v |-> a.v, exc |-> a.exc]
      \/ \E a \in Answers(v, t, op) :
           r = [open |-> FALSE, v |-> Cut(a.v, t, "dying"), exc |-> "broken"]
      \/ /\ op = "commit"
         /\ r = [open |-> FALSE, v |-> Cut(v, t, "committing"), exc |-> "broken"]
  BY DEF DirectExec
<1>2. CASE r = [open |-> FALSE, v |-> Cut(v, t, "dying"), exc |-> "broken"]
  <2>1. /\ r.open = FALSE /\ r.v = Cut(v, t, "dying") /\ r.exc = "broken"
    BY <1>2
  <2>2. /\ r.v \in ServerType /\ r.v.block = "none"
        /\ r.v.rec = v.rec /\ r.v.dur = v.dur
        /\ \A u \in Tx : u # t => r.v.old[u] = v.old[u]
        /\ r.v.old[t] = IF v.block = "open"
                        THEN [phase |-> "dying", own |-> v.own] ELSE v.old[t]
    BY <1>p, <2>1, CutFacts
  <2>3. r.v.old[t] = v.old[t] \/ r.v.old[t].phase = "dying"
    BY <2>2
  <2> QED BY <2>1, <2>2, <2>3 DEF Broken
<1>3. CASE \E a \in Answers(v, t, op) : r = [open |-> TRUE, v |-> a.v, exc |-> a.exc]
  BY <1>3, AnswersFacts DEF Answered
<1>4. CASE \E a \in Answers(v, t, op) :
             r = [open |-> FALSE, v |-> Cut(a.v, t, "dying"), exc |-> "broken"]
  <2>1. PICK a \in Answers(v, t, op) :
               r.open = FALSE /\ r.v = Cut(a.v, t, "dying") /\ r.exc = "broken"
    BY <1>4
  <2>2. /\ a.v \in ServerType /\ a.exc \in {"ok", "sql"} /\ a.v.old = v.old
        /\ Outcome(v, a.v, t, op, a.exc)
    BY AnswersFacts
  <2>3. /\ r.v \in ServerType /\ r.v.block = "none"
        /\ r.v.rec = a.v.rec /\ r.v.dur = a.v.dur
        /\ \A u \in Tx : u # t => r.v.old[u] = v.old[u]
        /\ r.v.old[t] = IF a.v.block = "open"
                        THEN [phase |-> "dying", own |-> a.v.own] ELSE v.old[t]
    BY <1>p, <2>1, <2>2, CutFacts
  <2>4. r.v.old[t] = v.old[t] \/ r.v.old[t].phase = "dying"
    BY <2>3
  <2> QED BY <2>1, <2>2, <2>3, <2>4 DEF Broken
<1>5. CASE /\ op = "commit"
           /\ r = [open |-> FALSE, v |-> Cut(v, t, "committing"), exc |-> "broken"]
  <2>1. /\ r.open = FALSE /\ r.v = Cut(v, t, "committing") /\ r.exc = "broken"
    BY <1>5
  <2>2. /\ r.v \in ServerType /\ r.v.block = "none"
        /\ r.v.rec = v.rec /\ r.v.dur = v.dur
        /\ \A u \in Tx : u # t => r.v.old[u] = v.old[u]
        /\ r.v.old[t] = IF v.block = "open"
                        THEN [phase |-> "committing", own |-> v.own] ELSE v.old[t]
    BY <1>p, <2>1, CutFacts
  <2>3. r.v.old[t] = v.old[t] \/ (v.block = "open" /\ r.v.old[t].own = v.own)
    BY <2>2
  <2> QED BY <1>5, <2>1, <2>2, <2>3 DEF Broken
<1> QED BY <1>1, <1>2, <1>3, <1>4, <1>5

----------------------------------------------------------------------------
(* The inductive invariant.                                                *)

\* Where do_begin() is before it has a record, and in its catch block.
Early == {"log", "id", "insert"}
Fallback == {"rollback_begin", "create", "begin_again", "log_again", "id_again",
             "insert_again"}
Constructing == Early \cup Fallback \cup {"begin", "forget", "xid"}

\* Where do_commit() is once the link is lost, and after do_begin().
Resolving == {"hold", "find"}
Closing == {"rollback", "delete", "constraints", "commit"} \cup Resolving

\* The place of the call tells the status of its transaction.
Stages ==
  /\ at \in Constructing => st[cur] = "nascent"
  /\ at \in Closing => st[cur] = "active"
  /\ at \in Early \cup Fallback => ~visible[cur]

\* The place tells the state of the session's block: when a client may commit, the
\* block is open and has deleted the record.
Blocks ==
  /\ at \in {"client", "log", "rollback_begin"} /\ ~Active => v.block # "open"
  /\ at \in {"id", "insert", "create", "begin_again", "delete"} \cup Resolving =>
       v.block = "none"
  /\ at = "forget" => v.block = "open"
  /\ at \in {"xid", "constraints", "commit"} \/ Active => v.block = "open" /\ v.own = "del"

\* t's record stands until its transaction is known to be over.
Kept(t) ==
  \/ st[t] = "in_doubt"
  \/ /\ t = cur
     /\ \/ at \in {"begin", "forget", "xid", "constraints", "commit"} \cup Resolving
        \/ at = "client" /\ st[t] = "active"

\* What is known of each transaction: the three places its outcome shows (status,
\* database, record) agree, and an old backend can change the outcome only while
\* the client has not been told.
TxSound(t) ==
  /\ st[t] = "absent" => ~visible[t]
  /\ t \in v.dur =>
       st[t] \in {"committed", "in_doubt"} \/ (t = cur /\ at \in Resolving)
  /\ v.old[t].phase = "committing" =>
       v.old[t].own = "del" /\ (st[t] = "in_doubt" \/ (t = cur /\ at = "hold"))
  /\ visible[t] /\ Kept(t) => t \in v.rec \/ t \in v.dur
  /\ t \in v.rec => t \notin v.dur /\ st[t] # "committed"
  /\ st[t] = "committed" /\ visible[t] => t \in v.dur

RobustInv == TypeOK /\ Stages /\ Blocks /\ \A t \in Tx : TxSound(t)

----------------------------------------------------------------------------
(* Each step preserves it.                                                 *)

\* An exchange touches the record, the durability and the old session of the
\* current transaction only.
LEMMA OthersKept ==
  ASSUME RobustInv, NEW c \in Tx, cur = c, NEW op \in Ops, NEW r \in DirectExec(c, op),
         op = "commit" => v.block = "open" /\ v.own = "del",
         Served(r), cur' \in {c, NoTx},
         \A u \in Tx : u # c => st'[u] = st[u] /\ visible'[u] = visible[u]
  PROVE  \A u \in Tx : u # c => TxSound(u)'
<1>1. Answered(r, c, op) \/ Broken(r, c, op)
  BY DirectExecFacts DEF RobustInv, TypeOK
<1>2. ASSUME NEW y, NEW exc, Outcome(v, y, c, op, exc), NEW u \in Tx, u # c
      PROVE  (u \in y.rec <=> u \in v.rec) /\ (u \in y.dur <=> u \in v.dur)
  BY <1>2 DEF Outcome
<1>3. ASSUME NEW u \in Tx, u # c
      PROVE  /\ u \in v'.rec <=> u \in v.rec
             /\ u \in v'.dur <=> u \in v.dur
             /\ v'.old[u] = v.old[u]
  <2>1. CASE Answered(r, c, op)
    BY <1>2, <1>3, <2>1 DEF Answered, Served
  <2>2. CASE Broken(r, c, op)
    BY <1>2, <1>3, <2>2 DEF Broken, Served
  <2> QED BY <1>1, <2>1, <2>2
<1>4. ASSUME NEW u \in Tx, u # c
      PROVE  TxSound(u)'
  <2>1. u # cur /\ u # cur'
    BY <1>4, ConstantsAssumption
  <2> QED BY <1>3, <1>4, <2>1 DEF RobustInv, TxSound, Kept
<1> QED BY <1>4

\* The part of the invariant about the current transaction.
CurSound(c) == Stages /\ Blocks /\ TxSound(c)

\* An exchange preserves the invariant if it does so for its own transaction.
LEMMA ExchangePreserves ==
  ASSUME RobustInv, NEW c \in Tx, cur = c, NEW op \in Ops, NEW r \in DirectExec(c, op),
         op = "commit" => v.block = "open" /\ v.own = "del",
         Served(r), cur' \in {c, NoTx}, at' \in Places, at' # "client" => cur' = c,
         tries' \in 0..MaxHold, NEW s \in Statuses, st' = [st EXCEPT ![c] = s],
         NEW b \in BOOLEAN, visible' = [visible EXCEPT ![c] = b],
         CurSound(c)'
  PROVE  RobustInv'
<1>1. /\ st \in [Tx -> Statuses] /\ visible \in [Tx -> BOOLEAN] /\ v \in ServerType
  BY DEF RobustInv, TypeOK
<1>2. \A u \in Tx : u # c => TxSound(u)'
  <2>1. \A u \in Tx : u # c => st'[u] = st[u] /\ visible'[u] = visible[u]
    BY <1>1
  <2> QED BY <2>1, OthersKept
<1>3. TypeOK'
  <2>1. v' \in ServerType /\ open' \in BOOLEAN
    BY <1>1, DirectExecFacts DEF Served
  <2>2. cur' \in Tx \cup {NoTx} /\ (at' # "client" => cur' # NoTx)
    BY ConstantsAssumption
  <2>3. st' \in [Tx -> Statuses] /\ visible' \in [Tx -> BOOLEAN]
    BY <1>1
  <2> QED BY <2>1, <2>2, <2>3 DEF TypeOK
<1> QED BY <1>2, <1>3 DEF RobustInv, CurSound

\* A call that is under way is on a transaction, in the state its place says.
LEMMA UnderWay ==
  ASSUME RobustInv, at # "client"
  PROVE  /\ cur \in Tx /\ at \in Places /\ tries \in 0..MaxHold
         /\ st \in [Tx -> Statuses] /\ visible \in [Tx -> BOOLEAN] /\ v \in ServerType
         /\ Stages /\ Blocks /\ TxSound(cur)
BY DEF RobustInv, TypeOK

\* The three ways on from an exchange.  The call goes on at another place.
LEMMA GotoPreserves ==
  ASSUME RobustInv, NEW c \in Tx, cur = c, NEW op \in Ops, NEW r \in DirectExec(c, op),
         op = "commit" => v.block = "open" /\ v.own = "del",
         Served(r), NEW l \in Places, Goto(l), CurSound(c)'
  PROVE  RobustInv'
<1>1. /\ cur' = c /\ at' = l /\ tries' = tries /\ st' = st /\ visible' = visible
  BY DEF Goto
<1>2. /\ tries' \in 0..MaxHold
      /\ st[c] \in Statuses /\ st' = [st EXCEPT ![c] = st[c]]
      /\ visible[c] \in BOOLEAN /\ visible' = [visible EXCEPT ![c] = visible[c]]
  BY <1>1 DEF RobustInv, TypeOK
<1> QED BY <1>1, <1>2, ExchangePreserves

\* The call ends, and the object has its new status.
LEMMA ReturnPreserves ==
  ASSUME RobustInv, NEW c \in Tx, cur = c, NEW op \in Ops, NEW r \in DirectExec(c, op),
         op = "commit" => v.block = "open" /\ v.own = "del",
         Served(r), NEW s \in Statuses, Return(s), CurSound(c)'
  PROVE  RobustInv'
<1>1. /\ cur' = c /\ at' = "client" /\ tries' = tries /\ st' = [st EXCEPT ![c] = s]
      /\ visible' = visible
  BY DEF Return
<1>2. /\ tries' \in 0..MaxHold /\ "client" \in Places
      /\ visible[c] \in BOOLEAN /\ visible' = [visible EXCEPT ![c] = visible[c]]
  BY <1>1 DEF RobustInv, TypeOK, Places
<1> QED BY <1>1, <1>2, ExchangePreserves

\* The constructor throws.
LEMMA FailPreserves ==
  ASSUME RobustInv, NEW c \in Tx, cur = c, NEW op \in Ops, NEW r \in DirectExec(c, op),
         op # "commit", Served(r), Fail, CurSound(c)'
  PROVE  RobustInv'
<1>1. /\ cur' = NoTx /\ at' = "client" /\ tries' = tries
      /\ st' = [st EXCEPT ![c] = "failed"] /\ visible' = visible
  BY DEF Fail
<1>2. /\ tries' \in 0..MaxHold /\ "client" \in Places /\ "failed" \in Statuses
      /\ visible[c] \in BOOLEAN /\ visible' = [visible EXCEPT ![c] = visible[c]]
  BY <1>1 DEF RobustInv, TypeOK, Places, Statuses
<1> QED BY <1>1, <1>2, ExchangePreserves

\* What an exchange other than COMMIT leaves of the current transaction.
LEMMA ExchangeFacts ==
  ASSUME RobustInv, NEW c \in Tx, cur = c, NEW op \in Ops \ {"commit"},
         NEW r \in DirectExec(c, op), Served(r)
  PROVE  /\ v' = r.v /\ v'.dur = v.dur
         /\ v'.old[c] = v.old[c] \/ v'.old[c].phase = "dying"
         /\ op \notin {"insert", "delete", "new_id"} => v'.rec = v.rec
         /\ r.exc \in {"ok", "sql", "broken"}
         /\ r.exc = "broken" => v'.block = "none"
         /\ r.exc # "broken" => Outcome(v, v', c, op, r.exc) /\ v'.old = v.old
<1>1. v' = r.v
  BY DEF Served
<1>2. Answered(r, c, op) \/ Broken(r, c, op)
  BY DirectExecFacts DEF RobustInv, TypeOK
<1>3. CASE Answered(r, c, op)
  BY <1>1, <1>3 DEF Answered, Outcome
<1>4. CASE Broken(r, c, op)
  BY <1>1, <1>4 DEF Broken, Outcome
<1> QED BY <1>2, <1>3, <1>4

\* An exchange of a transaction that is not resolving a lost COMMIT keeps what is
\* known of it, if it keeps its record while the record counts.
LEMMA QuietGoto ==
  ASSUME RobustInv, NEW c \in Tx, cur = c, at \notin Resolving,
         st[c] \in {"nascent", "active"}, NEW op \in Ops \ {"commit"},
         NEW r \in DirectExec(c, op), Served(r), NEW l \in Places, Goto(l),
         Stages', Blocks', visible[c] /\ Kept(c)' => Kept(c) /\ v.rec \subseteq v'.rec,
         l \notin Resolving
  PROVE  RobustInv'
<1>1. /\ v'.dur = v.dur
      /\ v'.old[c] = v.old[c] \/ v'.old[c].phase = "dying"
  BY ExchangeFacts
<1>2. /\ cur' = c /\ at' = l /\ st' = st /\ visible' = visible
  BY DEF Goto
<1>3. TxSound(c)
  BY DEF RobustInv
<1>4. c \notin v.dur /\ v.old[c].phase # "committing"
  BY <1>3 DEF TxSound, Resolving
<1>5. c \notin v'.dur /\ v'.old[c].phase # "committing"
  BY <1>1, <1>4
<1>6. visible[c] /\ Kept(c)' => c \in v'.rec
  BY <1>3, <1>4 DEF TxSound
<1>7. TxSound(c)'
  BY <1>2, <1>5, <1>6 DEF TxSound
<1> QED BY <1>7, GotoPreserves DEF CurSound

\* The constructor throws: nothing durable, and no open block is left behind.
LEMMA FailSound ==
  ASSUME RobustInv, NEW c \in Tx, cur = c, at \in Constructing, NEW op \in Ops \ {"commit"},
         NEW r \in DirectExec(c, op), r.exc # "ok", Served(r), Fail,
         op \in {"begin", "log", "insert", "delete", "new_id", "select"}
  PROVE  RobustInv'
<1>1. /\ v'.dur = v.dur
      /\ v'.old[c] = v.old[c] \/ v'.old[c].phase = "dying"
      /\ r.exc = "broken" => v'.block = "none"
      /\ r.exc # "broken" => Outcome(v, v', c, op, r.exc)
  BY ExchangeFacts
<1>2. /\ cur' = NoTx /\ at' = "client" /\ st'[c] = "failed" /\ visible' = visible
  BY DEF Fail, RobustInv, TypeOK
<1>3. /\ c \notin v.dur /\ v.old[c].phase # "committing"
  BY DEF RobustInv, TxSound, Constructing, Early, Fallback, Resolving, Stages
<1>4. v'.block # "open" /\ c \notin v'.dur /\ v'.old[c].phase # "committing"
  <2>1. v'.block # "open"
    BY <1>1 DEF Outcome, Ran
  <2> QED BY <1>1, <1>3, <2>1
<1>5. CurSound(c)'
  <2>1. Stages'
    BY <1>2 DEF Stages, Constructing, Early, Fallback, Closing, Resolving
  <2>2. Blocks'
    BY <1>2, <1>4 DEF Blocks, Active, Resolving
  <2>3. TxSound(c)'
    BY <1>2, <1>4 DEF TxSound, Kept, Resolving
  <2> QED BY <2>1, <2>2, <2>3 DEF CurSound
<1> QED BY <1>5, FailPreserves

\* The steps of the constructor before there is a record that counts.
LEMMA ConstructingGoto ==
  ASSUME RobustInv, NEW c \in Tx, cur = c, at \in Early \cup Fallback,
         NEW op \in Ops \ {"commit"}, NEW r \in DirectExec(c, op), Served(r),
         NEW l \in Early \cup Fallback \cup {"begin"}, Goto(l),
         l \in {"log", "rollback_begin"} => v'.block # "open",
         l \in {"id", "insert", "create", "begin_again"} => v'.block = "none"
  PROVE  RobustInv'
<1>1. /\ cur' = c /\ at' = l /\ st' = st /\ visible' = visible
  BY DEF Goto
<1>2. /\ st[c] = "nascent" /\ ~visible[c] /\ at \notin Resolving /\ l \in Places
      /\ l \notin Resolving
  BY DEF RobustInv, Stages, Constructing, Early, Fallback, Resolving, Places
<1>3. Stages'
  BY <1>1, <1>2 DEF Stages, Closing, Resolving, Early, Fallback
<1>4. Blocks'
  BY <1>1, <1>2 DEF Blocks, Active, Early, Fallback, Resolving
<1> QED BY <1>2, <1>3, <1>4, QuietGoto

\* CreateTransactionRecord(), its first attempt: it only runs outside a block.
LEMMA CreateRecordSteps ==
  ASSUME RobustInv, CleanUp \/ DrawId
  PROVE  RobustInv'
<1>o. PICK op \in {"log", "new_id"} : \E r \in DirectExec(cur, op) :
        /\ at \in {"log", "id"} /\ Served(r)
        /\ \/ r.exc = "ok" /\ Goto("id")
           \/ r.exc = "ok" /\ Goto("insert")
           \/ r.exc # "ok" /\ Goto("rollback_begin")
  BY DEF CleanUp, DrawId, Exchange, Branch
<1>1. PICK r \in DirectExec(cur, op) :
        /\ at \in {"log", "id"} /\ Served(r)
        /\ \/ r.exc = "ok" /\ Goto("id")
           \/ r.exc = "ok" /\ Goto("insert")
           \/ r.exc # "ok" /\ Goto("rollback_begin")
  BY <1>o
<1>2. PICK c \in Tx : cur = c
  BY <1>1, UnderWay
<1>3. v.block \in {"none", "doomed"}
  BY <1>1, UnderWay DEF Blocks, Active, ServerType
<1>4. v'.block # "open" /\ (r.exc = "ok" => v'.block = "none")
  <2>1. /\ r.exc = "broken" => v'.block = "none"
        /\ r.exc # "broken" => Outcome(v, v', c, op, r.exc)
    BY <1>1, <1>2, ExchangeFacts DEF Ops
  <2> QED BY <1>1, <1>3, <2>1 DEF Outcome, Ran
<1> QED BY <1>1, <1>2, <1>4, ConstructingGoto DEF Ops, Early, Fallback

\* do_begin()'s catch block.
LEMMA FallbackSteps ==
  ASSUME RobustInv, RollbackBegin \/ CreateLogTable
  PROVE  RobustInv'
<1>o. PICK op \in {"rollback", "create"} : \E r \in DirectExec(cur, op) :
        /\ Served(r)
        /\ \/ op = "rollback" /\ at = "rollback_begin" /\ Goto("create")
           \/ op = "create" /\ at = "create" /\ Goto("begin_again")
  BY DEF RollbackBegin, CreateLogTable, Exchange, Branch
<1>1. PICK r \in DirectExec(cur, op) :
        /\ Served(r)
        /\ \/ op = "rollback" /\ at = "rollback_begin" /\ Goto("create")
           \/ op = "create" /\ at = "create" /\ Goto("begin_again")
  BY <1>o
<1>2. PICK c \in Tx : cur = c
  BY <1>1, UnderWay
<1>3. at = "create" => v.block = "none"
  BY <1>1, UnderWay DEF Blocks
<1>4. v'.block = "none"
  <2>1. /\ r.exc = "broken" => v'.block = "none"
        /\ r.exc # "broken" => Outcome(v, v', c, op, r.exc)
    BY <1>1, <1>2, ExchangeFacts DEF Ops
  <2> QED BY <1>1, <1>3, <2>1 DEF Outcome
<1> QED BY <1>1, <1>2, <1>4, ConstructingGoto DEF Ops, Early, Fallback

\* The second attempt, inside the block, throws when it fails.
LEMMA AgainSteps ==
  ASSUME RobustInv, BeginAgain \/ CleanUpAgain \/ DrawIdAgain \/ InsertAgain
  PROVE  RobustInv'
<1>o. PICK op \in {"begin", "log", "new_id", "insert"},
           l \in {"log_again", "id_again", "insert_again", "begin"} :
        /\ at \in {"begin_again", "log_again", "id_again", "insert_again"}
        /\ \E r \in DirectExec(cur, op) : OrFail(r, l)
  BY DEF BeginAgain, CleanUpAgain, DrawIdAgain, InsertAgain, Exchange
<1>1. PICK r \in DirectExec(cur, op) : OrFail(r, l)
  BY <1>o
<1>2. PICK c \in Tx : cur = c
  BY <1>o, UnderWay
<1>3. CASE r.exc = "ok"
  BY <1>o, <1>1, <1>2, <1>3, ConstructingGoto DEF OrFail, Ops, Early, Fallback
<1>4. CASE r.exc # "ok"
  BY <1>o, <1>1, <1>2, <1>4, FailSound DEF OrFail, Ops, Early, Fallback, Constructing
<1> QED BY <1>3, <1>4

\* CreateTransactionRecord() outside a block: the record counts once it is there.
LEMMA InsertStep ==
  ASSUME RobustInv, InsertLogRecord
  PROVE  RobustInv'
<1>1. PICK r \in DirectExec(cur, "insert") :
        /\ at = "insert" /\ Served(r)
        /\ at' = IF r.exc = "ok" THEN "begin" ELSE "rollback_begin"
        /\ visible' = [visible EXCEPT ![cur] = r.exc = "ok" /\ v.block = "none"]
        /\ UNCHANGED <<cur, tries, st>>
  BY DEF InsertLogRecord, Exchange
<1>2. PICK c \in Tx : cur = c
  BY <1>1, UnderWay
<1> DEFINE b == r.exc = "ok" /\ v.block = "none"
<1>3. /\ st[c] = "nascent" /\ v.block = "none" /\ TxSound(c)
      /\ st \in [Tx -> Statuses] /\ visible \in [Tx -> BOOLEAN] /\ tries \in 0..MaxHold
  BY <1>1, <1>2, UnderWay DEF Stages, Blocks, Constructing, Early
<1>4. /\ v'.dur = v.dur
      /\ v'.old[c] = v.old[c] \/ v'.old[c].phase = "dying"
      /\ r.exc = "broken" => v'.block = "none"
      /\ r.exc # "broken" => Outcome(v, v', c, "insert", r.exc)
  BY <1>1, <1>2, ExchangeFacts DEF Ops
<1>5. v'.block = "none" /\ (r.exc = "ok" => c \in v'.rec)
  BY <1>3, <1>4 DEF Outcome, Ran
<1>6. c \notin v'.dur /\ v'.old[c].phase # "committing"
  BY <1>1, <1>3, <1>4 DEF TxSound, Resolving
<1>7. /\ cur' = c /\ st' = st /\ visible'[c] = b
      /\ at' = IF b THEN "begin" ELSE "rollback_begin"
  BY <1>1, <1>2, <1>3
<1>8. CurSound(c)'
  <2>1. Stages'
    BY <1>3, <1>7 DEF Stages, Closing, Resolving, Early, Fallback
  <2>2. Blocks'
    BY <1>5, <1>7 DEF Blocks, Active, Resolving
  <2>3. TxSound(c)'
    BY <1>3, <1>5, <1>6, <1>7 DEF TxSound, Kept, Resolving
  <2> QED BY <2>1, <2>2, <2>3 DEF CurSound
<1>9. /\ "insert" \in Ops /\ st[c] \in Statuses /\ st' = [st EXCEPT ![c] = st[c]]
      /\ b \in BOOLEAN /\ visible' = [visible EXCEPT ![c] = b]
      /\ at' \in Places /\ tries' \in 0..MaxHold
  BY <1>1, <1>2, <1>3, <1>7 DEF Ops, Places
<1> QED BY <1>1, <1>2, <1>7, <1>8, <1>9, ExchangePreserves

\* BEGIN, and the deletion of the record inside the block.
LEMMA BeginSteps ==
  ASSUME RobustInv, Begin \/ ForgetRecord
  PROVE  RobustInv'
<1>1. PICK op \in {"begin", "delete"}, l \in {"forget", "xid"} :
        /\ \/ op = "begin" /\ at = "begin" /\ l = "forget"
           \/ op = "delete" /\ at = "forget" /\ l = "xid"
        /\ \E r \in DirectExec(cur, op) : OrFail(r, l)
  BY DEF Begin, ForgetRecord, Exchange
<1>2. PICK r \in DirectExec(cur, op) : OrFail(r, l)
  BY <1>1
<1>3. PICK c \in Tx : cur = c
  BY <1>1, UnderWay
<1>4. CASE r.exc # "ok"
  BY <1>1, <1>2, <1>3, <1>4, FailSound DEF OrFail, Ops, Constructing
<1>5. CASE r.exc = "ok"
  <2>1. Served(r) /\ Goto(l)
    BY <1>2, <1>5 DEF OrFail
  <2>2. /\ cur' = c /\ at' = l /\ st' = st
    BY <1>3, <2>1 DEF Goto
  <2>3. st[c] = "nascent" /\ (op = "delete" => v.block = "open")
    BY <1>1, <1>3, UnderWay DEF Stages, Blocks, Constructing
  <2>4. /\ Outcome(v, v', c, op, "ok") /\ (op = "begin" => v'.rec = v.rec)
    BY <1>1, <1>3, <1>5, <2>1, ExchangeFacts DEF Ops
  <2>5. /\ v'.block = "open" /\ (op = "delete" => v'.own = "del") /\ v'.rec = v.rec
    BY <2>3, <2>4 DEF Outcome, Ran
  <2>6. Stages'
    BY <2>2, <2>3 DEF Stages, Closing, Resolving, Early, Fallback
  <2>7. Blocks'
    BY <1>1, <2>2, <2>5 DEF Blocks, Active, Resolving
  <2>8. Kept(c)
    BY <1>1, <1>3 DEF Kept
  <2>9. l \in Places \ Resolving /\ at \notin Resolving /\ op \in Ops \ {"commit"}
    BY <1>1 DEF Places, Resolving, Ops
  <2> QED BY <1>3, <2>1, <2>3, <2>5, <2>6, <2>7, <2>8, <2>9, QuietGoto
<1> QED BY <1>4, <1>5

\* A SELECT of a transaction whose block is open: get_id, exec(), SET CONSTRAINTS.
LEMMA SelectSteps ==
  ASSUME RobustInv, ClientExec \/ SetConstraints
  PROVE  RobustInv'
<1>1. PICK l \in {"client", "commit"} :
        /\ Active \/ at = "constraints"
        /\ \E r \in DirectExec(cur, "select") : Branch(r, l, "rollback")
  BY DEF ClientExec, SetConstraints, Exchange
<1>2. PICK r \in DirectExec(cur, "select") : Branch(r, l, "rollback")
  BY <1>1
<1>3. PICK c \in Tx : cur = c
  BY <1>1, UnderWay DEF Active, RobustInv, TypeOK
<1>4. Served(r) /\ Goto(IF r.exc = "ok" THEN l ELSE "rollback")
  BY <1>2 DEF Branch
<1> DEFINE m == IF r.exc = "ok" THEN l ELSE "rollback"
<1>5. /\ cur' = c /\ at' = m /\ st' = st
  BY <1>3, <1>4 DEF Goto
<1>6. st[c] = "active" /\ v.block = "open" /\ v.own = "del" /\ Kept(c) /\ at \notin Resolving
  BY <1>1, <1>3 DEF RobustInv, Stages, Blocks, Closing, Active, Kept, Resolving
<1>7. /\ v'.rec = v.rec
      /\ r.exc = "broken" => v'.block = "none"
      /\ r.exc # "broken" => Outcome(v, v', c, "select", r.exc)
  BY <1>2, <1>3, <1>4, ExchangeFacts DEF Ops
<1>8. r.exc = "ok" => v'.block = "open" /\ v'.own = "del"
  BY <1>6, <1>7 DEF Outcome, Ran
<1>9. m \in Places \ Resolving /\ "select" \in Ops \ {"commit"}
  BY DEF Places, Resolving, Ops
<1>10. m \in {"client", "commit", "rollback"} /\ (r.exc # "ok" => m = "rollback")
  OBVIOUS
<1> HIDE DEF m
<1>11. Stages'
  BY <1>5, <1>6, <1>10 DEF Stages, Constructing, Resolving, Early, Fallback
<1>12. Blocks'
  BY <1>5, <1>6, <1>8, <1>10, ConstantsAssumption DEF Blocks, Active, Resolving
<1> QED BY <1>2, <1>3, <1>4, <1>6, <1>7, <1>9, <1>11, <1>12, QuietGoto DEF m

\* The constructor ends: the client has a transaction.
LEMMA GetXidStep ==
  ASSUME RobustInv, GetXid
  PROVE  RobustInv'
<1>1. PICK r \in DirectExec(cur, "select") :
        at = "xid" /\ Served(r) /\ IF r.exc = "ok" THEN Return("active") ELSE Fail
  BY DEF GetXid, Exchange
<1>2. PICK c \in Tx : cur = c
  BY <1>1, UnderWay
<1>3. CASE r.exc # "ok"
  BY <1>1, <1>2, <1>3, FailSound DEF Ops, Constructing
<1>4. CASE r.exc = "ok"
  <2>1. /\ st[c] = "nascent" /\ v.block = "open" /\ v.own = "del" /\ TxSound(c)
        /\ st \in [Tx -> Statuses]
    BY <1>1, <1>2, UnderWay DEF Stages, Blocks, Constructing
  <2>2. /\ cur' = c /\ at' = "client" /\ st'[c] = "active" /\ visible' = visible
    BY <1>1, <1>2, <1>4, <2>1 DEF Return
  <2>3. /\ Outcome(v, v', c, "select", "ok") /\ v'.rec = v.rec /\ v'.dur = v.dur
        /\ v'.old = v.old
    BY <1>1, <1>2, <1>4, ExchangeFacts DEF Ops
  <2>4. v'.block = "open" /\ v'.own = "del"
    BY <2>1, <2>3 DEF Outcome, Ran
  <2>5. Stages' /\ Blocks'
    BY <2>2, <2>4, ConstantsAssumption
    DEF Stages, Blocks, Active, Constructing, Early, Fallback, Closing, Resolving
  <2>6. TxSound(c)'
    BY <1>1, <1>2, <2>1, <2>2, <2>3 DEF TxSound, Kept, Resolving
  <2>7. "select" \in Ops /\ "active" \in Statuses
    BY DEF Ops, Statuses
  <2> QED BY <1>1, <1>2, <1>4, <2>5, <2>6, <2>7, ReturnPreserves DEF CurSound
<1> QED BY <1>3, <1>4

\* do_abort().
LEMMA AbortSteps ==
  ASSUME RobustInv, Rollback \/ DeleteTransactionRecord
  PROVE  RobustInv'
<1>1. PICK op \in {"rollback", "delete"} :
        /\ at = op
        /\ \E r \in DirectExec(cur, op) :
             Served(r) /\ (Return("aborted") \/ (op = "rollback" /\ Goto("delete")))
  BY DEF Rollback, DeleteTransactionRecord, Exchange
<1>2. PICK r \in DirectExec(cur, op) :
        Served(r) /\ (Return("aborted") \/ (op = "rollback" /\ Goto("delete")))
  BY <1>1
<1>3. PICK c \in Tx : cur = c
  BY <1>1, UnderWay
<1>4. /\ st[c] = "active" /\ TxSound(c) /\ (op = "delete" => v.block = "none")
      /\ st \in [Tx -> Statuses]
  BY <1>1, <1>3, UnderWay DEF Stages, Blocks, Closing
<1>5. /\ v'.dur = v.dur
      /\ v'.old[c] = v.old[c] \/ v'.old[c].phase = "dying"
      /\ r.exc = "broken" => v'.block = "none"
      /\ r.exc # "broken" => Outcome(v, v', c, op, r.exc)
  BY <1>1, <1>2, <1>3, ExchangeFacts DEF Ops
<1>6. v'.block = "none"
  BY <1>1, <1>4, <1>5 DEF Outcome, Ran
<1>7. CASE Return("aborted")
  <2>1. /\ cur' = c /\ at' = "client" /\ st'[c] = "aborted" /\ visible' = visible
    BY <1>3, <1>4, <1>7 DEF Return
  <2>2. c \notin v'.dur /\ v'.old[c].phase # "committing"
    BY <1>1, <1>4, <1>5 DEF TxSound, Resolving
  <2>3. Stages' /\ Blocks'
    BY <1>6, <2>1
    DEF Stages, Blocks, Active, Constructing, Early, Fallback, Closing, Resolving
  <2>4. TxSound(c)'
    BY <2>1, <2>2 DEF TxSound, Kept, Resolving
  <2>5. op \in Ops /\ op # "commit" /\ "aborted" \in Statuses
    BY <1>1 DEF Ops, Statuses
  <2> QED BY <1>2, <1>3, <1>7, <2>3, <2>4, <2>5, ReturnPreserves DEF CurSound
<1>8. CASE op = "rollback" /\ Goto("delete")
  <2>1. /\ cur' = c /\ at' = "delete" /\ st' = st /\ visible' = visible
    BY <1>3, <1>8 DEF Goto
  <2>2. Stages' /\ Blocks'
    BY <1>4, <1>6, <2>1
    DEF Stages, Blocks, Active, Constructing, Early, Fallback, Resolving
  <2>3. ~Kept(c)'
    BY <1>4, <2>1 DEF Kept, Resolving
  <2>4. "rollback" \in Ops \ {"commit"} /\ "delete" \in Places \ Resolving /\ at \notin Resolving
    BY <1>1, <1>8 DEF Ops, Places, Resolving
  <2> QED BY <1>2, <1>3, <1>4, <1>8, <2>2, <2>3, <2>4, QuietGoto
<1> QED BY <1>2, <1>7, <1>8

\* do_commit() sends COMMIT: it learns the outcome, or goes to look for it while the
\* old backend may still be at work.
LEMMA DoCommitStep ==
  ASSUME RobustInv, DoCommit
  PROVE  RobustInv'
<1>1. PICK r \in DirectExec(cur, "commit") :
        /\ at = "commit" /\ Served(r)
        /\ \/ r.exc = "ok" /\ Return("committed")
           \/ r.exc = "sql" /\ Goto("rollback")
           \/ /\ r.exc = "broken" /\ at' = "hold" /\ tries' = MaxHold
              /\ UNCHANGED <<cur, st, visible>>
  BY DEF DoCommit, Exchange
<1>2. PICK c \in Tx : cur = c
  BY <1>1, UnderWay
<1>3. /\ st[c] = "active" /\ v.block = "open" /\ v.own = "del" /\ TxSound(c)
      /\ st \in [Tx -> Statuses] /\ visible \in [Tx -> BOOLEAN] /\ v \in ServerType
  BY <1>1, <1>2, UnderWay DEF Stages, Blocks, Closing
<1>4. c \notin v.dur /\ v.old[c].phase # "committing" /\ (visible[c] => c \in v.rec)
  BY <1>1, <1>2, <1>3 DEF TxSound, Kept, Resolving
<1>5. "commit" \in Ops /\ "committed" \in Statuses /\ "rollback" \in Places
      /\ "hold" \in Places
  BY DEF Ops, Statuses, Places
<1>6. /\ v' = r.v
      /\ Answered(r, c, "commit") \/ Broken(r, c, "commit")
  BY <1>1, <1>2, <1>3, <1>5, DirectExecFacts DEF Served
<1>7. CASE r.exc = "ok" /\ Return("committed")
  <2>1. Outcome(v, v', c, "commit", "ok") /\ v'.old = v.old
    BY <1>6, <1>7 DEF Answered, Broken
  <2>2. /\ v'.block = "none" /\ v'.dur = v.dur \cup {c} /\ v'.rec = v.rec \ {c}
    BY <1>3, <2>1 DEF Outcome
  <2>3. /\ cur' = c /\ at' = "client" /\ st'[c] = "committed" /\ visible' = visible
    BY <1>2, <1>3, <1>7 DEF Return
  <2>4. Stages' /\ Blocks'
    BY <2>2, <2>3
    DEF Stages, Blocks, Active, Constructing, Early, Fallback, Closing, Resolving
  <2>5. TxSound(c)'
    BY <1>4, <2>1, <2>2, <2>3 DEF TxSound, Kept, Resolving
  <2> QED BY <1>1, <1>2, <1>3, <1>5, <1>7, <2>4, <2>5, ReturnPreserves DEF CurSound
<1>8. CASE r.exc = "sql" /\ Goto("rollback")
  <2>1. Outcome(v, v', c, "commit", "sql") /\ v'.old = v.old
    BY <1>6, <1>8 DEF Answered, Broken
  <2>2. v'.dur = v.dur /\ v'.rec = v.rec
    BY <1>3, <2>1 DEF Outcome
  <2>3. /\ cur' = c /\ at' = "rollback" /\ st' = st /\ visible' = visible
    BY <1>2, <1>8 DEF Goto
  <2>4. Stages' /\ Blocks'
    BY <1>3, <2>3
    DEF Stages, Blocks, Active, Constructing, Early, Fallback, Closing, Resolving
  <2>5. TxSound(c)'
    BY <1>3, <1>4, <2>1, <2>2, <2>3 DEF TxSound, Kept, Resolving
  <2> QED BY <1>1, <1>2, <1>3, <1>5, <1>8, <2>4, <2>5, GotoPreserves DEF CurSound
<1>9. CASE /\ r.exc = "broken" /\ at' = "hold" /\ tries' = MaxHold
           /\ UNCHANGED <<cur, st, visible>>
  <2>1. Broken(r, c, "commit")
    BY <1>6, <1>9 DEF Answered
  <2>2. v'.old[c].phase = "committing" => v'.old[c].own = "del"
    BY <1>3, <1>4, <1>6, <2>1 DEF Broken
  <2>3. \/ v'.rec = v.rec /\ v'.dur = v.dur
        \/ v'.rec = v.rec \ {c} /\ v'.dur = v.dur \cup {c}
    BY <1>3, <1>6, <2>1 DEF Broken, Outcome
  <2>4. Stages' /\ Blocks'
    BY <1>2, <1>3, <1>6, <1>9, <2>1
    DEF Broken, Stages, Blocks, Active, Constructing, Early, Fallback, Resolving
  <2>5. TxSound(c)'
    BY <1>2, <1>3, <1>4, <1>9, <2>2, <2>3 DEF TxSound, Resolving
  <2>6. /\ MaxHold \in 0..MaxHold /\ st[c] \in Statuses /\ st' = [st EXCEPT ![c] = st[c]]
        /\ visible[c] \in BOOLEAN /\ visible' = [visible EXCEPT ![c] = visible[c]]
    BY <1>3, <1>9, ConstantsAssumption
  <2>7. cur' = c /\ tries' \in 0..MaxHold
    BY <1>2, <1>9, <2>6
  <2> QED BY <1>1, <1>2, <1>3, <1>5, <1>9, <2>4, <2>5, <2>6, <2>7, ExchangePreserves
          DEF CurSound
<1> QED BY <1>1, <1>7, <1>8, <1>9

\* An exchange that only looks leaves the server as it was, or breaks.
LEMMA LookFacts ==
  ASSUME RobustInv, NEW c \in Tx, cur = c, v.block = "none", NEW op \in {"look", "mistake"},
         NEW r \in DirectExec(c, op), Served(r)
  PROVE  /\ v'.rec = v.rec /\ v'.dur = v.dur /\ v'.block = "none"
         /\ v'.old[c] = v.old[c] \/ v'.old[c].phase = "dying"
         /\ r.exc = "ok" => v' = v
<1>1. /\ v'.dur = v.dur
      /\ v'.old[c] = v.old[c] \/ v'.old[c].phase = "dying"
      /\ v'.rec = v.rec
      /\ r.exc = "broken" => v'.block = "none"
      /\ r.exc # "broken" => Outcome(v, v', c, op, r.exc)
  BY ExchangeFacts DEF Ops
<1> QED BY <1>1 DEF Outcome, Ran

\* CheckTransactionRecord() gives up: nothing is claimed, and the record stands.
LEMMA InDoubtSound ==
  ASSUME RobustInv, NEW c \in Tx, cur = c, at \in Resolving,
         NEW op \in {"look", "mistake"}, NEW r \in DirectExec(c, op), Served(r), InDoubt
  PROVE  RobustInv'
<1>1. /\ st \in [Tx -> Statuses] /\ TxSound(c) /\ v.block = "none" /\ st[c] = "active"
  BY UnderWay DEF Stages, Blocks, Closing, Resolving
<1>2. /\ v'.rec = v.rec /\ v'.dur = v.dur /\ v'.block = "none"
      /\ v'.old[c] = v.old[c] \/ v'.old[c].phase = "dying"
  BY <1>1, LookFacts
<1>3. /\ cur' = c /\ at' = "client" /\ st'[c] = "in_doubt" /\ visible' = visible
      /\ Return("in_doubt")
  BY <1>1 DEF InDoubt, Return
<1>4. v'.old[c].phase = "committing" => v'.old[c].own = "del"
  BY <1>1, <1>2 DEF TxSound
<1>5. visible[c] => c \in v.rec \/ c \in v.dur
  BY <1>1 DEF TxSound, Kept
<1>6. Stages' /\ Blocks'
  BY <1>2, <1>3
  DEF Stages, Blocks, Active, Constructing, Early, Fallback, Closing, Resolving
<1>7. TxSound(c)'
  BY <1>1, <1>2, <1>3, <1>4, <1>5 DEF TxSound
<1>8. op \in Ops /\ op # "commit" /\ "in_doubt" \in Statuses
  BY DEF Ops, Statuses
<1> QED BY <1>3, <1>6, <1>7, <1>8, ReturnPreserves DEF CurSound

\* CheckTransactionRecord() waits for the old backend, or gives up.
LEMMA HoldStep ==
  ASSUME RobustInv, NEW wait \in BOOLEAN, Hold(wait)
  PROVE  RobustInv'
<1>1. PICK r \in DirectExec(cur, "look") :
        /\ at = "hold" /\ (v.old[cur].phase # "gone" => wait) /\ Served(r)
        /\ \/ InDoubt
           \/ r.exc = "ok" /\ ~wait /\ Goto("find")
           \/ /\ r.exc = "ok" /\ tries > 1 /\ tries' = tries - 1
              /\ UNCHANGED <<cur, at, st, visible>>
  BY DEF Hold, Exchange
<1>2. PICK c \in Tx : cur = c
  BY <1>1, UnderWay
<1>3. /\ st[c] = "active" /\ v.block = "none" /\ TxSound(c) /\ tries \in 0..MaxHold
      /\ st \in [Tx -> Statuses] /\ visible \in [Tx -> BOOLEAN]
  BY <1>1, <1>2, UnderWay DEF Stages, Blocks, Closing, Resolving
<1>4. CASE InDoubt
  BY <1>1, <1>2, <1>4, InDoubtSound DEF Resolving
<1>5. r.exc = "ok" => v' = v
  BY <1>1, <1>2, <1>3, LookFacts
<1>6. "look" \in Ops /\ "find" \in Places /\ "hold" \in Places
  BY DEF Ops, Places
<1>7. CASE r.exc = "ok" /\ ~wait /\ Goto("find")
  <2>1. /\ cur' = c /\ at' = "find" /\ st' = st /\ visible' = visible /\ v' = v
    BY <1>2, <1>5, <1>7 DEF Goto
  <2>2. v.old[c].phase = "gone"
    BY <1>1, <1>2, <1>7
  <2>3. Stages' /\ Blocks'
    BY <1>3, <2>1 DEF Stages, Blocks, Active, Constructing, Early, Fallback, Resolving
  <2>4. TxSound(c)'
    BY <1>1, <1>2, <1>3, <2>1, <2>2 DEF TxSound, Kept, Resolving
  <2> QED BY <1>1, <1>2, <1>6, <1>7, <2>3, <2>4, GotoPreserves DEF CurSound
<1>8. CASE /\ r.exc = "ok" /\ tries > 1 /\ tries' = tries - 1
           /\ UNCHANGED <<cur, at, st, visible>>
  <2>1. CurSound(c)'
    BY <1>3, <1>5, <1>8
    DEF CurSound, RobustInv, Stages, Blocks, Active, TxSound, Kept
  <2>2. tries' \in 0..MaxHold
    BY <1>3, <1>8, ConstantsAssumption
  <2>3. /\ st[c] \in Statuses /\ st' = [st EXCEPT ![c] = st[c]]
        /\ visible[c] \in BOOLEAN /\ visible' = [visible EXCEPT ![c] = visible[c]]
    BY <1>3, <1>8
  <2>4. cur' = c /\ at' = "hold"
    BY <1>1, <1>2, <1>8
  <2> QED BY <1>1, <1>2, <1>6, <2>1, <2>2, <2>3, <2>4, ExchangePreserves
<1> QED BY <1>1, <1>4, <1>7, <1>8

\* CheckTransactionRecord() looks for the record and believes what it finds.
LEMMA FindStep ==
  ASSUME RobustInv, Find
  PROVE  RobustInv'
<1>1. PICK op \in {"look", "mistake"} :
        /\ at = "find"
        /\ \E r \in DirectExec(cur, op) :
             /\ Served(r)
             /\ \/ r.exc # "ok" /\ InDoubt
                \/ r.exc = "ok" /\ cur \in v.rec /\ Goto("rollback")
                \/ r.exc = "ok" /\ cur \notin v.rec /\ Return("committed")
  BY DEF Find, Exchange
<1>2. PICK r \in DirectExec(cur, op) :
        /\ Served(r)
        /\ \/ r.exc # "ok" /\ InDoubt
           \/ r.exc = "ok" /\ cur \in v.rec /\ Goto("rollback")
           \/ r.exc = "ok" /\ cur \notin v.rec /\ Return("committed")
  BY <1>1
<1>3. PICK c \in Tx : cur = c
  BY <1>1, UnderWay
<1>4. /\ st[c] = "active" /\ v.block = "none" /\ TxSound(c) /\ st \in [Tx -> Statuses]
  BY <1>1, <1>3, UnderWay DEF Stages, Blocks, Closing, Resolving
<1>5. r.exc = "ok" => v' = v
  BY <1>2, <1>3, <1>4, LookFacts
<1>6. /\ op \in Ops /\ op # "commit" /\ "rollback" \in Places /\ "committed" \in Statuses
  BY DEF Ops, Places, Statuses
<1>7. v.old[c].phase # "committing" /\ (visible[c] => c \in v.rec \/ c \in v.dur)
  BY <1>1, <1>3, <1>4 DEF TxSound, Kept, Resolving
<1>8. CASE InDoubt
  BY <1>1, <1>2, <1>3, <1>8, InDoubtSound DEF Resolving
<1>9. CASE r.exc = "ok" /\ cur \in v.rec /\ Goto("rollback")
  <2>1. /\ cur' = c /\ at' = "rollback" /\ st' = st /\ visible' = visible /\ v' = v
    BY <1>3, <1>5, <1>9 DEF Goto
  <2>2. c \notin v.dur
    BY <1>3, <1>4, <1>9 DEF TxSound
  <2>3. Stages' /\ Blocks'
    BY <1>4, <2>1 DEF Stages, Blocks, Active, Constructing, Early, Fallback, Resolving
  <2>4. TxSound(c)'
    BY <1>4, <1>7, <2>1, <2>2 DEF TxSound, Kept, Resolving
  <2> QED BY <1>2, <1>3, <1>6, <1>9, <2>3, <2>4, GotoPreserves DEF CurSound
<1>10. CASE r.exc = "ok" /\ cur \notin v.rec /\ Return("committed")
  <2>1. /\ cur' = c /\ at' = "client" /\ st'[c] = "committed" /\ visible' = visible
        /\ v' = v /\ c \notin v.rec
    BY <1>3, <1>4, <1>5, <1>10 DEF Return
  <2>2. Stages' /\ Blocks'
    BY <1>4, <2>1
    DEF Stages, Blocks, Active, Constructing, Early, Fallback, Closing, Resolving
  <2>3. TxSound(c)'
    BY <1>7, <2>1 DEF TxSound, Kept, Resolving
  <2> QED BY <1>2, <1>3, <1>6, <1>10, <2>2, <2>3, ReturnPreserves DEF CurSound
<1> QED BY <1>2, <1>8, <1>9, <1>10

\* The client's calls that exchange nothing yet.
LEMMA ClientSteps ==
  ASSUME RobustInv,
         (\E t \in Tx : Construct(t)) \/ ClientAbort \/ ClientCommit \/ Destroy
  PROVE  RobustInv'
<1>t. TypeOK /\ Stages /\ Blocks /\ \A u \in Tx : TxSound(u)
  BY DEF RobustInv
<1>1. ASSUME NEW t \in Tx, Construct(t) PROVE RobustInv'
  <2>1. /\ cur = NoTx /\ st[t] = "absent" /\ cur' = t /\ at' = "log"
        /\ st' = [st EXCEPT ![t] = "nascent"]
        /\ UNCHANGED <<tries, visible, open, v>>
    BY <1>1 DEF Construct
  <2>2. at = "client" /\ ~Active /\ st'[t] = "nascent" /\ ~visible[t]
        /\ \A u \in Tx : u # t => st'[u] = st[u]
    BY <1>t, <2>1 DEF TypeOK, Active, TxSound
  <2>3. TypeOK'
    BY <1>t, <2>1, ConstantsAssumption DEF TypeOK, Places, Statuses
  <2>4. Stages' /\ Blocks'
    BY <1>t, <2>1, <2>2
    DEF Stages, Blocks, Active, Constructing, Early, Closing, Resolving
  <2>5. TxSound(t)'
    BY <1>t, <2>1, <2>2 DEF TxSound, Kept, Resolving
  <2>6. \A u \in Tx : u # t => TxSound(u)'
    BY <1>t, <2>1, <2>2, ConstantsAssumption DEF TxSound, Kept, Resolving
  <2> QED BY <2>3, <2>4, <2>5, <2>6 DEF RobustInv
<1>2. CASE ClientAbort \/ ClientCommit
  <2>1. PICK l \in {"rollback", "constraints"} :
          Active /\ at' = l /\ UNCHANGED <<cur, tries, st, visible, open, v>>
    BY <1>2 DEF ClientAbort, ClientCommit, Goto
  <2>2. TypeOK'
    BY <1>t, <2>1 DEF TypeOK, Active, Places
  <2>3. Stages' /\ Blocks'
    BY <1>t, <2>1
    DEF Stages, Blocks, Active, Constructing, Early, Fallback, Closing, Resolving
  <2>4. \A u \in Tx : TxSound(u)'
    BY <1>t, <2>1 DEF TxSound, Kept, Resolving, Active
  <2> QED BY <2>2, <2>3, <2>4 DEF RobustInv
<1>3. CASE Destroy
  <2>1. /\ at = "client" /\ cur # NoTx /\ st[cur] # "active" /\ cur' = NoTx
        /\ UNCHANGED <<at, tries, st, visible, open, v>>
    BY <1>3 DEF Destroy
  <2>2. TypeOK'
    BY <1>t, <2>1 DEF TypeOK
  <2>3. Stages' /\ Blocks'
    BY <1>t, <2>1
    DEF Stages, Blocks, Active, Constructing, Early, Fallback, Closing, Resolving
  <2>4. \A u \in Tx : TxSound(u)'
    BY <1>t, <2>1, ConstantsAssumption DEF TxSound, Kept, Resolving
  <2> QED BY <2>2, <2>3, <2>4 DEF RobustInv
<1> QED BY <1>1, <1>2, <1>3

\* An old backend finishes what it was sent last, or rolls back.
LEMMA OldSteps ==
  ASSUME RobustInv, NEW t \in Tx, OldCommits(t) \/ OldRollsBack(t)
  PROVE  RobustInv'
<1>t. TypeOK /\ Stages /\ Blocks /\ v \in ServerType /\ \A u \in Tx : TxSound(u)
  BY DEF RobustInv, TypeOK
<1>1. UNCHANGED <<cur, at, tries, st, visible, open>>
  BY DEF OldCommits, OldRollsBack, client
<1>2. /\ v' \in ServerType /\ v'.block = v.block /\ v'.own = v.own
      /\ v'.old[t].phase = "gone" /\ \A u \in Tx : u # t => v'.old[u] = v.old[u]
      /\ \/ v'.rec = v.rec /\ v'.dur = v.dur
         \/ /\ v.old[t].phase = "committing"
            /\ v'.rec = v.rec \ {t} /\ v'.dur = v.dur \cup {t}
  <2> DEFINE Ended(y) == [y EXCEPT !.old[t].phase = "gone"]
  <2>1. ASSUME NEW y \in ServerType
        PROVE  /\ Ended(y) \in ServerType /\ Ended(y).block = y.block
               /\ Ended(y).own = y.own /\ Ended(y).rec = y.rec /\ Ended(y).dur = y.dur
               /\ Ended(y).old[t].phase = "gone"
               /\ \A u \in Tx : u # t => Ended(y).old[u] = y.old[u]
    <3> DEFINE o == [y.old[t] EXCEPT !.phase = "gone"]
               f == [y.old EXCEPT ![t] = o]
    <3>1. y.old[t] \in [phase : Phase, own : Own] /\ y.old \in [Tx -> [phase : Phase, own : Own]]
      BY DEF ServerType
    <3>2. o \in [phase : Phase, own : Own] /\ o.phase = "gone"
      BY <3>1 DEF Phase
    <3>3. Ended(y) = [y EXCEPT !.old = f]
      BY DEF ServerType
    <3> HIDE DEF o
    <3>4. /\ f \in [Tx -> [phase : Phase, own : Own]] /\ f[t] = o
          /\ \A u \in Tx : u # t => f[u] = y.old[u]
      BY <3>1, <3>2
    <3> HIDE DEF f, Ended
    <3> QED BY <3>2, <3>3, <3>4 DEF ServerType
  <2> HIDE DEF Ended
  <2>2. CASE v' = Ended(v)
    BY <1>t, <2>1, <2>2
  <2>3. CASE v.old[t].phase = "committing" /\ v' = Ended(Commit(v, t, v.old[t].own))
    <3>1. v.old[t].own = "del" /\ v.old[t].own \in Own
      BY <1>t, <2>3 DEF TxSound, Own
    <3> DEFINE y == Commit(v, t, v.old[t].own)
    <3>2. /\ y \in ServerType /\ y.old = v.old /\ y.dur = v.dur \cup {t}
          /\ y.rec = v.rec \ {t} /\ y.block = v.block /\ y.own = v.own
      BY <1>t, <3>1, CommitFacts
    <3> HIDE DEF y
    <3>3. v' = Ended(y) /\ v.old[t].phase = "committing"
      BY <2>3 DEF y
    <3> QED BY <2>1, <3>2, <3>3
  <2> QED BY <2>2, <2>3 DEF OldCommits, OldRollsBack, Ended
<1>3. TypeOK'
  BY <1>t, <1>1, <1>2 DEF TypeOK
<1>4. Stages' /\ Blocks'
  BY <1>t, <1>1, <1>2 DEF Stages, Blocks, Active
<1>5. \A u \in Tx : u # t => TxSound(u)'
  <2>1. \A u \in Tx : u # t => /\ u \in v'.rec <=> u \in v.rec
                               /\ u \in v'.dur <=> u \in v.dur
    BY <1>2
  <2> QED BY <1>t, <1>1, <1>2, <2>1 DEF TxSound, Kept
<1>6. TxSound(t)'
  <2>1. CASE v'.rec = v.rec /\ v'.dur = v.dur
    BY <1>t, <1>1, <1>2, <2>1 DEF TxSound, Kept
  <2>2. CASE /\ v.old[t].phase = "committing"
             /\ v'.rec = v.rec \ {t} /\ v'.dur = v.dur \cup {t}
    BY <1>t, <1>1, <1>2, <2>2 DEF TxSound, Kept, Resolving
  <2> QED BY <1>2, <2>1, <2>2
<1> QED BY <1>3, <1>4, <1>5, <1>6 DEF RobustInv

----------------------------------------------------------------------------
\* The invariant holds on a new connection.
LEMMA RobustInvInit ==
  ASSUME Init
  PROVE  RobustInv
<1>1. TypeOK
  BY ConstantsAssumption DEF Init, TypeOK, ServerType, Places, Statuses, Phase, Own
<1>2. Stages /\ Blocks
  BY DEF Init, Stages, Blocks, Active, Constructing, Early, Fallback, Closing, Resolving
<1>3. \A t \in Tx : TxSound(t)
  BY DEF Init, TxSound, Kept, Resolving
<1> QED BY <1>1, <1>2, <1>3 DEF RobustInv

\* Every step preserves it.
LEMMA RobustInvNext ==
  ASSUME RobustInv, [Next]_vars
  PROVE  RobustInv'
<1>1. CASE UNCHANGED vars
  BY <1>1 DEF vars, client, RobustInv, TypeOK, Stages, Blocks, Active, TxSound, Kept
<1>2. CASE Step
  BY <1>2, CreateRecordSteps, InsertStep, FallbackSteps, AgainSteps, BeginSteps,
     SelectSteps, GetXidStep, AbortSteps, DoCommitStep, HoldStep, FindStep
  DEF Step
<1> QED BY <1>1, <1>2, ClientSteps, OldSteps, SelectSteps DEF Next

\* It holds throughout every behaviour.
LEMMA RobustInvAlways == Spec => []RobustInv
<1>1. Init => RobustInv
  BY RobustInvInit
<1>2. RobustInv /\ [Next]_vars => RobustInv'
  BY RobustInvNext
<1> QED BY <1>1, <1>2, PTL DEF Spec

\* do_commit(), CheckTransactionRecord(): a robusttransaction whose record was made
\* outside its block reports what happened, however often the link is lost and
\* however long old backends linger.
THEOREM RobustOutcomeHolds == Spec => []RobustOutcome
<1>1. RobustInv => RobustOutcome
  BY DEF RobustInv, RobustOutcome, TxSound, Stages, Closing, Resolving
<1> QED BY <1>1, RobustInvAlways, PTL

\* CreateTransactionRecord(): the log table tells the outcome of every transaction
\* left in doubt, and holds no record of a committed one.
THEOREM RecordsTrueHolds == Spec => []RecordsTrue
<1>1. RobustInv => TypeOK /\ CommittedLeavesNoRecord
  BY DEF RobustInv, CommittedLeavesNoRecord, TxSound
<1>2. RobustInv => RecordTellsOutcome
  BY DEF RobustInv, RecordTellsOutcome, TxSound, Kept
<1>3. RobustInv => RecordsTrue
  BY <1>1, <1>2 DEF RecordsTrue
<1> QED BY <1>3, RobustInvAlways, PTL

\* A call under way makes exchanges for its own transaction, which has no outcome
\* yet; COMMIT is sent only when the block has deleted the record.
LEMMA StepIsExchange ==
  ASSUME RobustInv, Step \/ ClientExec
  PROVE  /\ cur \in Tx /\ st[cur] \in {"nascent", "active"}
         /\ \E op \in Ops : /\ op = "commit" => v.block = "open" /\ v.own = "del"
                            /\ \E r \in DirectExec(cur, op) : Served(r)
<1>1. CASE ClientExec
  <2>1. Active /\ \E r \in DirectExec(cur, "select") : Served(r)
    BY <1>1 DEF ClientExec, Branch
  <2> QED BY <2>1 DEF Active, RobustInv, TypeOK, Ops
<1>2. CASE DoCommit
  <2>1. at = "commit" /\ \E r \in DirectExec(cur, "commit") : Served(r)
    BY <1>2 DEF DoCommit, Exchange
  <2> QED BY <2>1, UnderWay DEF Stages, Blocks, Closing, Ops
<1>3. CASE Step /\ ~DoCommit
  <2>1. at # "client" /\ \E op \in Ops \ {"commit"} : \E r \in DirectExec(cur, op) : Served(r)
    <3>1. CASE CleanUp \/ DrawId \/ InsertLogRecord \/ RollbackBegin \/ CreateLogTable
      BY <3>1 DEF CleanUp, DrawId, InsertLogRecord, RollbackBegin, CreateLogTable,
                  Exchange, Branch, Ops
    <3>2. CASE BeginAgain \/ CleanUpAgain \/ DrawIdAgain \/ InsertAgain
      BY <3>2 DEF BeginAgain, CleanUpAgain, DrawIdAgain, InsertAgain, Exchange, OrFail, Ops
    <3>3. CASE Begin \/ ForgetRecord \/ GetXid
      BY <3>3 DEF Begin, ForgetRecord, GetXid, Exchange, OrFail, Ops
    <3>4. CASE Rollback \/ DeleteTransactionRecord \/ SetConstraints
      BY <3>4 DEF Rollback, DeleteTransactionRecord, SetConstraints, Exchange, Branch, Ops
    <3>5. CASE (\E wait \in BOOLEAN : Hold(wait)) \/ Find
      BY <3>5 DEF Hold, Find, Exchange, Ops
    <3> QED BY <1>3, <3>1, <3>2, <3>3, <3>4, <3>5 DEF Step
  <2>2. cur \in Tx /\ Stages /\ at \in Places
    BY <2>1, UnderWay
  <2>3. st[cur] \in {"nascent", "active"}
    BY <2>1, <2>2
    DEF Stages, Places, Constructing, Early, Fallback, Closing, Resolving
  <2> QED BY <2>1, <2>2, <2>3
<1> QED BY <1>1, <1>2, <1>3

\* CheckTransactionRecord(): what the client was told is never overturned, whatever
\* backends of lost connections do afterwards.
THEOREM DecidedForGoodHolds == Spec => DecidedForGood
<1> DEFINE Told(t) == st[t] \in {"committed", "aborted", "failed"}
           Stays(t) == t \in v'.dur <=> t \in v.dur
<1>1. ASSUME RobustInv, [Next]_vars
      PROVE  [\A t \in Tx : Told(t) => Stays(t)]_vars
  <2>1. CASE UNCHANGED vars
    BY <2>1
  <2>2. CASE Step \/ ClientExec
    <3>1. PICK c \in Tx : cur = c /\ st[c] \in {"nascent", "active"}
      BY <1>1, <2>2, StepIsExchange
    <3>2. PICK op \in Ops : /\ op = "commit" => v.block = "open" /\ v.own = "del"
                            /\ \E r \in DirectExec(c, op) : Served(r)
      BY <1>1, <2>2, <3>1, StepIsExchange
    <3>3. PICK r \in DirectExec(c, op) : Served(r)
      BY <3>2
    <3>4. Answered(r, c, op) \/ Broken(r, c, op)
      BY <1>1, DirectExecFacts DEF RobustInv, TypeOK
    <3>5. ASSUME NEW y, NEW exc, Outcome(v, y, c, op, exc), NEW u \in Tx, u # c
          PROVE  u \in y.dur <=> u \in v.dur
      BY <3>2, <3>5 DEF Outcome
    <3>6. \A u \in Tx : u # c => Stays(u)
      BY <3>3, <3>4, <3>5 DEF Answered, Broken, Served
    <3> QED BY <3>1, <3>6
  <2>3. CASE \E t \in Tx : OldCommits(t)
    <3>1. PICK t \in Tx : OldCommits(t)
      BY <2>3
    <3>2. /\ v.old[t].phase = "committing" /\ v.old[t].own \in Own /\ v \in ServerType
          /\ v' = [Commit(v, t, v.old[t].own) EXCEPT !.old[t].phase = "gone"]
      BY <1>1, <3>1 DEF OldCommits, RobustInv, TypeOK, ServerType
    <3>3. v'.dur = v.dur \cup {t}
      <4> DEFINE y == Commit(v, t, v.old[t].own)
      <4>1. y \in ServerType /\ y.dur = v.dur \cup {t}
        BY <3>2, CommitFacts
      <4>2. v' = [y EXCEPT !.old[t].phase = "gone"]
        BY <3>2
      <4> HIDE DEF y
      <4> QED BY <4>1, <4>2 DEF ServerType
    <3>4. ~Told(t)
      BY <1>1, <3>2 DEF RobustInv, TxSound, Stages, Closing, Resolving
    <3> QED BY <3>3, <3>4
  <2>4. CASE \E t \in Tx : OldRollsBack(t)
    BY <1>1, <2>4 DEF OldRollsBack, RobustInv, TypeOK, ServerType
  <2>5. CASE (\E t \in Tx : Construct(t)) \/ ClientAbort \/ ClientCommit \/ Destroy
    BY <2>5 DEF Construct, ClientAbort, ClientCommit, Destroy
  <2> QED BY <1>1, <2>1, <2>2, <2>3, <2>4, <2>5 DEF Next
<1> QED BY <1>1, RobustInvAlways, PTL DEF Spec, DecidedForGood
=============================================================================
