---------------------------- MODULE AtomicCommit ----------------------------
(***************************************************************************)
(* What a transaction<> promises (transaction_base.hxx, dbtransaction.hxx, *)
(* transaction.hxx): its work becomes durable as a whole, in the step in   *)
(* which commit() answers, or never; and the answer is true, or "in        *)
(* doubt".  Nothing is said of connections, blocks or statements.          *)
(***************************************************************************)
CONSTANTS Tx, Effect

VARIABLES
  status,  \* status[t]: what the client knows of t
  work,    \* work[t]: the effects of t's statements that succeeded
  db       \* the effects that are durable

Init ==
  /\ status = [t \in Tx |-> "open"]
  /\ work = [t \in Tx |-> {}]
  /\ db = {}

Answer(t, s) ==
  /\ status[t] = "open"
  /\ status' = [status EXCEPT ![t] = s]
  /\ UNCHANGED work

\* A statement succeeds.
Execute(t, e) ==
  /\ status[t] = "open"
  /\ work' = [work EXCEPT ![t] = @ \cup {e}]
  /\ UNCHANGED <<status, db>>

Commit(t) == Answer(t, "committed") /\ db' = db \cup work[t]

Abort(t) == Answer(t, "aborted") /\ db' = db

InDoubt(t) == Answer(t, "in_doubt") /\ db' \in {db, db \cup work[t]}

Next ==
  \E t \in Tx : \/ \E e \in Effect : Execute(t, e)
                \/ Commit(t) \/ Abort(t) \/ InDoubt(t)

Spec == Init /\ [][Next]_<<status, work, db>>
=============================================================================
