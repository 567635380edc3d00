------------------------- MODULE RobustTransaction -------------------------
(***************************************************************************)
(* robusttransaction (src/robusttransaction.cxx): a transaction that keeps *)
(* a record of itself in a log table, so that it can find out what became  *)
(* of a COMMIT that was lost with the connection.                          *)
(*                                                                         *)
(* Transactions run one after another on one connection.  A step is one    *)
(* DirectExec(), one exchange with the backend; "at" says which one is     *)
(* next.  Between steps the backend that served a lost connection may      *)
(* still be at work on what it was sent last: the record is there for      *)
(* exactly that race.                                                      *)
(*                                                                         *)
(* The connection is never left BAD here: every failed exchange passes     *)
(* through activate(), which drops the handle (module Connection).         *)
(***************************************************************************)
EXTENDS Integers, FiniteSets

CONSTANTS
  Tx,           \* the transactions, in any order
  NoTx,         \* no transaction is under way
  MaxHold,      \* the 20 rounds CheckTransactionRecord() waits
  Inhibited,    \* inhibit_reactivation(true)
  UserParses    \* the user's name, unquoted, is an expression equal to it

ASSUME ConstantsAssumption ==
  /\ NoTx \notin Tx
  /\ MaxHold \in Nat \ {0}
  /\ Inhibited \in BOOLEAN /\ UserParses \in BOOLEAN

VARIABLES
  cur,      \* the transaction under way, or NoTx
  at,       \* its next exchange with the backend, or "client"
  tries,    \* rounds left in CheckTransactionRecord()
  st,       \* st[t]: m_Status; "absent" before, "failed" if the constructor threw
  visible,  \* visible[t]: t's record was inserted outside its own block
  open,     \* the connection has a handle
  v         \* the database server, see ServerType

client == <<cur, at, tries, st, visible>>
vars == <<client, open, v>>

----------------------------------------------------------------------------
(* The server.  A session's block is open or not, doomed or not, and has    *)
(* last inserted or deleted the transaction's record, or neither (own).     *)
(* old[t] is the session that t lost: what it still has to do, and own.     *)
(* rec follows the record with the id t has drawn last.                     *)

Own == {"none", "ins", "del"}
Phase == {"gone", "dying", "committing"}

Statuses == {"absent", "failed", "nascent", "active", "committed", "aborted",
             "in_doubt"}

ServerType ==
  [block : {"none", "open", "doomed"}, own : Own,
   old : [Tx -> [phase : Phase, own : Own]],
   rec : SUBSET Tx,      \* the records in the log table
   dur : SUBSET Tx,      \* the transactions that are durable
   table : BOOLEAN]      \* the log table and its sequence exist

NoBlock(x) == [x EXCEPT !.block = "none", !.own = "none"]

\* A block of t that last did own commits.
Commit(x, t, own) ==
  [x EXCEPT !.rec = IF own = "ins" THEN @ \cup {t}
                    ELSE IF own = "del" THEN @ \ {t} ELSE @,
            !.dur = @ \cup {t}]

\* The link is cut; the old session goes on to phase with its block.
Cut(x, t, phase) ==
  [NoBlock(x) EXCEPT !.old[t] = IF x.block = "open"
                                THEN [phase |-> phase, own |-> x.own] ELSE @]

Doomed(x) == [x EXCEPT !.block = IF @ = "none" THEN @ ELSE "doomed"]

Answer(x, exc) == [v |-> x, exc |-> exc]

\* A statement that changes x to y may be rejected, and always is in a doomed
\* block.
Executed(x, y) ==
  (IF x.block = "doomed" THEN {} ELSE {Answer(y, "ok")})
    \cup {Answer(Doomed(x), "sql")}

\* The log table does not exist before it is created.
OnTable(x, y) == IF x.table THEN Executed(x, y) ELSE {Answer(Doomed(x), "sql")}

InsertRecord(x, t) ==
  IF x.block = "none" THEN [x EXCEPT !.rec = @ \cup {t}]
                      ELSE [x EXCEPT !.own = "ins"]

DeleteRecord(x, t) ==
  IF x.block = "none" THEN [x EXCEPT !.rec = @ \ {t}]
                      ELSE [x EXCEPT !.own = "del"]

\* Another session's uncommitted DELETE locks the record.
Locked(x, t) == x.old[t].phase # "gone" /\ x.old[t].own = "del"

Answers(x, t, op) ==
  CASE op = "begin"    -> IF x.block = "doomed" THEN {Answer(x, "sql")}
                          ELSE {Answer([x EXCEPT !.block = "open"], "ok")}
    [] op = "rollback" -> {Answer(NoBlock(x), "ok")}
    [] op = "create"   -> {Answer([x EXCEPT !.table = TRUE], "ok"), Answer(x, "sql")}
    [] op = "log"      -> OnTable(x, x)
    [] op = "insert"   -> OnTable(x, InsertRecord(x, t))
    [] op = "delete"   -> OnTable(x, DeleteRecord(x, t))
    [] op = "new_id"   -> OnTable(x, [x EXCEPT !.rec = @ \ {t}])
    [] op = "look"     -> {Answer(x, "ok")}
    [] op = "mistake"  -> {Answer(Doomed(x), "sql")}
    [] op = "commit"   -> {Answer(IF x.block = "open"
                                  THEN NoBlock(Commit(x, t, x.own))
                                  ELSE NoBlock(x), "ok"),
                           Answer(NoBlock(x), "sql")}
    [] OTHER           -> Executed(x, x)

\* One DirectExec().  Without a handle it first reconnects, if it may and can.
\* The link may be cut before the statement arrives, after it was carried out,
\* or, for a COMMIT, while the backend is at it.
DirectExec(t, op) ==
  {[open |-> FALSE, v |-> Cut(v, t, "dying"), exc |-> "broken"]}
    \cup (IF ~open /\ Inhibited THEN {}
          ELSE {[open |-> TRUE, v |-> a.v, exc |-> a.exc] : a \in Answers(v, t, op)}
               \cup {[open |-> FALSE, v |-> Cut(a.v, t, "dying"), exc |-> "broken"] :
                     a \in Answers(v, t, op)}
               \cup (IF op = "commit"
                     THEN {[open |-> FALSE, v |-> Cut(v, t, "committing"),
                            exc |-> "broken"]} ELSE {}))

----------------------------------------------------------------------------
(* Control.                                                                *)

Goto(l) == at' = l /\ UNCHANGED <<cur, tries, st, visible>>

\* The running call ends; the object's status is s.
Return(s) ==
  /\ at' = "client"
  /\ st' = [st EXCEPT ![cur] = s]
  /\ UNCHANGED <<cur, tries, visible>>

\* The constructor throws: Begin() calls End(), which does nothing more for a
\* transaction that is nascent.
Fail ==
  /\ at' = "client" /\ cur' = NoTx
  /\ st' = [st EXCEPT ![cur] = "failed"]
  /\ UNCHANGED <<tries, visible>>

InDoubt ==
  /\ at' = "client"
  /\ st' = [st EXCEPT ![cur] = "in_doubt"]
  /\ UNCHANGED <<cur, tries, visible>>

\* The call under way has reached l and exchanges op with the backend; r is how
\* that ends.
Exchange(l, op) == IF at = l THEN DirectExec(cur, op) ELSE {}

Served(r) == open' = r.open /\ v' = r.v

\* Go on at l if the exchange succeeded, at m if not.
Branch(r, l, m) == Served(r) /\ Goto(IF r.exc = "ok" THEN l ELSE m)

\* Go on at l if the exchange succeeded; if not, the constructor throws.
OrFail(r, l) == Served(r) /\ IF r.exc = "ok" THEN Goto(l) ELSE Fail

Construct(t) ==
  /\ cur = NoTx /\ st[t] = "absent"
  /\ cur' = t /\ at' = "log" /\ st' = [st EXCEPT ![t] = "nascent"]
  /\ UNCHANGED <<tries, visible, open, v>>

\* CreateTransactionRecord(): delete what is older than 30 days, draw an id.
CleanUp == \E r \in Exchange("log", "log") : Branch(r, "id", "rollback_begin")

DrawId == \E r \in Exchange("id", "new_id") : Branch(r, "insert", "rollback_begin")

InsertLogRecord ==
  \E r \in Exchange("insert", "insert") :
    /\ Served(r)
    /\ at' = IF r.exc = "ok" THEN "begin" ELSE "rollback_begin"
    /\ visible' = [visible EXCEPT ![cur] = r.exc = "ok" /\ v.block = "none"]
    /\ UNCHANGED <<cur, tries, st>>

\* do_begin()'s catch block: end the transaction, create the table, begin, and
\* create the record inside the block.  CreateLogTable(), whose two statements are
\* one exchange here, swallows what it catches.
RollbackBegin ==
  \E r \in Exchange("rollback_begin", "rollback") : Branch(r, "create", "create")

CreateLogTable ==
  \E r \in Exchange("create", "create") : Branch(r, "begin_again", "begin_again")

BeginAgain == \E r \in Exchange("begin_again", "begin") : OrFail(r, "log_again")

CleanUpAgain == \E r \in Exchange("log_again", "log") : OrFail(r, "id_again")

DrawIdAgain == \E r \in Exchange("id_again", "new_id") : OrFail(r, "insert_again")

InsertAgain == \E r \in Exchange("insert_again", "insert") : OrFail(r, "begin")

\* dbtransaction::do_begin(), and the deletion that COMMIT will make visible.
Begin == \E r \in Exchange("begin", "begin") : OrFail(r, "forget")

\* Mutant: the record is not deleted in the block.
ForgetRecord_Never == \E r \in Exchange("forget", "select") : OrFail(r, "xid")

ForgetRecord == \E r \in Exchange("forget", "delete") : OrFail(r, "xid")

GetXid ==
  \E r \in Exchange("xid", "select") :
    Served(r) /\ IF r.exc = "ok" THEN Return("active") ELSE Fail

----------------------------------------------------------------------------
\* The client's calls on the transaction it has.
Active == at = "client" /\ cur # NoTx /\ st[cur] = "active"

\* exec(): a failure aborts.
ClientExec ==
  Active /\ \E r \in DirectExec(cur, "select") : Branch(r, "client", "rollback")

ClientAbort == Active /\ Goto("rollback") /\ UNCHANGED <<open, v>>

\* commit() refuses when the connection is known to be broken.
ClientCommit == Active /\ open /\ Goto("constraints") /\ UNCHANGED <<open, v>>

\* ~robusttransaction(): an active transaction is aborted by ClientAbort first.
Destroy ==
  /\ at = "client" /\ cur # NoTx /\ st[cur] # "active"
  /\ cur' = NoTx
  /\ UNCHANGED <<at, tries, st, visible, open, v>>

\* do_abort(): without the ROLLBACK the record is not deleted either.
Rollback ==
  \E r \in Exchange("rollback", "rollback") :
    Served(r) /\ IF r.exc = "ok" THEN Goto("delete") ELSE Return("aborted")

DeleteTransactionRecord ==
  \E r \in Exchange("delete", "delete") :
    ~Locked(v, cur) /\ Served(r) /\ Return("aborted")

SetConstraints ==
  \E r \in Exchange("constraints", "select") : Branch(r, "commit", "rollback")

\* Only a broken connection leads to the in-doubt handling.
DoCommit ==
  \E r \in Exchange("commit", "commit") :
    /\ Served(r)
    /\ \/ r.exc = "ok" /\ Return("committed")
       \/ r.exc = "sql" /\ Goto("rollback")
       \/ /\ r.exc = "broken" /\ at' = "hold" /\ tries' = MaxHold
          /\ UNCHANGED <<cur, st, visible>>

\* Mutant: the old backend's transaction may still be under way.
Hold_NoWait(wait) ==
  \E r \in Exchange("hold", "look") :
    /\ Served(r)
    /\ \/ r.exc # "ok" /\ InDoubt
       \/ r.exc = "ok" /\ ~wait /\ Goto("find")
       \/ r.exc = "ok" /\ wait /\ tries = 1 /\ InDoubt
       \/ /\ r.exc = "ok" /\ wait /\ tries > 1 /\ tries' = tries - 1
          /\ UNCHANGED <<cur, at, st, visible>>

\* Mutant: it asks until it is answered; neither the rounds nor the failures count.
Hold_Forever(wait) ==
  \E r \in Exchange("hold", "look") :
    /\ v.old[cur].phase # "gone" => wait
    /\ Served(r)
    /\ Goto(IF r.exc = "ok" /\ ~wait THEN "find" ELSE "hold")

\* CheckTransactionRecord() waits until the lost transaction's id is older than
\* every transaction under way; others may keep it waiting.  (Its other branch is for
\* servers up to 8.3.0, which read_capabilities() refuses.)
Hold(wait) ==
  \E r \in Exchange("hold", "look") :
    /\ v.old[cur].phase # "gone" => wait
    /\ Served(r)
    /\ \/ r.exc # "ok" /\ InDoubt
       \/ r.exc = "ok" /\ ~wait /\ Goto("find")
       \/ r.exc = "ok" /\ wait /\ tries = 1 /\ InDoubt
       \/ /\ r.exc = "ok" /\ wait /\ tries > 1 /\ tries' = tries - 1
          /\ UNCHANGED <<cur, at, st, visible>>

\* The query compares the user with the user's name, which it does not quote.  The
\* record is still there: the transaction failed.  If not, it succeeded.
Find ==
  \E r \in Exchange("find", IF UserParses THEN "look" ELSE "mistake") :
    /\ Served(r)
    /\ \/ r.exc # "ok" /\ InDoubt
       \/ r.exc = "ok" /\ cur \in v.rec /\ Goto("rollback")
       \/ r.exc = "ok" /\ cur \notin v.rec /\ Return("committed")

----------------------------------------------------------------------------
\* The old session of t ends: it finishes the COMMIT it was sent, or rolls back.
OldCommits(t) ==
  /\ v.old[t].phase = "committing"
  /\ v' = [Commit(v, t, v.old[t].own) EXCEPT !.old[t].phase = "gone"]
  /\ UNCHANGED <<client, open>>

OldRollsBack(t) ==
  /\ v.old[t].phase # "gone"
  /\ v' = [v EXCEPT !.old[t].phase = "gone"]
  /\ UNCHANGED <<client, open>>

Init ==
  /\ cur = NoTx /\ at = "client" /\ tries = 0
  /\ st = [t \in Tx |-> "absent"]
  /\ visible = [t \in Tx |-> FALSE]
  /\ open = TRUE
  /\ \E table \in BOOLEAN :
       v = [block |-> "none", own |-> "none",
            old |-> [t \in Tx |-> [phase |-> "gone", own |-> "none"]],
            rec |-> {}, dur |-> {}, table |-> table]

\* The steps of the call under way.
Step ==
  \/ CleanUp \/ DrawId \/ InsertLogRecord
  \/ RollbackBegin \/ CreateLogTable \/ BeginAgain \/ CleanUpAgain
  \/ DrawIdAgain \/ InsertAgain
  \/ Begin \/ ForgetRecord \/ GetXid
  \/ Rollback \/ DeleteTransactionRecord
  \/ SetConstraints \/ DoCommit \/ (\E wait \in BOOLEAN : Hold(wait)) \/ Find

Next ==
  \/ Step
  \/ \E t \in Tx : Construct(t) \/ OldCommits(t) \/ OldRollsBack(t)
  \/ ClientExec \/ ClientAbort \/ ClientCommit \/ Destroy

Spec == Init /\ [][Next]_vars

----------------------------------------------------------------------------
(* Properties.                                                             *)

Places == {"client", "log", "id", "insert", "rollback_begin", "create",
           "begin_again", "log_again", "id_again", "insert_again", "begin",
           "forget", "xid", "rollback", "delete", "constraints", "commit", "hold",
           "find"}

\* Every piece of state has its type, and a call is under way only on a
\* transaction (do_begin(), do_commit(), do_abort()).
TypeOK ==
  /\ cur \in Tx \cup {NoTx} /\ at \in Places /\ tries \in 0..MaxHold
  /\ st \in [Tx -> Statuses] /\ visible \in [Tx -> BOOLEAN]
  /\ open \in BOOLEAN /\ v \in ServerType
  /\ at # "client" => cur # NoTx

\* do_commit(): the outcome it reports is the outcome in the database, and no
\* backend left over from the lost connection changes it later; for a transaction
\* whose record was inserted outside its own block.
RobustOutcome ==
  \A t \in Tx :
    /\ st[t] = "committed" /\ visible[t] => t \in v.dur
    /\ st[t] \in {"aborted", "failed"} => t \notin v.dur

\* CreateTransactionRecord() and the DELETE in do_begin(): once the old backend is
\* gone, the record of a transaction left in doubt exists if and only if the
\* transaction failed, so that it can be resolved by hand.
RecordTellsOutcome ==
  \A t \in Tx :
    st[t] = "in_doubt" /\ visible[t] /\ v.old[t].phase = "gone" =>
      (t \in v.rec <=> t \notin v.dur)

\* do_begin(): "If this transaction commits, the transaction record should also be
\* gone."
CommittedLeavesNoRecord ==
  \A t \in Tx : st[t] = "committed" => t \notin v.rec

\* The log table: whoever looks for a record finds it in the cases, and only in
\* the cases, in which it says something true.
RecordsTrue == TypeOK /\ RecordTellsOutcome /\ CommittedLeavesNoRecord

\* CheckTransactionRecord(): once the client has been told, the old backend can no
\* longer change what it was told about, with or without a record.
DecidedForGood ==
  [][\A t \in Tx : st[t] \in {"committed", "aborted", "failed"} =>
       (t \in v'.dur <=> t \in v.dur)]_vars

\* The client's thread runs on, and the server notices in the end that the client
\* of an old session is gone.
Fairness ==
  /\ WF_vars(Step)
  /\ \A t \in Tx : WF_vars(OldCommits(t) \/ OldRollsBack(t))

FairSpec == Spec /\ Fairness

\* do_begin(), do_commit() and do_abort() return, though they wait for the old
\* backend's lock and for its transaction to be over.
CallsReturn == at # "client" ~> at = "client"
=============================================================================
