------------------------------ MODULE Backend ------------------------------
(***************************************************************************)
(* What the library relies on and does not implement: one PostgreSQL       *)
(* backend session and the libpq calls that reach it.  Everything here is  *)
(* external to the repository; it is modelled from how connection_base     *)
(* uses it.                                                                *)
(*                                                                         *)
(* The session and the client's view of it are one record, a "world":      *)
(*   handle   m_Conn and PQstatus: "none" (null), "bad" (CONNECTION_BAD),  *)
(*            "ok" (CONNECTION_OK)                                         *)
(*   alive    the socket really leads to a live backend; when it does not, *)
(*            handle stays "ok" until an I/O call notices                  *)
(*   tx       the backend's transaction state: no block, inside a block,   *)
(*            inside a block that an error has doomed                      *)
(*   copy     libpq is inside COPY ... FROM STDIN                          *)
(*   work     effects executed in the block and not yet committed          *)
(*   db       effects that are durable                                     *)
(***************************************************************************)

Handle == {"none", "bad", "ok"}
TxState == {"idle", "open", "failed"}

\* The session is gone: its block is rolled back; what is durable stays.  The
\* client does not know yet.
Gone(w) == [w EXCEPT !.alive = FALSE, !.tx = "idle", !.work = {}]

\* The client has noticed that the session is gone: PQstatus answers BAD.
Lost(w) == [Gone(w) EXCEPT !.handle = "bad", !.copy = FALSE]

\* A new session on a new socket.
Fresh(w) == [Gone(w) EXCEPT !.handle = "ok", !.alive = TRUE, !.copy = FALSE]

\* The session after a command, and the status of the command's result.
Reply(w, tx, work, db, res) ==
  [w |-> [w EXCEPT !.tx = tx, !.work = work, !.db = db], res |-> res]

\* An SQL error dooms the block it occurs in.
Doom(tx) == IF tx = "idle" THEN "idle" ELSE "failed"

\* libpq ends a COPY that is still in progress before it sends a command; the
\* backend answers with an error for the COPY.
EndCopy(w) ==
  IF w.copy THEN [w EXCEPT !.copy = FALSE, !.tx = Doom(w.tx), !.work = {}]
            ELSE w

\* BEGIN in an open block only warns.  In a doomed block it is an error.
BeginBlock(w) ==
  IF w.tx = "failed" THEN {Reply(w, "failed", {}, w.db, "error")}
                     ELSE {Reply(w, "open", w.work, w.db, "ok")}

\* COMMIT may be refused (a deferred constraint).  COMMIT of a doomed block
\* rolls back and still answers PGRES_COMMAND_OK; outside a block it warns.
CommitBlock(w) ==
  {Reply(w, "idle", {}, w.db \cup w.work, "ok")}
    \cup (IF w.tx = "open" THEN {Reply(w, "idle", {}, w.db, "error")} ELSE {})

RollbackBlock(w) == {Reply(w, "idle", {}, w.db, "ok")}

\* A statement with effect eff: durable at once outside a block, held back
\* inside one, refused in a doomed one; the backend may reject any statement.
Statement(w, eff) ==
  (IF w.tx = "failed" THEN {}
   ELSE {IF w.tx = "idle" THEN Reply(w, "idle", {}, w.db \cup eff, "ok")
                          ELSE Reply(w, "open", w.work \cup eff, w.db, "ok")})
    \cup {Reply(w, Doom(w.tx), {}, w.db, "error")}

\* COPY ... FROM STDIN: on success the session waits for data.
CopyIn(w) ==
  {[r EXCEPT !.w.copy = (r.res = "ok")] : r \in Statement(w, {})}

Answers(w, op, eff) ==
  CASE op = "BEGIN"    -> BeginBlock(w)
    [] op = "COMMIT"   -> CommitBlock(w)
    [] op = "ROLLBACK" -> RollbackBlock(w)
    [] op = "COPY"     -> CopyIn(w)
    [] OTHER           -> Statement(w, eff)

\* PQexec, PQprepare, PQexecPrepared, PQexecParams.  No handle, or one that is
\* BAD: a null result.  The link may fail before the backend has seen the
\* command or after it has carried it out; either way the client only learns
\* that the connection is BAD.
PQexec(w, op, eff) ==
  IF w.handle # "ok" THEN {[w |-> w, res |-> "none"]}
  ELSE IF ~w.alive THEN {[w |-> Lost(w), res |-> "none"]}
  ELSE LET as == Answers(EndCopy(w), op, eff) IN
       as \cup {[w |-> Lost(w), res |-> "none"]}
          \cup {[w |-> Lost(a.w), res |-> "none"] : a \in as}

\* PQconsumeInput: it may notice that the link is gone, or see nothing yet.
\* When it fails, PQstatus is BAD.
PQconsumeInput(w) == {[w |-> w, ok |-> TRUE], [w |-> Lost(w), ok |-> FALSE]}

\* PQputCopyEnd and the PQgetResult after it: the COPY's effect, or its error.
PQendCopy(w, eff) ==
  LET w1 == [w EXCEPT !.copy = FALSE] IN
  IF w.handle # "ok" \/ ~w.copy THEN {[w |-> w, res |-> "none"]}
  ELSE IF ~w.alive THEN {[w |-> Lost(w), res |-> "none"]}
  ELSE LET as == Statement(w1, eff) IN
       as \cup {[w |-> Lost(w), res |-> "none"]}
          \cup {[w |-> Lost(a.w), res |-> "none"] : a \in as}
=============================================================================
