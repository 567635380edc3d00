---------------------------- MODULE TableStream ----------------------------
(***************************************************************************)
(* tablewriter and tablereader at work in one backend transaction          *)
(* (src/tablestream.cxx, tablewriter.cxx, tablereader.cxx, and the COPY    *)
(* functions of transaction_base and connection_base): what is written     *)
(* reaches the table, what is read is what was written, and a stream       *)
(* leaves the session fit for the next query.                              *)
(*                                                                         *)
(* A step is one call of the client.  After a call has thrown the client   *)
(* may go on: "told" says that it cannot complain.                         *)
(***************************************************************************)
EXTENDS TableText

CONSTANTS
  First, Later,   \* rows to write: the first one, and those after it
  MaxRows,        \* bound on the rows written
  Nulls           \* the texts that stand for NULL, one of which is chosen

\* A row is one that the codec can carry.  It cannot carry an unprintable character,
\* nor an empty last field that is not null: tokenize() stops at the end of the line.
Portable(row, null) ==
  /\ \A i \in DOMAIN row : \A k \in DOMAIN row[i] : ~unprintable(row[i][k])
  /\ Last(row) # <<>> \/ null = <<>>

ASSUME ConstantsAssumption ==
  /\ MaxRows \in Nat
  /\ \A row \in First \cup Later : row # <<>>

VARIABLES
  null,     \* m_Null of every stream
  link,     \* "ok"; "cut": the backend is gone; "bad": and libpq knows
  anew,     \* the session was made again since the transaction began: it has no block
  copy,     \* the COPY under way: "none", "in" or "out"
  doomed,   \* the backend's block has failed
  wire,     \* in: the rows the backend has taken; out: the lines it will send
  table,    \* the rows in the table, as the transaction sees them
  stream,   \* the client's stream: kind, m_Finished and m_Done
  tx,       \* m_Status: "active", "committed", or "over" (aborted or in doubt)
  perr,     \* m_PendingError is not empty
  given,    \* the rows that were written by calls that returned
  shown,    \* the rows that the current reader has returned
  told      \* some call has thrown

server == <<link, anew, copy, doomed, wire, table>>
client == <<stream, tx, perr, given, shown, told>>
vars == <<null, server, client>>

NoStream == [kind |-> "none", finished |-> TRUE, done |-> TRUE]

Focus == stream.kind # "none" /\ ~stream.finished

is_open == link # "bad"

Throws(exc) == told' = (told \/ exc # "ok")

----------------------------------------------------------------------------
(* The backend's answers: the state of the server, and the outcome.         *)

S(l, c, d, x, t, exc) ==
  [link |-> l, copy |-> c, doomed |-> d, wire |-> x, table |-> t, exc |-> exc]

\* The rows that a rollback leaves: outside a block they have been committed.
Kept == IF anew THEN table ELSE <<>>

\* The link is lost, and with it the block.
Lost(exc) == {S("bad", "none", FALSE, <<>>, Kept, exc)}

\* A session is anew once a link that was not "ok", or broke in this call, is "ok".
Served(r) ==
  /\ link' = r.link /\ copy' = r.copy /\ doomed' = r.doomed
  /\ wire' = r.wire /\ table' = r.table
  /\ anew' = (anew \/ (r.link = "ok" /\ (link # "ok" \/ r.exc = "broken")))

\* A query of an active transaction and, if it fails, the ROLLBACK of abort().  Each
\* reconnects if libpq knows that the link is gone (activate()); a link that is "cut"
\* fails the query.  good is the answer to one that succeeds; in a failed block, or
\* with a COPY still under way, none does.
Query(good) ==
  {S(l, "none", FALSE, <<>>, Kept, exc) :
     l \in {"ok", "bad"}, exc \in IF link = "cut" THEN {"broken"} ELSE {"broken", "sql"}}
    \cup (IF link = "cut" \/ doomed \/ copy # "none" THEN {} ELSE {good})

Simple == S("ok", "none", FALSE, <<>>, table, "ok")

CopyIn == S("ok", "in", FALSE, <<>>, table, "ok")

CopyOut ==
  S("ok", "out", FALSE, [i \in DOMAIN table |-> LineOf(table[i])], table, "ok")

----------------------------------------------------------------------------
(* transaction_base.                                                       *)

\* exec(): a pending error is thrown first and is forgotten; an open stream is
\* an error; a failure aborts (dbtransaction::do_exec).
Exec(good, opened) ==
  \/ /\ perr \/ Focus \/ tx # "active"
     /\ perr' = FALSE /\ told' = TRUE
     /\ UNCHANGED <<server, stream, tx, given, shown>>
  \/ /\ ~perr /\ ~Focus /\ tx = "active"
     /\ \E r \in Query(good) :
          /\ Served(r) /\ Throws(r.exc)
          /\ tx' = IF r.exc = "ok" THEN tx ELSE "over"
          /\ stream' = IF r.exc = "ok" THEN opened ELSE stream
          /\ shown' = IF r.exc = "ok" /\ opened.kind = "reader" THEN <<>> ELSE shown
     /\ UNCHANGED <<perr, given>>

\* The COMMIT of a failed block rolls back and answers OK; any may be refused.
Ended(exc) ==
  S(link, "none", FALSE, <<>>, IF doomed \/ exc # "ok" THEN Kept ELSE table, exc)

Commit ==
  /\ tx = "active"
  /\ \/ /\ perr \/ Focus \/ ~is_open
        /\ perr' = FALSE /\ told' = TRUE
        /\ UNCHANGED <<server, tx>>
     \/ /\ ~perr /\ ~Focus /\ is_open
        /\ \E r \in Lost("broken")
                     \cup (IF link = "ok" THEN {Ended("ok"), Ended("sql")} ELSE {}) :
             /\ Served(r) /\ Throws(r.exc)
             /\ tx' = IF r.exc = "ok" THEN "committed" ELSE "over"
        /\ UNCHANGED perr
  /\ UNCHANGED <<null, stream, given, shown>>

ClientExec == Exec(Simple, stream) /\ UNCHANGED null

----------------------------------------------------------------------------
(* The writer.                                                             *)

WriterOpen ==
  /\ stream.kind = "none"
  /\ Exec(CopyIn, [kind |-> "writer", finished |-> FALSE, done |-> TRUE])
  /\ UNCHANGED null

\* WriteCopyLine(): libpq may keep the line without noticing that the link is gone.
WriteCopyLine(row) ==
  IF ~is_open THEN {S(link, copy, doomed, wire, table, "internal")}
  ELSE IF copy # "in" THEN {S(link, copy, doomed, wire, table, "failure")}
  ELSE {S(link, copy, doomed,
          Append(wire, RowOf(write_raw_line(generate(row, null)))), table, "ok")}
         \cup Lost("failure")

Insert(row) ==
  /\ stream.kind = "writer" /\ Len(given) < MaxRows
  /\ row \in IF given = <<>> THEN First ELSE Later
  /\ Portable(row, null)
  /\ \E r \in WriteCopyLine(row) :
       /\ Served(r) /\ Throws(r.exc)
       /\ given' = IF r.exc = "ok" THEN Append(given, row) ELSE given
  /\ UNCHANGED <<null, stream, tx, perr, shown>>

\* EndCopyWrite(): the backend takes the rows, or it refuses all of them, which fails
\* the block if there is one.
EndCopyWrite ==
  IF ~is_open \/ copy # "in" THEN {S(link, copy, doomed, wire, table, "failure")}
  ELSE Lost("broken") \cup Lost("failure")
         \cup (IF link = "cut" THEN {}
               ELSE {S(link, "none", ~anew, <<>>, table, "sql"),
                     S(link, "none", FALSE, <<>>, table \o wire, "ok")})

\* Mutant: what goes wrong when a stream is destroyed is lost.
Ending_Forgets(r, destroyed) ==
  /\ Served(r)
  /\ perr' = perr
  /\ told' = (told \/ (~destroyed /\ r.exc # "ok"))

\* complete() throws; a destructor calls reg_pending_error() instead.
Ending(r, destroyed) ==
  /\ Served(r)
  /\ perr' = (perr \/ (destroyed /\ r.exc # "ok"))
  /\ told' = (told \/ (~destroyed /\ r.exc # "ok"))

\* base_close(): the stream is finished and the focus given up before the COPY ends.
Closed(destroyed) ==
  stream' = IF destroyed THEN NoStream
            ELSE [stream EXCEPT !.finished = TRUE, !.done = TRUE]

\* writer_close(), from complete() or from the destructor.
WriterClose(destroyed) ==
  /\ stream.kind = "writer"
  /\ Closed(destroyed)
  /\ IF stream.finished THEN UNCHANGED <<server, perr, told>>
     ELSE \E r \in EndCopyWrite : Ending(r, destroyed)
  /\ UNCHANGED <<null, tx, given, shown>>

----------------------------------------------------------------------------
(* The reader.                                                             *)

ReaderOpen ==
  /\ stream.kind = "none"
  /\ Exec(CopyOut, [kind |-> "reader", finished |-> FALSE, done |-> FALSE])
  /\ UNCHANGED null

\* The outcomes of ReadCopyLine(): a line, the end, or an exception.  Lines that
\* have arrived can be read although the link is gone.
ReadCopyLine ==
  IF ~is_open THEN {S(link, copy, doomed, wire, table, "internal")}
  ELSE IF copy # "out" THEN {S(link, copy, doomed, wire, table, "failure")}
  ELSE Lost("failure") \cup Lost("broken")
         \cup (IF link = "ok" THEN {S(link, "none", ~anew, <<>>, table, "sql")} ELSE {})
         \cup {IF wire = <<>> THEN S(link, "none", doomed, <<>>, table, "end")
               ELSE S(link, copy, doomed, Tail(wire), table, "ok")}

\* get_raw_line(): m_Done after the call that ended with r.
get_raw_line(r) == r.exc # "ok"

\* operator>>: the row in the line that was read.
Row == tokenize(wire[1], null)

Read ==
  /\ stream.kind = "reader" /\ ~stream.done
  /\ \E r \in ReadCopyLine :
       /\ Served(r)
       /\ stream' = [stream EXCEPT !.done = get_raw_line(r)]
       /\ IF r.exc = "ok"
          THEN /\ shown' = IF Row.exc = "ok" THEN Append(shown, Row.row) ELSE shown
               /\ Throws(Row.exc)
          ELSE Throws(IF r.exc = "end" THEN "ok" ELSE r.exc) /\ UNCHANGED shown
  /\ UNCHANGED <<null, tx, perr, given>>

\* Mutant: the lines that remain are left where they are.
Drained_Not == {S(link, copy, doomed, wire, table, "ok")}

\* reader_close() reads until there is nothing left: the end, or an exception.
Drained ==
  IF stream.done THEN {S(link, copy, doomed, wire, table, "ok")}
  ELSE IF ~is_open \/ copy # "out" THEN ReadCopyLine
  ELSE Lost("failure") \cup Lost("broken")
         \cup (IF link = "ok" THEN {S(link, "none", ~anew, <<>>, table, "sql")} ELSE {})
         \cup {S(link, "none", doomed, <<>>, table, "ok")}

\* Only a broken connection is thrown; anything else becomes the pending error.
ReaderClose(destroyed) ==
  /\ stream.kind = "reader"
  /\ Closed(destroyed)
  /\ IF stream.finished THEN UNCHANGED <<server, perr, told>>
     ELSE \E r \in Drained : Ending(r, destroyed \/ r.exc # "broken")
  /\ UNCHANGED <<null, tx, given, shown>>

----------------------------------------------------------------------------
\* The backend, or the network, goes down.
LinkLost ==
  /\ link = "ok"
  /\ link' = "cut" /\ doomed' = FALSE
  /\ table' = IF tx = "committed" THEN table ELSE Kept
  /\ UNCHANGED <<null, anew, copy, wire, client>>

Init ==
  /\ null \in Nulls
  /\ link = "ok" /\ anew = FALSE /\ copy = "none" /\ doomed = FALSE /\ wire = <<>> /\ table = <<>>
  /\ stream = NoStream /\ tx = "active" /\ perr = FALSE
  /\ given = <<>> /\ shown = <<>> /\ told = FALSE

Next ==
  \/ ClientExec \/ Commit \/ WriterOpen \/ ReaderOpen \/ Read \/ LinkLost
  \/ \E row \in First \cup Later : Insert(row)
  \/ \E destroyed \in BOOLEAN : WriterClose(destroyed) \/ ReaderClose(destroyed)

Spec == Init /\ [][Next]_vars

----------------------------------------------------------------------------
(* Properties.                                                             *)

\* Every piece of state has its type, a reader that is not done has a COPY to read
\* from (get_raw_line(), setup(), reader_close()), and the transaction goes on in a
\* session without its block only after some call has thrown (Exec(), activate()).
TypeOK ==
  /\ null \in Nulls /\ link \in {"ok", "cut", "bad"} /\ copy \in {"none", "in", "out"}
  /\ {anew, doomed, perr, told} \subseteq BOOLEAN /\ tx \in {"active", "committed", "over"}
  /\ Len(given) <= MaxRows /\ Len(table) <= Len(given) /\ Len(shown) <= Len(given)
  /\ stream.kind \in {"none", "writer", "reader"}
  /\ link = "ok" /\ stream.kind = "reader" /\ ~stream.done => copy = "out"
  /\ anew => told /\ ~doomed

\* writer_close(), ~tablewriter(), reg_pending_error(), CheckPendingError(): if no
\* call has thrown by the time commit() returns, the table has exactly the rows
\* that were written, also if the backend refused them while the stream was being
\* destroyed and nothing could be thrown.
WrittenIsCommitted ==
  tx = "committed" /\ ~told =>
    table = [i \in DOMAIN given |->
               [k \in DOMAIN given[i] |-> IF given[i][k] = null THEN NULL ELSE given[i][k]]]

\* Escape(), generate(), extract_field(), tokenize(): the reader returns the rows
\* that the writer was given, in their order, character by character, NULLs included;
\* after a reconnection, the rows that the lost block held are no longer there.
RowsReadBack ==
  ~anew => \A i \in DOMAIN shown : i \in DOMAIN given /\ shown[i] = given[i]

\* get_raw_line(), ReadCopyLine(): a reader that says it is done, and has not
\* thrown, has returned every row.
ReadsToTheEnd ==
  stream.kind = "reader" /\ stream.done /\ ~stream.finished /\ ~told => shown = given

\* reader_close(), writer_close(): the focus is given up before the COPY is ended,
\* but no call returns in between: whoever may use the transaction finds no COPY.
CopyEndsWithStream == link = "ok" /\ ~Focus => copy = "none"

\* What is read is what was written, all of it and nothing else.
ReadFaithfully == RowsReadBack /\ ReadsToTheEnd

\* The stream object, the transaction's focus and the COPY in the backend begin
\* and end together.
StreamsInStep == TypeOK /\ CopyEndsWithStream
=============================================================================
