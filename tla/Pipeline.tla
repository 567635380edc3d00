------------------------------ MODULE Pipeline ------------------------------
(***************************************************************************)
(* pipeline (src/pipeline.cxx): queries are inserted, sent to the backend  *)
(* in batches, and their results collected one by one as they arrive.      *)
(*                                                                         *)
(* A member function is an operator from a state s to the set of its       *)
(* outcomes [s, exc, more]: the state it leaves, "ok" or the exception     *)
(* thrown, and its return value where the code uses one.  s has the fields *)
(*   queries  m_queries: id -> [text, res]; text is "good", "fails" (the   *)
(*            backend rejects it when it runs) or "garbled" (when it       *)
(*            parses it)                                                   *)
(*   first, second   m_issuedrange, two iterators: an id, or End           *)
(*   retain, waiting, q_id, dummy, error   m_retain, m_num_waiting, m_q_id,*)
(*            m_dummy_pending, m_error                                     *)
(*   reg      m_registered: the pipeline holds the transaction's focus     *)
(*   st       the transaction's status                                     *)
(*   w        the connection and its session (Connection, Backend)         *)
(*   in       what PQgetResult is still going to deliver                   *)
(*   ran      ids in the order in which the backend ran them               *)
(*   got      the result that the last retrieve() took out                 *)
(*                                                                         *)
(* The backend runs a batch when it is sent; how much of the answer has    *)
(* arrived is left open, so is_busy() may answer either way.               *)
(***************************************************************************)
EXTENDS Connection, Sequences, FiniteSets, FiniteSetsExt, SequencesExt

CONSTANTS
  QidLimit,    \* qid_limit()
  MaxInsert,   \* bound on the queries inserted
  MaxRetain,   \* bound on retain()
  Uses         \* the circumstances to look at, a set of Circumstances

\* bracketed   the transaction is a dbtransaction, not a nontransaction
\* lossy       the link can be lost
\* cancelling  "never": the client neither cancels nor destroys a pipeline that
\*             is at work; "works": it does; "may_fail": and PQcancel may fail
Circumstances ==
  [bracketed : BOOLEAN, lossy : BOOLEAN,
   cancelling : {"never", "works", "may_fail"}]

ASSUME ConstantsAssumption ==
  /\ QidLimit \in Nat \ {0} /\ MaxInsert \in Nat /\ MaxRetain \in Nat
  /\ Uses \subseteq Circumstances

VARIABLES
  use,     \* the circumstances, chosen at the start
  s,       \* the pipeline, its transaction and connection
  last     \* a complete() or retrieve() that has just returned: [op, id, exc]

vars == <<use, s, last>>

End == QidLimit + 1

\* Results: of which query (0: the dummy, -1: another pipeline's), and how it
\* ended.  "null" is PQgetResult's null pointer at the end of a batch, "cut"
\* the place where a lost link ends the answer.
Res(id, st) == [of |-> id, st |-> st]
NoResult == Res(0, "none")
Null == Res(0, "null")
Cut == Res(0, "cut")

Ok(x) == [s |-> x, exc |-> "ok", more |-> TRUE]
Done(x) == [s |-> x, exc |-> "ok", more |-> FALSE]
Throw(x, exc) == [s |-> x, exc |-> exc, more |-> FALSE]

\* Statement sequence: F runs unless an exception was thrown.
Seq2(os, F(_)) == UNION {IF o.exc = "ok" THEN F(o.s) ELSE {o} : o \in os}

\* A while loop whose body runs at most n times and says by "more" whether to
\* go on.
While(os, Body(_), n) ==
  FoldLeft(LAMBDA acc, i : UNION {IF o.more THEN Body(o.s) ELSE {o} : o \in acc},
           os, [i \in 1..n |-> i])

\* The connection's outcomes; results in transit die with the handle.
OnConn(x, os) ==
  {[s |-> [x EXCEPT !.w = o.w,
                    !.in = IF is_open(x.w) /\ is_open(o.w) THEN @ ELSE <<>>],
    exc |-> o.exc, more |-> TRUE] : o \in os}

Ids(x) == DOMAIN x.queries

\* ++iterator
After(x, k) ==
  LET later == {j \in Ids(x) : j > k} IN
  IF later = {} THEN End ELSE Min(later)

Between(x, lo, hi) == {k \in Ids(x) : lo <= k /\ k < hi}

have_pending(x) == x.second # x.first

set_error_at(x, k) == [x EXCEPT !.error = IF k < @ THEN k ELSE @]

----------------------------------------------------------------------------
(* The connection, as the pipeline uses it.                                *)

get_result(x) ==
  IF x.w.handle = "none" THEN [s |-> x, exc |-> "broken", r |-> Null]
  ELSE IF x.in = <<>> THEN [s |-> x, exc |-> "ok", r |-> Null]
  ELSE IF Head(x.in) = Cut
       THEN [s |-> [x EXCEPT !.w = Lost(@), !.in = <<>>], exc |-> "ok", r |-> Cut]
  ELSE [s |-> [x EXCEPT !.in = Tail(@)], exc |-> "ok", r |-> Head(x.in)]

consume_input(x) ==
  IF ~is_open(x.w) THEN {Throw(x, "broken")}
  ELSE {Ok(x)} \cup (IF x.w.alive THEN {}
                     ELSE {Throw([x EXCEPT !.w = Lost(@)], "broken")})

is_busy(x) == IF x.in = <<>> THEN {FALSE} ELSE BOOLEAN

\* How the backend answers a batch.  It parses the whole string before it runs
\* any of it, stops at the first query that fails, and rolls back what the
\* string did so far: outside a block the string is a transaction of its own.
RunBatch(x, ids) ==
  LET text(i)  == x.queries[ids[i]].text
      dummy    == Len(ids) > 1
      bad      == {i \in DOMAIN ids : text(i) = "fails"}
      n        == IF bad = {} THEN Len(ids) ELSE Min(bad)
      refused  == \/ x.w.tx = "failed"
                  \/ \E i \in DOMAIN ids : text(i) = "garbled"
      answer   == IF refused THEN <<Res(IF dummy THEN 0 ELSE ids[1], "error")>>
                  ELSE (IF dummy THEN <<Res(0, "ok")>> ELSE <<>>)
                       \o [i \in 1..n |-> Res(ids[i], IF i \in bad THEN "error"
                                                                  ELSE "ok")]
      failure  == [x.w EXCEPT !.tx = Doom(@), !.work = {}]
      success  == IF x.w.tx = "idle" THEN [x.w EXCEPT !.db = @ \cup Range(ids)]
                                     ELSE [x.w EXCEPT !.work = @ \cup Range(ids)]
  IN [x EXCEPT !.w = IF refused \/ bad # {} THEN failure ELSE success,
               !.in = Append(answer, Null),
               !.ran = IF refused THEN @ ELSE @ \o SubSeq(ids, 1, n)]

\* PQsendQuery on a link that is gone may notice, or lose the query.
start_exec(x, ids) ==
  Seq2(OnConn(x, activate(x.w)),
       LAMBDA y : IF ~is_open(y.w) \/ y.in # <<>> THEN {Throw(y, "failure")}
                  ELSE IF y.w.alive THEN {Ok(RunBatch(y, ids))}
                  ELSE {Ok([y EXCEPT !.in = <<Cut>>]),
                        Throw([y EXCEPT !.w = Lost(@)], "failure")})

\* connection_base::Exec() over a link that is lost only if it can be.
ConnExec(v, op, eff) == {o \in Exec(v, op, eff) : use.lossy \/ o.w.alive}

\* transaction_base::exec() of one query (ids is empty for a query of the
\* client's own): PQexec drops whatever results are still in transit, and a
\* dbtransaction aborts when the query fails.
TransExec(x, ids, text) ==
  IF x.st # "active" THEN {Throw(x, "usage")}
  ELSE LET sent == [x EXCEPT !.in = <<>>,
                             !.ran = IF text = "garbled" \/ x.w.tx = "failed"
                                     THEN @ ELSE @ \o ids]
           outs == {o \in ConnExec(x.w, "SQL", Range(ids)) :
                      /\ o.exc = "ok" => text = "good"
                      /\ o.exc = "sql" => text # "good" \/ x.w.tx = "failed"}
       IN UNION {IF o.exc = "ok" THEN OnConn(sent, {o})
                 ELSE IF ~use.bracketed THEN OnConn(sent, {o})
                 ELSE {[s |-> [sent EXCEPT !.w = a.w, !.st = "aborted"],
                        exc |-> o.exc, more |-> TRUE] :
                       a \in ConnExec(o.w, "ROLLBACK", {})} : o \in outs}

----------------------------------------------------------------------------
(* The pipeline's private functions.                                       *)

attach(x) == [x EXCEPT !.reg = TRUE]
detach(x) == [x EXCEPT !.reg = FALSE]

\* The code also checks that the oldest pending query has no rows yet; TypeOK says
\* that it never has.
obtain_result(x, expect_none) ==
  LET g == get_result(x) IN
  IF g.exc # "ok" THEN {Throw(g.s, g.exc)}
  ELSE IF g.r = Null
  THEN {Done(IF have_pending(x) /\ ~expect_none
             THEN [set_error_at(g.s, x.first) EXCEPT !.second = x.first]
             ELSE g.s)}
  ELSE Seq2(OnConn(g.s, activate(g.s.w)),
         LAMBDA y :
           IF ~have_pending(y)
           THEN {Throw(set_error_at(y, Min(Ids(y))), "logic")}
           ELSE {Ok([y EXCEPT !.queries[y.first].res = g.r,
                              !.first = After(y, @)])})

\* One query of a batch that the backend refused as a whole.
ReplayOne(x, k) ==
  {IF o.exc = "ok"
   THEN [o EXCEPT !.s.queries[k].res = Res(k, "ok"), !.s.first = After(o.s, k)]
   ELSE o :
   o \in TransExec([x EXCEPT !.waiting = @ - 1], <<k>>, x.queries[k].text)}

\* Mutant: the query that failed loses its result, too.
Blame_Itself(x) ==
  LET next == After(x, x.first) IN
  [set_error_at(x, x.first) EXCEPT !.first = next, !.second = next]

\* The catch block: the query that failed is the last one to have a result.
Blame(x) ==
  LET next == After(x, x.first) IN
  [set_error_at(x, IF next = End THEN x.first + 1 ELSE next)
     EXCEPT !.first = next, !.second = next]

Replay(x, stop) ==
  LET batch == Between(x, x.first, stop)
      start == [x EXCEPT !.waiting = @ + Cardinality(batch), !.second = x.first,
                         !.reg = FALSE]
  IN {IF o.exc = "ok" THEN o ELSE Done(Blame(o.s)) :
      o \in FoldLeft(LAMBDA os, k : Seq2(os, LAMBDA y : ReplayOne(y, k)),
                     {Ok(start)}, SetToSortSeq(batch, <))}

obtain_dummy(x) ==
  LET g == get_result(x)
      y == [g.s EXCEPT !.dummy = FALSE]
  IN IF g.exc # "ok" THEN {Throw(x, g.exc)}
     ELSE IF g.r = Null THEN {Throw(set_error_at(y, 0), "internal")}
     ELSE Seq2(OnConn(y, activate(y.w)),
            LAMBDA z :
              IF g.r.st = "ok"
              THEN {IF g.r.of = 0 THEN Ok(z)
                                  ELSE Throw(set_error_at(z, 0), "internal")}
              ELSE LET all == [z EXCEPT !.queries =
                                 [k \in Ids(z) |->
                                    IF k \in Between(z, z.first, z.second)
                                    THEN [z.queries[k] EXCEPT !.res = g.r]
                                    ELSE z.queries[k]]]
                   IN Seq2(obtain_result(all, TRUE),
                           LAMBDA v : Replay(v, z.second)))

get_further_available_results(x) ==
  While({Ok(x)},
        LAMBDA y :
          UNION {IF busy THEN {Done(y)}
                 ELSE UNION {IF o.more THEN consume_input(o.s) ELSE {o} :
                             o \in obtain_result(y, FALSE)} :
                 busy \in is_busy(y)},
        Len(x.in) + 1)

receive_if_available(x) ==
  Seq2(consume_input(x),
       LAMBDA y :
         UNION {IF busy THEN {Ok(y)}
                ELSE Seq2(IF y.dummy THEN obtain_dummy(y) ELSE {Ok(y)},
                          LAMBDA z : IF have_pending(z)
                                     THEN get_further_available_results(z)
                                     ELSE {Ok(z)}) :
                busy \in is_busy(y)})

receive(x, stop) ==
  Seq2(IF x.dummy THEN obtain_dummy(x) ELSE {Ok(x)},
       LAMBDA y :
         Seq2(While({Ok(y)},
                    LAMBDA z : {[o EXCEPT !.more = @ /\ o.s.first # stop] :
                                o \in obtain_result(z, FALSE)},
                    Len(y.in) + 1),
              LAMBDA z : IF z.first = stop
                         THEN get_further_available_results(z) ELSE {Ok(z)}))

\* Mutant: the batch starts with the oldest query, not the oldest unissued one.
Unissued_All(x) == Ids(x)

Unissued(x) == Between(x, x.second, End)

\* Mutant: the dummy's result is not expected.
Sent_NoDummy(x, oldest, n) ==
  [x EXCEPT !.first = oldest, !.second = End, !.waiting = @ - n]

\* Mutant: the batch counts as one query.
Sent_OneLess(x, oldest, n) ==
  [x EXCEPT !.dummy = n > 1, !.first = oldest, !.second = End, !.waiting = @ - 1]

Sent(x, oldest, n) ==
  [x EXCEPT !.dummy = n > 1, !.first = oldest, !.second = End, !.waiting = @ - n]

\* The null result of the previous batch is collected first.  After an error
\* nothing more is sent.
issue(x) ==
  Seq2(obtain_result(x, FALSE),
       LAMBDA y :
         IF y.error < QidLimit THEN {Ok(y)}
         ELSE LET ids == SetToSortSeq(Unissued(y), <) IN
              Seq2(start_exec(y, ids),
                   LAMBDA z : {Ok(Sent(z, y.second, Len(ids)))}))

----------------------------------------------------------------------------
(* The pipeline's public functions.                                        *)

\* generate_id() has just made id k.
AddQuery(x, k, text) ==
  [x EXCEPT !.q_id = k,
            !.queries = [j \in Ids(x) \cup {k} |->
                           IF j = k THEN [text |-> text, res |-> NoResult]
                                    ELSE x.queries[j]],
            !.second = IF @ = End THEN k ELSE @,
            !.first = IF x.second = End /\ @ = End THEN k ELSE @,
            !.waiting = @ + 1]

insert(x, text) ==
  IF x.q_id = QidLimit THEN {Throw(attach(x), "overflow")}
  ELSE LET y == AddQuery(attach(x), x.q_id + 1, text) IN
       IF y.waiting <= y.retain THEN {Ok(y)}
       ELSE Seq2(IF have_pending(y) THEN receive_if_available(y) ELSE {Ok(y)},
                 LAMBDA z : IF have_pending(z) THEN {Ok(z)} ELSE issue(z))

complete(x) ==
  Seq2(IF have_pending(x) THEN receive(x, x.second) ELSE {Ok(x)},
       LAMBDA y :
         Seq2(IF y.waiting > 0 /\ y.error = QidLimit
              THEN Seq2(issue(y), LAMBDA z : receive(z, End)) ELSE {Ok(y)},
              LAMBDA z : {Ok(detach(z))}))

flush(x) ==
  IF Ids(x) = {} THEN {Ok(detach(x))}
  ELSE Seq2(IF have_pending(x) THEN receive(x, x.second) ELSE {Ok(x)},
            LAMBDA y : {Ok(detach([y EXCEPT !.queries = <<>>, !.first = End,
                                            !.second = End, !.waiting = 0,
                                            !.dummy = FALSE]))})

\* The n oldest pending queries are forgotten.  Their results, and the dummy's,
\* stay in transit.
Forget(x, n) ==
  LET ids  == SetToSortSeq(Between(x, x.first, x.second), <)
      gone == Range(SubSeq(ids, 1, n))
  IN [x EXCEPT !.queries = [k \in Ids(x) \ gone |-> x.queries[k]],
               !.first = IF n = Len(ids) THEN x.second ELSE ids[n + 1]]

\* One PQcancel for each pending query: it may fail, and one that works may hit
\* the batch before it is done.
cancel(x) ==
  LET n == Cardinality(Between(x, x.first, x.second))
      y == Forget(x, n)
  IN {Ok(y)}
     \cup (IF use.cancelling = "may_fail"
           THEN {Throw(Forget(x, i), "sql") : i \in 0..(n - 1)} ELSE {})
     \cup (IF n > 0 THEN {Ok([y EXCEPT !.w.tx = Doom(@), !.w.work = {}])} ELSE {})

is_finished(x, k) == x.first = End \/ (k < x.first /\ k < x.error)

resume(x) ==
  Seq2(IF have_pending(x) THEN receive_if_available(x) ELSE {Ok(x)},
       LAMBDA y : IF ~have_pending(y) /\ y.waiting > 0
                  THEN Seq2(issue(y), receive_if_available) ELSE {Ok(y)})

retain(x, n) ==
  LET y == [x EXCEPT !.retain = n] IN
  IF y.waiting >= n THEN resume(y) ELSE {Ok(y)}

\* The part of retrieve() that sees to it that the result of k is there.
Fetch(x, k) ==
  Seq2(IF x.second # End /\ k >= x.second
       THEN Seq2(IF have_pending(x) THEN receive(x, x.second) ELSE {Ok(x)},
                 LAMBDA y : IF y.error = QidLimit THEN issue(y) ELSE {Ok(y)})
       ELSE {Ok(x)},
       LAMBDA y : IF ~have_pending(y) THEN {Ok(y)}
                  ELSE IF k >= y.first THEN receive(y, After(y, k))
                  ELSE receive_if_available(y))

\* The query is gone from the pipeline whether its result is good or not.
retrieve(x, k) ==
  IF k >= x.error THEN {Throw(x, "runtime")}
  ELSE Seq2(Fetch(x, k),
         LAMBDA y :
           IF k >= y.error THEN {Throw(y, "runtime")}
           ELSE Seq2(IF y.waiting > 0 /\ ~have_pending(y) /\ y.error = QidLimit
                     THEN issue(y) ELSE {Ok(y)},
                     LAMBDA z :
                       LET v == [z EXCEPT !.got = z.queries[k].res,
                                          !.queries = [j \in Ids(z) \ {k} |->
                                                         z.queries[j]]]
                       IN {CASE v.got.st = "ok"    -> Ok(v)
                             [] v.got.st = "error" -> Throw(v, "sql")
                             [] OTHER              -> Throw(v, "no_result")}))

\* A new pipeline on a transaction in status st.  What an earlier one left in
\* transit is none of its own, and what its queries did is no longer followed.
NewPipe(v, in, st) ==
  [queries |-> <<>>, first |-> End, second |-> End, retain |-> 0, waiting |-> 0,
   q_id |-> 0, dummy |-> FALSE, error |-> QidLimit, reg |-> TRUE,
   w |-> [v EXCEPT !.work = {}, !.db = {}],
   in |-> [i \in DOMAIN in |-> IF in[i] \in {Null, Cut} THEN in[i]
                               ELSE Res(-1, in[i].st)],
   st |-> st, ran |-> <<>>, got |-> NoResult]

----------------------------------------------------------------------------
Told(op, id, exc) == [op |-> op, id |-> id, exc |-> exc]

NoCall == Told("none", 0, "ok")

\* A call ends with outcome o; what an earlier retrieve() took out is forgotten.
Returned(o) ==
  /\ s' = [o.s EXCEPT !.got = NoResult]
  /\ last' = NoCall
  /\ UNCHANGED use

Insert(text) ==
  /\ s.q_id < MaxInsert
  /\ \E o \in insert(s, text) : Returned(o)

Complete ==
  \E o \in complete(s) :
    /\ s' = [o.s EXCEPT !.got = NoResult]
    /\ last' = Told("complete", 0, o.exc)
    /\ UNCHANGED use

Flush == \E o \in flush(s) : Returned(o)

Cancel ==
  use.cancelling # "never" /\ \E o \in cancel(s) : Returned(o)

Retain(n) == \E o \in retain(s, n) : Returned(o)

Resume == \E o \in resume(s) : Returned(o)

Retrieve(k) ==
  /\ k \in Ids(s)
  /\ \E o \in retrieve(s, k) : s' = o.s /\ last' = Told("retrieve", k, o.exc)
  /\ UNCHANGED use

\* ~pipeline() cancels and detaches, whatever cancel() throws; the client then
\* makes another pipeline on the same transaction.
Renew ==
  /\ have_pending(s) => use.cancelling # "never"
  /\ \E o \in cancel(s) : Returned(Ok(NewPipe(o.s.w, o.s.in, o.s.st)))

\* The client uses the transaction itself, which it can while the pipeline is
\* detached.
ClientExec ==
  /\ ~s.reg
  /\ \E o \in TransExec(s, <<>>, "good") : Returned(o)

\* The link goes; some of the answer may have arrived before.
LinkLost ==
  /\ use.lossy /\ is_open(s.w) /\ s.w.alive
  /\ \E in \in {s.in} \cup {SubSeq(s.in, 1, n) \o <<Cut>> : n \in 0..(Len(s.in) - 1)} :
       Returned(Ok([s EXCEPT !.w = Gone(@), !.in = in]))

Init ==
  /\ use \in Uses
  /\ s = NewPipe([handle |-> "ok", alive |-> TRUE,
                  tx |-> IF use.bracketed THEN "open" ELSE "idle", copy |-> FALSE,
                  work |-> {}, db |-> {}, inhibit |-> FALSE, avoid |-> 0,
                  trans |-> NoTrans], <<>>, "active")
  /\ last = NoCall

Next ==
  \/ \E text \in {"good", "fails", "garbled"} : Insert(text)
  \/ Complete \/ Flush \/ Cancel \/ Resume \/ Renew \/ ClientExec \/ LinkLost
  \/ \E n \in 0..MaxRetain : Retain(n)
  \/ \E k \in Ids(s) : Retrieve(k)

Spec == Init /\ [][Next]_vars

----------------------------------------------------------------------------
(* Properties.                                                             *)

Pending == Between(s, s.first, s.second)

\* The iterators of m_issuedrange are in order and point at queries that are
\* still in the map, and no query in the range has succeeded yet (retrieve() and
\* cancel() erase, obtain_result() and obtain_dummy() move the iterators).
TypeOK ==
  /\ Ids(s) \subseteq 1..s.q_id
  /\ s.first \in Ids(s) \cup {End} /\ s.second \in Ids(s) \cup {End}
  /\ s.first <= s.second
  /\ \A k \in Pending : s.queries[k].res.st # "ok"
  /\ s.error \in 0..QidLimit /\ s.waiting \in Nat /\ s.dummy \in BOOLEAN
  /\ s.w.handle \in Handle /\ s.st \in {"active", "aborted"}

\* issue() and the replay in obtain_dummy(): the backend runs the queries in the
\* order of insertion and none of them twice, though a batch that is refused is
\* sent again query by query.
RunsInOrderOnce ==
  \A i, j \in DOMAIN s.ran : i < j => s.ran[i] < s.ran[j]

\* obtain_result() and obtain_dummy(): each query gets the result that belongs
\* to it, or the error message of the batch it was refused with; what retrieve()
\* returns normally is the result of a query that the backend ran.
OwnResult ==
  /\ \A k \in Ids(s) :
       LET r == s.queries[k].res IN
       r.st # "none" => r.of = k \/ (r.of = 0 /\ r.st = "error")
  /\ last.op = "retrieve" =>
       /\ last.exc # "no_result"
       /\ last.exc = "ok" => s.got = Res(last.id, "ok") /\ last.id \in Range(s.ran)

\* complete(), flush() and the replay give up the transaction's focus only when
\* no results are in transit that the client's next exec() would throw away.
FocusWhilePending == ~s.reg => ~have_pending(s)

\* m_num_waiting counts the queries from m_issuedrange.second on, so that no
\* query is left behind when batches are sent.
WaitingIsCounted ==
  s.error = QidLimit => s.waiting = Cardinality(Between(s, s.second, End))

\* is_finished(): a query is reported finished only if retrieve() will not have
\* to wait for it.
FinishedMeansResult ==
  \A k \in Ids(s) : is_finished(s, k) => s.queries[k].res # NoResult

\* complete(): when it returns, every query has its result, or comes after one
\* that failed.
CompleteIsComplete ==
  last.op = "complete" /\ last.exc = "ok" =>
    \A k \in Ids(s) : is_finished(s, k) \/ k >= s.error

\* retrieve() refuses a query "due to error in earlier query" only if the backend
\* has not run it and never will, as long as the link holds and nothing is
\* cancelled.
RefusedIsNotRun ==
  ~use.lossy /\ use.cancelling = "never" =>
    \A k \in Ids(s) : k >= s.error => k \notin Range(s.ran)

\* The pipeline's own bookkeeping agrees with what is in transit: iterators,
\* counts, focus, and what is_finished() and complete() say.
BookkeepingTrue ==
  /\ TypeOK
  /\ FocusWhilePending
  /\ WaitingIsCounted
  /\ FinishedMeansResult
  /\ CompleteIsComplete
=============================================================================
