------------------------------- MODULE Nested -------------------------------
(***************************************************************************)
(* Work that is retried and work that is nested: connection_base::perform  *)
(* with a transactor (transactor.hxx), whose body runs statements in the   *)
(* transaction it is given and in subtransactions of it                    *)
(* (subtransaction.cxx).                                                   *)
(*                                                                         *)
(* The transaction of each attempt is an object of module Transaction; a   *)
(* world has one more field here:                                          *)
(*   saves    the backend's savepoints, outermost first: whose they are,   *)
(*            and the work that was there when they were set               *)
(* The subtransactions form a stack, subs, innermost last.  They have the  *)
(* fields of a transaction object and a name of their own, sp; what they do not have is a registration *)
(* with the connection, or with their parent: a subtransaction is a        *)
(* transactionfocus that never calls register_me().                        *)
(***************************************************************************)
EXTENDS Transaction, Sequences, SequencesExt

CONSTANTS MaxDepth,      \* bound on the nesting
          MaxStatements, \* bound on the statements of one attempt
          MaxSubs,       \* bound on the subtransactions of one attempt
          Liberties,     \* what else the body may do, of AllLiberties
          Rejects        \* savepoint commands the backend may refuse

\* Commit X with a subtransaction open; open a subtransaction in one that has
\* not executed anything yet; use them without inhibit_reactivation(true).
AllLiberties == {"open_at_commit", "open_in_nascent", "uninhibited"}

ASSUME NestedAssumption ==
  /\ IsFiniteSet(Tx)
  /\ {MaxDepth, MaxStatements, MaxSubs} \subseteq Nat
  /\ Liberties \subseteq AllLiberties
  /\ Rejects \subseteq {"SAVEPOINT", "RELEASE"}
  /\ Effect = Tx \X (1..MaxStatements)

VARIABLES subs,   \* the subtransactions in scope: [o, sp, done]
          perf    \* perform(): where it is (pc), which object X is (x), the
                  \*   attempts left, the exception under way, and how often
                  \*   on_abort(), on_commit() and on_doubt() were called

nvars == <<w, obj, tried, done, subs, perf>>

----------------------------------------------------------------------------
(* Savepoints in the backend.                                              *)

Find(v, sp) == {i \in DOMAIN v.saves : v.saves[i].sp = sp}

\* An error outside a block dooms nothing.
Refused(v) == {[w |-> [v EXCEPT !.tx = Doom(v.tx), !.work = {}], res |-> "error"]}

SaveAnswers(v, op, sp) ==
  LET at == Find(v, sp)
      i  == CHOOSE k \in at : TRUE
      to == v.saves[i].work
  IN CASE op = "SAVEPOINT" /\ v.tx = "open" ->
            {[w |-> [v EXCEPT !.saves = Append(@, [sp |-> sp, work |-> v.work])],
              res |-> "ok"]}
       [] op = "RELEASE" /\ v.tx = "open" /\ at # {} ->
            {[w |-> [v EXCEPT !.saves = SubSeq(@, 1, i - 1)], res |-> "ok"]}
       [] op = "ROLLBACK TO" /\ v.tx # "idle" /\ at # {} ->
            {[w |-> [v EXCEPT !.saves = SubSeq(@, 1, i), !.tx = "open", !.work = to],
              res |-> "ok"]}
       [] OTHER -> Refused(v)

PQsave(v, op, sp) ==
  IF v.handle # "ok" THEN {[w |-> v, res |-> "none"]}
  ELSE IF ~v.alive THEN {[w |-> Lost(v), res |-> "none"]}
  ELSE SaveAnswers(v, op, sp) \cup {[w |-> Lost(v), res |-> "none"]}
         \cup (IF op \in Rejects THEN Refused(v) ELSE {})

\* connection_base::Exec() of a savepoint command.
ExecSave(x, op, sp) ==
  Lift(x, Then(activate(x.w), LAMBDA v :
    Then(UNION {Then(make_result(r.w), LAMBDA u : {check_result(u, r.res)}) :
                r \in PQsave(v, op, sp)},
         get_notifs)))

----------------------------------------------------------------------------
(* subtransaction, as operators on x = [w, o]; sp is its name.             *)

sub_do_begin(x, sp) == ExecSave(x, "SAVEPOINT", sp)

sub_do_commit(x, sp) == ExecSave(x, "RELEASE", sp)

\* Mutant: nothing is rolled back.
sub_do_abort_Nothing(x, sp) == {Ret(x, "ok")}

sub_do_abort(x, sp) == ExecSave(x, "ROLLBACK TO", sp)

\* transaction_base::abort(): what do_abort() throws is swallowed.
sub_abort(x, sp) ==
  CASE x.o.st = "nascent"   -> {Ret(SetStatus(x, "aborted"), "ok")}
    [] x.o.st = "active"    -> {Ret(SetStatus(r.x, "aborted"), "ok") :
                                r \in sub_do_abort(x, sp)}
    [] x.o.st = "committed" -> {Ret(x, "usage")}
    [] OTHER                -> {Ret(x, "ok")}

\* transaction_base::End(), from the destructor.
sub_End(x, sp) == IF x.o.st = "active" THEN sub_abort(x, sp) ELSE {Ret(x, "ok")}

\* transaction_base::activate() and Begin(): the savepoint is set on first use.
\* A Begin() that fails leaves the object nascent.
sub_activate(x, sp) ==
  CASE x.o.st = "active"  -> {Ret(x, "ok")}
    [] x.o.st = "nascent" ->
         UNION {IF n.exc # "ok" THEN {n}
                ELSE {IF r.exc = "ok" THEN Ret(SetStatus(r.x, "active"), "ok") ELSE r :
                      r \in sub_do_begin(n.x, sp)} :
                n \in Lift(x, get_notifs(x.w))}
    [] OTHER -> {Ret(x, "usage")}

\* transaction_base::exec() and dbtransaction::do_exec().
sub_exec(x, sp, eff) ==
  UNION {IF a.exc # "ok" THEN {a}
         ELSE UNION {IF r.exc = "ok" THEN {r}
                     ELSE {Ret(b.x, r.exc) : b \in sub_abort(r.x, sp)} :
                     r \in DirectExec(a.x, "SQL", eff)} :
         a \in sub_activate(x, sp)}

\* transaction_base::commit().  There is no in-doubt state for a RELEASE.
sub_commit(x, sp) ==
  CASE x.o.st \in {"nascent", "committed"} -> {Ret(x, "ok")}
    [] x.o.st = "active" ->
         IF ~is_open(x.w) THEN {Ret(x, "broken")}
         ELSE {Ret(SetStatus(r.x, IF r.exc = "ok" THEN "committed" ELSE "aborted"), r.exc) :
               r \in sub_do_commit(x, sp)}
    [] OTHER -> {Ret(x, "usage")}

----------------------------------------------------------------------------
(* What a call leaves behind.  Savepoints die with their block.            *)

World(v) == w' = IF v.tx = "idle" THEN [v EXCEPT !.saves = <<>>] ELSE v

Depth == Len(subs)

This2 == [w |-> w, o |-> subs[Depth].o]

Name == subs[Depth].sp

\* adorn_name(): a number no other object of the connection has.
FreshName ==
  1 + Max({0} \cup {w.saves[i].sp : i \in DOMAIN w.saves}
              \cup {subs[i].sp : i \in DOMAIN subs})

Statement2(t) == <<t, Cardinality(tried[t]) + 1>>

\* The innermost subtransaction's call leaves r.  What a committed one did now
\* belongs to the one around it.
SubResult(r, eff) ==
  LET t  == perf.x
      d  == subs[Depth].done \cup (IF r.exc = "ok" THEN eff ELSE {})
      up == r.x.o.st = "committed"
      s2 == [subs EXCEPT ![Depth].o = r.x.o, ![Depth].done = IF up THEN {} ELSE d]
  IN /\ World(r.x.w)
     /\ tried' = [tried EXCEPT ![t] = @ \cup eff]
     /\ subs' = IF up /\ Depth > 1 THEN [s2 EXCEPT ![Depth - 1].done = @ \cup d] ELSE s2
     /\ done' = [done EXCEPT ![t] = IF up /\ Depth = 1 THEN @ \cup d ELSE @]
     /\ UNCHANGED obj

\* The body goes on, or an exception leaves it.  Around a subtransaction it may
\* have a handler for SQL errors, as the class's documentation shows.
Flow(exc, handlers) ==
  perf' \in {[perf EXCEPT !.pc = IF exc = "ok" THEN "body" ELSE "throwing", !.exc = exc]}
              \cup (IF exc = "sql" /\ handlers
                    THEN {[perf EXCEPT !.pc = "handling", !.exc = "ok"]} ELSE {})

XResult(r, eff) ==
  /\ World(r.x.w)
  /\ obj' = [obj EXCEPT ![perf.x] = r.x.o]
  /\ tried' = [tried EXCEPT ![perf.x] = @ \cup eff]
  /\ done' = [done EXCEPT ![perf.x] = IF r.exc = "ok" THEN @ \cup eff ELSE @]
  /\ UNCHANGED subs

----------------------------------------------------------------------------
(* perform().                                                              *)

\* Mutant: an attempt is not counted.
Attempt_Uncounted ==
  /\ perf.pc = "loop"
  /\ \E t \in Tx :
       /\ obj[t].st = "absent" /\ w.trans = NoTrans
       /\ LET x == [w |-> [w EXCEPT !.trans = t],
                    o |-> [Absent EXCEPT !.live = TRUE, !.st = "nascent", !.reg = TRUE]]
          IN \E n \in Lift(x, get_notifs(x.w)) :
             \E r \in (IF n.exc = "ok" THEN do_begin(n.x, "transaction") ELSE {n}) :
               IF r.exc = "ok"
               THEN /\ World(r.x.w)
                    /\ obj' = [obj EXCEPT ![t] = SetStatus(r.x, "active").o]
                    /\ perf' = [perf EXCEPT !.pc = "body", !.x = t, !.opened = 0]
               ELSE /\ World(Unregister(r.x).w)
                    /\ perf' = [perf EXCEPT !.pc = "throwing", !.exc = r.exc]
                    /\ UNCHANGED obj
  /\ UNCHANGED <<tried, done, subs>>

\* --Attempts, a copy of the transactor, and a transaction for it.
Attempt ==
  /\ perf.pc = "loop"
  /\ \E t \in Tx :
       /\ obj[t].st = "absent" /\ w.trans = NoTrans
       /\ LET x == [w |-> [w EXCEPT !.trans = t],
                    o |-> [Absent EXCEPT !.live = TRUE, !.st = "nascent", !.reg = TRUE]]
          IN \E n \in Lift(x, get_notifs(x.w)) :
             \E r \in (IF n.exc = "ok" THEN do_begin(n.x, "transaction") ELSE {n}) :
               IF r.exc = "ok"
               THEN /\ World(r.x.w)
                    /\ obj' = [obj EXCEPT ![t] = SetStatus(r.x, "active").o]
                    /\ perf' = [perf EXCEPT !.pc = "body", !.x = t, !.left = @ - 1,
                                               !.opened = 0]
               ELSE /\ World(Unregister(r.x).w)
                    /\ perf' = [perf EXCEPT !.pc = "throwing", !.exc = r.exc, !.left = @ - 1]
                    /\ UNCHANGED obj
  /\ UNCHANGED <<tried, done, subs>>

InBody == perf.pc = "body"

MayExec == Cardinality(tried[perf.x]) < MaxStatements

\* T2(X): a statement in X itself.
BodyExec ==
  /\ InBody /\ subs = <<>> /\ MayExec
  /\ LET e == {Statement2(perf.x)}
     IN \E r \in exec(This(perf.x), "transaction", "SQL", e) :
          XResult(r, e) /\ Flow(r.exc, FALSE)

\* The body throws something of its own: "std" is a std::exception.
BodyThrow(exc) ==
  /\ InBody /\ subs = <<>>
  /\ perf' = [perf EXCEPT !.pc = "throwing", !.exc = exc]
  /\ UNCHANGED <<w, obj, tried, done, subs>>

SubOpen ==
  /\ InBody /\ Depth < MaxDepth /\ perf.opened < MaxSubs
  /\ w.inhibit \/ "uninhibited" \in Liberties
  /\ Depth > 0 => \/ subs[Depth].o.st = "active"
                  \/ subs[Depth].o.st = "nascent" /\ "open_in_nascent" \in Liberties
  /\ subs' = Append(subs, [o |-> [Absent EXCEPT !.live = TRUE, !.st = "nascent"],
                           sp |-> FreshName, done |-> {}])
  /\ perf' = [perf EXCEPT !.opened = @ + 1]
  /\ UNCHANGED <<w, obj, tried, done>>

SubUsable == InBody /\ subs # <<>> /\ subs[Depth].o.st \in {"nascent", "active"}

SubExec ==
  /\ SubUsable /\ MayExec
  /\ LET e == {Statement2(perf.x)}
     IN \E r \in sub_exec(This2, Name, e) : SubResult(r, e) /\ Flow(r.exc, TRUE)

SubCommit ==
  /\ SubUsable
  /\ \E r \in sub_commit(This2, Name) : SubResult(r, {}) /\ Flow(r.exc, TRUE)

SubAbort ==
  /\ SubUsable
  /\ \E r \in sub_abort(This2, Name) : SubResult(r, {}) /\ Flow(r.exc, TRUE)

\* The innermost subtransaction's scope ends: normally, on the way to a
\* handler, or on the way out of the body.
SubDestroy ==
  /\ subs # <<>> /\ perf.pc \in {"body", "handling", "throwing"}
  /\ \E r \in sub_End(This2, Name) : World(r.x.w)
  /\ subs' = Front(subs)
  /\ perf' = [perf EXCEPT !.pc = IF @ = "handling" THEN "body" ELSE @]
  /\ UNCHANGED <<obj, tried, done>>

\* X.commit(), then Done = true.
PerformCommit ==
  /\ InBody /\ (subs = <<>> \/ "open_at_commit" \in Liberties)
  /\ \E r \in commit(This(perf.x), "transaction") :
       /\ XResult(r, {})
       /\ perf' = [perf EXCEPT !.pc = IF r.exc = "ok" THEN "committed" ELSE "throwing",
                               !.exc = r.exc]

\* ~X: on the way out of the try block, either way.
PerformDestroy ==
  /\ perf.pc \in {"committed", "throwing"} /\ subs = <<>> /\ perf.x # NoTrans
  /\ \E r \in End(This(perf.x), "transaction") :
       XResult([r EXCEPT !.x.o.live = FALSE], {})
  /\ perf' = [perf EXCEPT !.x = NoTrans]

\* Mutant: the outcome in doubt is treated like any other failure.
PerformCatch_RetriesDoubt ==
  /\ perf.pc = "throwing" /\ subs = <<>> /\ perf.x = NoTrans
  /\ perf' = [perf EXCEPT !.pc = IF perf.left <= 0 THEN "threw" ELSE "loop",
                          !.on_abort = @ + 1]
  /\ UNCHANGED <<w, obj, tried, done, subs>>

\* The three handlers, in their order.
PerformCatch ==
  /\ perf.pc = "throwing" /\ subs = <<>> /\ perf.x = NoTrans
  /\ perf' = CASE perf.exc = "in_doubt" ->
                    [perf EXCEPT !.pc = "threw", !.on_doubt = @ + 1]
               [] perf.exc \notin {"in_doubt", "unknown"} ->
                    [perf EXCEPT !.pc = IF perf.left <= 0 THEN "threw" ELSE "loop",
                                 !.on_abort = @ + 1]
               [] OTHER -> [perf EXCEPT !.pc = "threw", !.on_abort = @ + 1]
  /\ UNCHANGED <<w, obj, tried, done, subs>>

\* T2.on_commit(), and the loop ends.
PerformReturn ==
  /\ perf.pc = "committed" /\ perf.x = NoTrans
  /\ perf' = [perf EXCEPT !.pc = "returned", !.on_commit = @ + 1]
  /\ UNCHANGED <<w, obj, tried, done, subs>>

NestedLinkLost ==
  /\ w.handle = "ok" /\ w.alive /\ World(Gone(w))
  /\ UNCHANGED <<obj, tried, done, subs, perf>>

----------------------------------------------------------------------------
\* Subtransactions are used with reactivation inhibited, as their documentation
\* does; perform() without them in either mode.
NestedInit ==
  /\ \E inhibit \in BOOLEAN :
       w = [handle |-> "ok", alive |-> TRUE, tx |-> "idle", copy |-> FALSE,
            work |-> {}, db |-> {}, inhibit |-> inhibit, avoid |-> 0,
            trans |-> NoTrans, saves |-> <<>>]
  /\ obj = [t \in Tx |-> Absent]
  /\ tried = [t \in Tx |-> {}]
  /\ done = [t \in Tx |-> {}]
  /\ subs = <<>>
  /\ \E n \in 1..Cardinality(Tx) :
       perf = [pc |-> "loop", x |-> NoTrans, left |-> n, opened |-> 0, exc |-> "ok",
               on_abort |-> 0, on_commit |-> 0, on_doubt |-> 0]

\* What perform() and the program inside it do.
Program ==
  \/ Attempt \/ BodyExec \/ (\E exc \in {"std", "unknown"} : BodyThrow(exc))
  \/ SubOpen \/ SubExec \/ SubCommit \/ SubAbort \/ SubDestroy
  \/ PerformCommit \/ PerformDestroy \/ PerformCatch \/ PerformReturn

NestedNext == Program \/ NestedLinkLost

\* The program runs; the network need not fail, nor work.
NestedSpec == NestedInit /\ [][NestedNext]_nvars /\ WF_nvars(Program)

----------------------------------------------------------------------------
(* Properties.                                                             *)

Over == perf.pc \in {"returned", "threw"}

\* Type invariant.  One transaction at a time is registered, X, and an open
\* subtransaction always has it around it.
NestedTypeOK ==
  /\ w.handle \in Handle /\ w.tx \in TxState /\ w.db \subseteq Effect
  /\ \A t \in Tx : obj[t] \in ObjType /\ done[t] \subseteq tried[t]
  /\ w.trans # NoTrans => w.trans = perf.x
  /\ subs # <<>> => perf.x # NoTrans
  /\ perf.left \in 0..Cardinality(Tx)

\* While the session lives, its block holds exactly the work the objects in
\* scope would say it holds, and a savepoint for each active subtransaction:
\* an error in one never takes the work around it along (subtransaction.cxx).
BlockInStep ==
  InBody /\ w.alive /\ w.handle = "ok" /\ obj[perf.x].st = "active"
    /\ (\A i \in DOMAIN subs : subs[i].o.st # "aborted") =>
      /\ w.tx = "open"
      /\ w.work = done[perf.x] \cup UNION {subs[i].done : i \in DOMAIN subs}
      /\ \A i \in DOMAIN subs : subs[i].o.st = "active" => Find(w, subs[i].sp) # {}

\* Exactly the work of committed subtransactions counts: what a transaction
\* leaves in the database when its commit() returns is what it did itself and
\* what its committed subtransactions did, and nothing an aborted one tried.
NestedExact ==
  \A t \in Tx : obj[t].st = "committed" => w.db \cap tried[t] = done[t]

\* subtransaction: the savepoints in the backend are those of the open
\* subtransactions, and roll back exactly the work that was done in them.
SavepointsExact == NestedTypeOK /\ BlockInStep /\ NestedExact

\* perform(): if it returns, one attempt's work is in the database and no other
\* attempt's; if it throws, no attempt's is, unless it was in doubt; and the
\* transactor has been told so, once, after on_abort() for every failure.
PerformExactlyOnce ==
  LET landed == {t \in Tx : w.db \cap tried[t] # {}} IN
  /\ perf.pc = "returned" =>
       /\ \E t \in Tx : obj[t].st = "committed" /\ landed \subseteq {t}
       /\ perf.on_commit = 1 /\ perf.on_doubt = 0
  /\ perf.pc = "threw" => /\ perf.exc # "in_doubt" => landed = {}
                          /\ Cardinality(landed) <= 1
                          /\ perf.on_commit = 0
                          /\ perf.on_doubt = (IF perf.exc = "in_doubt" THEN 1 ELSE 0)
  /\ perf.pc = "loop" => landed = {}

\* perform() ends, whatever the connection does.
PerformEnds == <>Over
=============================================================================
