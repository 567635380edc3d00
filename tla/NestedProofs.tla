---------------------------- MODULE NestedProofs ----------------------------
(***************************************************************************)
(* Two theorems about Nested, for any number of attempts, statements and   *)
(* subtransactions, nested to any depth.  PerformExactlyOnce, whatever the *)
(* backend refuses, in three layers:                                       *)
(*   - what connection_base::Exec() can leave of a session that has        *)
(*     savepoints: the answer of the backend, or a session that is gone;   *)
(*   - what the calls of the transaction X and of its subtransactions do   *)
(*     to X's block: as long as X is active, its work stays in the block   *)
(*     or is lost with it;                                                 *)
(*   - one lemma per group of actions, and the theorem.                    *)
(* SavepointsExact, of a backend that refuses no savepoint command for     *)
(* reasons of its own and a body that takes no liberties, on top of it:    *)
(*   - savepoints in the order of their names, and what each command does  *)
(*     to them and to the work;                                            *)
(*   - the innermost subtransaction and the block around it, then the      *)
(*     stack of all of them;                                               *)
(*   - one lemma per action, and the theorem.                              *)
(***************************************************************************)
EXTENDS Nested, FiniteSetTheorems, SequenceTheorems, TLAPS

----------------------------------------------------------------------------
(* A session and what becomes of it.                                       *)

\* A world, as Nested has it.
IsWorld(v) ==
  v = [handle |-> v.handle, alive |-> v.alive, tx |-> v.tx, copy |-> v.copy,
       work |-> v.work, db |-> v.db, inhibit |-> v.inhibit, avoid |-> v.avoid,
       trans |-> v.trans, saves |-> v.saves]

\* No COPY, no hold cursor; a session that is gone has no block, and a block
\* that is doomed has no work.
Sane(v) ==
  /\ IsWorld(v) /\ v.handle \in Handle /\ v.alive \in BOOLEAN /\ v.inhibit \in BOOLEAN
  /\ v.copy = FALSE /\ v.avoid = 0 /\ v.tx \in TxState
  /\ v.alive => v.handle = "ok"
  /\ ~v.alive => v.tx = "idle"
  /\ v.tx # "open" => v.work = {}

\* y is what is left of v once its session is gone and the client knows.  The
\* handle is dropped only if a new one may be made.
Dead(v, y) ==
  /\ Sane(y) /\ y.alive = FALSE /\ y.tx = "idle" /\ y.handle # "ok"
  /\ y.inhibit = v.inhibit /\ y.db = v.db /\ y.saves = v.saves /\ y.trans = v.trans
  /\ y.handle = "none" => ~v.inhibit \/ v.handle = "none"

\* Losing the connection.
LEMMA LostFacts ==
  ASSUME NEW v, Sane(v)
  PROVE  Dead(v, Lost(v)) /\ Lost(v).handle = "bad"
<1> DEFINE g == Gone(v)
           y == Lost(v)
<1>1. y = [g EXCEPT !.handle = "bad", !.copy = FALSE] BY DEF Lost
<1>2. g = [v EXCEPT !.alive = FALSE, !.tx = "idle", !.work = {}] BY DEF Gone
<1> HIDE DEF g, y
<1>3. /\ IsWorld(g) /\ g.alive = FALSE /\ g.tx = "idle" /\ g.work = {} /\ g.db = v.db
      /\ g.inhibit = v.inhibit /\ g.avoid = v.avoid /\ g.saves = v.saves
      /\ g.trans = v.trans
  BY <1>2 DEF Sane, IsWorld
<1>4. /\ IsWorld(y) /\ y.handle = "bad" /\ y.alive = FALSE /\ y.tx = g.tx
      /\ y.copy = FALSE /\ y.work = g.work /\ y.db = g.db /\ y.inhibit = g.inhibit
      /\ y.avoid = g.avoid /\ y.saves = g.saves /\ y.trans = g.trans
  BY <1>1, <1>3 DEF IsWorld
<1>5. y.alive \in BOOLEAN BY <1>4
<1> QED BY <1>3, <1>4, <1>5 DEF y, Dead, Sane, Handle, TxState

\* Dropping the handle.
LEMMA DisconnectFacts ==
  ASSUME NEW v, Sane(v), ~v.inhibit
  PROVE  Dead(v, disconnect(v))
<1> DEFINE g == Gone(v)
           y == disconnect(v)
<1>1. y = [g EXCEPT !.handle = "none", !.copy = FALSE] BY DEF disconnect
<1>2. g = [v EXCEPT !.alive = FALSE, !.tx = "idle", !.work = {}] BY DEF Gone
<1> HIDE DEF g, y
<1>3. /\ IsWorld(g) /\ g.alive = FALSE /\ g.tx = "idle" /\ g.work = {} /\ g.db = v.db
      /\ g.inhibit = v.inhibit /\ g.avoid = v.avoid /\ g.saves = v.saves
      /\ g.trans = v.trans
  BY <1>2 DEF Sane, IsWorld
<1>4. /\ IsWorld(y) /\ y.handle = "none" /\ y.alive = FALSE /\ y.tx = g.tx
      /\ y.copy = FALSE /\ y.work = g.work /\ y.db = g.db /\ y.inhibit = g.inhibit
      /\ y.avoid = g.avoid /\ y.saves = g.saves /\ y.trans = g.trans
  BY <1>1, <1>3 DEF IsWorld
<1>5. y.alive \in BOOLEAN BY <1>4
<1> QED BY <1>3, <1>4, <1>5 DEF y, Dead, Sane, Handle, TxState

\* A new session has no block, and the database is the old one's.
LEMMA FreshFacts ==
  ASSUME NEW v, Sane(v)
  PROVE  /\ Sane(Fresh(v)) /\ Fresh(v).alive /\ Fresh(v).handle = "ok"
         /\ Fresh(v).tx = "idle" /\ Fresh(v).db = v.db /\ Fresh(v).saves = v.saves
         /\ Fresh(v).inhibit = v.inhibit /\ Fresh(v).trans = v.trans
<1> DEFINE g == Gone(v)
           y == Fresh(v)
<1>1. y = [g EXCEPT !.handle = "ok", !.alive = TRUE, !.copy = FALSE] BY DEF Fresh
<1>2. g = [v EXCEPT !.alive = FALSE, !.tx = "idle", !.work = {}] BY DEF Gone
<1> HIDE DEF g, y
<1>3. /\ IsWorld(g) /\ g.alive = FALSE /\ g.tx = "idle" /\ g.work = {} /\ g.db = v.db
      /\ g.inhibit = v.inhibit /\ g.avoid = v.avoid /\ g.saves = v.saves
      /\ g.trans = v.trans
  BY <1>2 DEF Sane, IsWorld
<1>4. /\ IsWorld(y) /\ y.handle = "ok" /\ y.alive = TRUE /\ y.tx = g.tx
      /\ y.copy = FALSE /\ y.work = g.work /\ y.db = g.db /\ y.inhibit = g.inhibit
      /\ y.avoid = g.avoid /\ y.saves = g.saves /\ y.trans = g.trans
  BY <1>1, <1>3 DEF IsWorld
<1>5. y.alive \in BOOLEAN BY <1>4
<1> QED BY <1>3, <1>4, <1>5 DEF y, Sane, Handle, TxState

\* What is dead stays so.
LEMMA DeadTwice ==
  ASSUME NEW v, NEW y, NEW z, Dead(v, y), Dead(y, z)
  PROVE  Dead(v, z)
BY DEF Dead

\* activate(): an open connection, a new one, or none.
LEMMA ActivateFacts ==
  ASSUME NEW v, Sane(v), NEW o \in activate(v)
  PROVE  \/ is_open(v) /\ o.exc = "ok" /\ o.w = v
         \/ v.handle = "none" /\ ~v.inhibit /\ o.exc = "ok" /\ o.w = Fresh(v)
         \/ ~is_open(v) /\ o.exc # "ok" /\ Dead(v, o.w)
<1>1. CASE is_open(v) BY <1>1 DEF activate, Out
<1>2. CASE ~is_open(v) /\ v.inhibit
  <2>1. o = Out(v, "broken") BY <1>2 DEF activate
  <2>2. o.w = v /\ o.exc = "broken" BY <2>1 DEF Out
  <2>3. Dead(v, v) BY <1>2 DEF Dead, Sane, is_open
  <2> QED BY <1>2, <2>2, <2>3
<1>3. CASE ~is_open(v) /\ ~v.inhibit
  <2>1. o = Out(disconnect(v), "broken") \/ (v.handle = "none" /\ o = Out(Fresh(v), "ok"))
    BY <1>3 DEF activate, Sane
  <2>2. CASE o = Out(disconnect(v), "broken")
    <3>1. o.w = disconnect(v) /\ o.exc = "broken" BY <2>2 DEF Out
    <3> QED BY <1>3, <3>1, DisconnectFacts
  <2>3. CASE v.handle = "none" /\ o = Out(Fresh(v), "ok")
    <3>1. o.w = Fresh(v) /\ o.exc = "ok" BY <2>3 DEF Out
    <3> QED BY <1>3, <2>3, <3>1
  <2> QED BY <2>1, <2>2, <2>3
<1> QED BY <1>1, <1>2, <1>3

\* get_notifs(): nothing, or the loss is noticed.
LEMMA NotifsFacts ==
  ASSUME NEW v, Sane(v), NEW o \in get_notifs(v)
  PROVE  (o.exc = "ok" /\ o.w = v) \/ (o.exc # "ok" /\ Dead(v, o.w))
<1>1. CASE o = Out(v, "ok") BY <1>1 DEF Out
<1>2. CASE o = Out(Lost(v), "broken")
  <2>1. o.w = Lost(v) /\ o.exc = "broken" BY <1>2 DEF Out
  <2> QED BY <2>1, LostFacts
<1> QED BY <1>1, <1>2 DEF get_notifs, PQconsumeInput

\* make_result() and check_result() of the replies rs, and get_notifs().
Checked(rs) ==
  Then(UNION {Then(make_result(r.w), LAMBDA u : {check_result(u, r.res)}) : r \in rs},
       get_notifs)

\* A result that libpq can have, in a session that was there.
IsReply(r) ==
  Sane(r.w) /\ r.w.handle # "none" /\ r.res \in {"ok", "error", "none"}

\* o is the session in which the reply r arrived, or what is left of it.
Came(r, o) ==
  \/ is_open(r.w) /\ o.w = r.w /\ (o.exc = "ok" <=> r.res = "ok")
  \/ o.exc # "ok" /\ Dead(r.w, o.w)

\* A reply is passed on, unless the connection is gone.
LEMMA CheckedFacts ==
  ASSUME NEW rs, \A r \in rs : IsReply(r), NEW o \in Checked(rs)
  PROVE  \E r \in rs : Came(r, o)
<1>1. PICK r \in rs :
        \E q \in Then(make_result(r.w), LAMBDA u : {check_result(u, r.res)}) :
          o \in IF q.exc = "ok" THEN get_notifs(q.w) ELSE {q}
  BY DEF Checked, Then
<1>2. PICK q : /\ q \in Then(make_result(r.w), LAMBDA u : {check_result(u, r.res)})
               /\ o \in IF q.exc = "ok" THEN get_notifs(q.w) ELSE {q}
  BY <1>1
<1>3. PICK p \in activate(r.w) :
        q \in IF p.exc = "ok" THEN {check_result(p.w, r.res)} ELSE {p}
  BY <1>2 DEF Then, make_result
<1>4. Sane(r.w) /\ r.w.handle # "none" /\ r.res \in {"ok", "error", "none"}
  BY <1>1 DEF IsReply
<1>5. \/ is_open(r.w) /\ p.exc = "ok" /\ p.w = r.w
      \/ p.exc # "ok" /\ Dead(r.w, p.w)
  BY <1>4, ActivateFacts
<1>6. CASE p.exc # "ok" BY <1>1, <1>2, <1>3, <1>5, <1>6 DEF Came
<1>7. CASE is_open(r.w) /\ p.exc = "ok" /\ p.w = r.w
  <2>1. q = check_result(r.w, r.res) BY <1>3, <1>7
  <2>2. q.w = r.w /\ (q.exc = "ok" <=> r.res = "ok")
    <3>1. \/ r.res = "ok" /\ q = Out(r.w, "ok")
          \/ r.res # "ok" /\ (q = Out(r.w, "failure") \/ q = Out(r.w, "sql"))
      BY <1>4, <1>7, <2>1 DEF check_result, is_open
    <3> QED BY <3>1 DEF Out
  <2>3. CASE q.exc # "ok" BY <1>2, <1>7, <2>2, <2>3 DEF Came
  <2>4. CASE q.exc = "ok"
    <3>1. o \in get_notifs(r.w) BY <1>2, <2>2, <2>4
    <3> QED BY <1>4, <1>7, <2>2, <2>4, <3>1, NotifsFacts DEF Came
  <2> QED BY <2>3, <2>4
<1> QED BY <1>5, <1>6, <1>7

\* The session a command is sent on: the one there is, or a new one.
SentOn(u, v) ==
  /\ Sane(v) /\ v.handle = "ok"
  /\ \/ v = u
     \/ /\ u.handle = "none" /\ ~u.inhibit /\ v.alive /\ v.tx = "idle"
        /\ v.db = u.db /\ v.saves = u.saves /\ v.inhibit = u.inhibit
        /\ v.trans = u.trans

\* What becomes of a command with answers as: it was not sent, or was lost, or was
\* answered and the answer lost, or was answered.
Outcome(u, v, as, o) ==
  \/ o.exc # "ok" /\ Dead(u, o.w)
  \/ /\ SentOn(u, v) /\ v.alive
     /\ \E a \in as : Came(a, o)

\* connection_base::Exec() of a command to which the backend answers.
LEMMA ExecFacts ==
  ASSUME NEW u, Sane(u), NEW op, NEW eff, NEW o \in Exec(u, op, eff),
         \A v : SentOn(u, v) /\ v.alive =>
           \A a \in Answers(v, op, eff) : IsReply(a)
  PROVE  \E v : Outcome(u, v, Answers(v, op, eff), o)
<1>1. PICK p \in activate(u) :
        o \in IF p.exc = "ok" THEN Checked(PQexec(p.w, op, eff)) ELSE {p}
  BY DEF Exec, Query, Checked, Then
<1>2. CASE p.exc # "ok"
  <2>1. Dead(u, p.w) BY <1>2, ActivateFacts
  <2> QED BY <1>1, <1>2, <2>1 DEF Outcome
<1>3. CASE p.exc = "ok"
  <2> DEFINE v == p.w
             rs == PQexec(v, op, eff)
  <2>1. SentOn(u, v)
    <3>1. CASE is_open(u) /\ v = u BY <3>1 DEF SentOn, is_open
    <3>2. CASE u.handle = "none" /\ ~u.inhibit /\ v = Fresh(u)
      BY <3>2, FreshFacts DEF SentOn
    <3> QED BY <1>3, <3>1, <3>2, ActivateFacts
  <2>2. o \in Checked(rs) BY <1>1, <1>3
  <2>3. Dead(v, Lost(v)) /\ Lost(v).handle = "bad" BY <2>1, LostFacts DEF SentOn
  <2>4. EndCopy(v) = v BY <2>1 DEF EndCopy, SentOn, Sane
  <2>5. \A z : Dead(v, z) => Dead(u, z) BY <2>1 DEF SentOn, Dead
  <2> HIDE DEF v
  <2>6. CASE ~v.alive
    <3>1. rs = {[w |-> Lost(v), res |-> "none"]} BY <2>1, <2>6 DEF PQexec, SentOn
    <3>2. \A r \in rs : r.w = Lost(v) /\ r.res = "none" BY <3>1
    <3> HIDE DEF rs
    <3>3. \A r \in rs : IsReply(r) /\ ~is_open(r.w)
      BY <2>3, <3>2 DEF Dead, is_open, IsReply
    <3>4. PICK r \in rs : Came(r, o) BY <2>2, <3>3, CheckedFacts
    <3>5. o.exc # "ok" /\ Dead(Lost(v), o.w) BY <3>2, <3>3, <3>4 DEF Came
    <3> QED BY <2>3, <2>5, <3>5, DeadTwice DEF Outcome
  <2>7. CASE v.alive
    <3> DEFINE as == Answers(v, op, eff)
    <3>1. rs = as \cup {[w |-> Lost(v), res |-> "none"]}
                  \cup {[w |-> Lost(a.w), res |-> "none"] : a \in as}
      BY <2>1, <2>4, <2>7 DEF PQexec, SentOn
    <3>2. \A a \in as : IsReply(a) BY <2>1, <2>7
    <3>3. \A a \in as : Dead(a.w, Lost(a.w)) /\ Lost(a.w).handle = "bad"
      BY <3>2, LostFacts DEF IsReply
    <3> HIDE DEF as, rs
    <3>4. ASSUME NEW r \in rs
          PROVE  \/ r \in as
                 \/ r.w = Lost(v) /\ r.res = "none"
                 \/ \E a \in as : r.w = Lost(a.w) /\ r.res = "none"
      <4>1. \/ r \in as
            \/ r = [w |-> Lost(v), res |-> "none"]
            \/ \E a \in as : r = [w |-> Lost(a.w), res |-> "none"]
        BY <3>1, <3>4
      <4>2. CASE r = [w |-> Lost(v), res |-> "none"]
        <5>1. r.w = Lost(v) /\ r.res = "none" BY <4>2
        <5> QED BY <5>1
      <4>3. ASSUME NEW a \in as, r = [w |-> Lost(a.w), res |-> "none"]
            PROVE  \E b \in as : r.w = Lost(b.w) /\ r.res = "none"
        <5>1. r.w = Lost(a.w) /\ r.res = "none" BY <4>3
        <5> QED BY <5>1
      <4> QED BY <4>1, <4>2, <4>3
    <3>6. \A r \in rs : IsReply(r)
      BY <2>3, <3>2, <3>3, <3>4 DEF Dead, IsReply
    <3>7. PICK r \in rs : Came(r, o) BY <2>2, <3>6, CheckedFacts
    <3>8. CASE r \in as BY <2>1, <2>7, <3>7, <3>8 DEF Outcome, as
    <3>9. CASE r.w = Lost(v)
      <4>1. o.exc # "ok" /\ Dead(Lost(v), o.w) BY <2>3, <3>7, <3>9 DEF Came, Dead, is_open
      <4> QED BY <2>3, <2>5, <4>1, DeadTwice DEF Outcome
    <3>10. ASSUME NEW a \in as, r.w = Lost(a.w) PROVE Outcome(u, v, as, o)
      <4>1. o.exc # "ok" /\ Dead(Lost(a.w), o.w)
        BY <3>3, <3>7, <3>10 DEF Came, Dead, is_open
      <4>2. Dead(a.w, o.w) BY <3>3, <4>1, DeadTwice
      <4>3. Came(a, o) BY <4>1, <4>2 DEF Came
      <4> QED BY <2>1, <2>7, <3>10, <4>3 DEF Outcome
    <3> QED BY <3>4, <3>7, <3>8, <3>9, <3>10 DEF as
  <2> QED BY <2>6, <2>7
<1> QED BY <1>2, <1>3

----------------------------------------------------------------------------
(* A block and its savepoints.                                             *)

\* All work that the session has or can come back to is in s.
Holds(v, s) ==
  /\ v.work \subseteq s
  /\ \E S : v.saves \in Seq(S)
  /\ \A i \in DOMAIN v.saves : v.saves[i].work \subseteq s

\* From u to y the block goes on or is lost with its session: nothing becomes
\* durable, and a session that is there still has its block.
Goes(u, y, s) ==
  /\ Sane(y) /\ y.inhibit = u.inhibit /\ y.db = u.db /\ Holds(y, s)
  /\ y.trans = u.trans /\ (y.alive => u.alive)
  /\ u.inhibit /\ u.handle # "none" => y.handle # "none"
  /\ y.tx # "idle" => u.tx # "idle"
  /\ (u.alive => u.tx # "idle") => (y.alive => y.tx # "idle")

\* Going on is reflexive and transitive.
LEMMA GoesOn ==
  ASSUME NEW s, NEW u, NEW y, NEW z
  PROVE  /\ Sane(u) /\ Holds(u, s) => Goes(u, u, s)
         /\ Goes(u, y, s) /\ Goes(y, z, s) => Goes(u, z, s)
BY DEF Goes

\* A session that is gone has no work; its savepoints are forgotten afterwards.
LEMMA DeadGoes ==
  ASSUME NEW s, NEW u, Holds(u, s), NEW y, Dead(u, y)
  PROVE  Goes(u, y, s)
BY DEF Goes, Dead, Holds, Sane

\* A savepoint more, or some fewer.
LEMMA SavesFacts ==
  ASSUME NEW s, NEW u, Holds(u, s), NEW sp
  PROVE  /\ LET q == Append(u.saves, [sp |-> sp, work |-> u.work])
            IN (\E S : q \in Seq(S)) /\ \A i \in DOMAIN q : q[i].work \subseteq s
         /\ \A n \in 0..Len(u.saves) :
              LET q == SubSeq(u.saves, 1, n)
              IN (\E S : q \in Seq(S)) /\ \A i \in DOMAIN q : q[i].work \subseteq s
<1>1. PICK S : u.saves \in Seq(S) BY DEF Holds
<1>2. \A i \in DOMAIN u.saves : u.saves[i].work \subseteq s BY DEF Holds
<1>3. DOMAIN u.saves = 1..Len(u.saves) /\ Len(u.saves) \in Nat BY <1>1, LenProperties
<1> DEFINE e == [sp |-> sp, work |-> u.work]
           q == Append(u.saves, e)
<1>4. (\E T : q \in Seq(T)) /\ \A i \in DOMAIN q : q[i].work \subseteq s
  <2>1. e.work \subseteq s BY DEF Holds
  <2> HIDE DEF e
  <2>2. u.saves \in Seq(S \cup {e}) BY <1>1, SeqMonotonic
  <2>3. /\ q \in Seq(S \cup {e}) /\ DOMAIN q = 1..Len(u.saves) + 1
        /\ \A i \in 1..Len(u.saves) : q[i] = u.saves[i]
        /\ q[Len(u.saves) + 1] = e
    BY <2>2
  <2> HIDE DEF q
  <2>4. ASSUME NEW i \in DOMAIN q PROVE q[i].work \subseteq s
    <3>1. i \in 1..Len(u.saves) \/ i = Len(u.saves) + 1 BY <1>3, <2>3, <2>4
    <3> QED BY <1>2, <1>3, <2>1, <2>3, <3>1
  <2> QED BY <2>3, <2>4
<1>5. ASSUME NEW n \in 0..Len(u.saves)
      PROVE  LET r == SubSeq(u.saves, 1, n)
             IN (\E T : r \in Seq(T)) /\ \A i \in DOMAIN r : r[i].work \subseteq s
  <2> DEFINE r == SubSeq(u.saves, 1, n)
  <2>1. \A i \in 1..n : u.saves[i] \in S BY <1>1, <1>3
  <2>2. n \in Nat /\ n \in Int /\ 1 \in Int BY <1>3
  <2>3. /\ r \in Seq(S) /\ Len(r) = IF 1 <= n THEN n - 1 + 1 ELSE 0
        /\ \A i \in 1..n - 1 + 1 : r[i] = u.saves[1 + i - 1]
    BY <2>1, <2>2, SubSeqProperties
  <2> HIDE DEF r
  <2>4. DOMAIN r = 1..n BY <2>2, <2>3, LenProperties
  <2>5. \A i \in DOMAIN r : r[i] = u.saves[i] /\ i \in DOMAIN u.saves
    BY <1>3, <2>2, <2>3, <2>4
  <2> QED BY <1>2, <2>3, <2>5 DEF r
<1> QED BY <1>4, <1>5

\* An error in a block dooms it.
LEMMA RefusedFacts ==
  ASSUME NEW s, NEW u, Sane(u), u.alive, Holds(u, s), NEW a \in Refused(u)
  PROVE  IsReply(a) /\ Goes(u, a.w, s)
<1> DEFINE y == a.w
<1>1. a = [w |-> [u EXCEPT !.tx = Doom(u.tx), !.work = {}], res |-> "error"]
  BY DEF Refused
<1>2. y = [u EXCEPT !.tx = Doom(u.tx), !.work = {}] /\ a.res = "error" BY <1>1
<1>3. Doom(u.tx) \in TxState \ {"open"} /\ (Doom(u.tx) = "idle" <=> u.tx = "idle")
  BY DEF Doom, Sane, TxState
<1> HIDE DEF y
<1>4. /\ IsWorld(y) /\ y.handle = u.handle /\ y.alive = u.alive /\ y.tx = Doom(u.tx)
      /\ y.copy = u.copy /\ y.work = {} /\ y.db = u.db /\ y.inhibit = u.inhibit
      /\ y.avoid = u.avoid /\ y.saves = u.saves /\ y.trans = u.trans
  BY <1>2 DEF Sane, IsWorld
<1>5. Sane(y) BY <1>3, <1>4 DEF Sane
<1>6. Holds(y, s) BY <1>4 DEF Holds
<1>7. Goes(u, y, s) BY <1>3, <1>4, <1>5, <1>6 DEF Goes, Sane
<1> QED BY <1>2, <1>4, <1>5, <1>7 DEF y, IsReply, Sane

\* The backend's answers to SAVEPOINT, RELEASE and ROLLBACK TO.
LEMMA SaveAnswersFacts ==
  ASSUME NEW s, NEW u, Sane(u), u.alive, Holds(u, s), NEW op, NEW sp,
         NEW a \in SaveAnswers(u, op, sp)
  PROVE  IsReply(a) /\ Goes(u, a.w, s)
<1> DEFINE at == Find(u, sp)
           i  == CHOOSE k \in at : TRUE
           y  == a.w
<1>0. (\E S : u.saves \in Seq(S)) /\ DOMAIN u.saves = 1..Len(u.saves)
      /\ Len(u.saves) \in Nat
  BY LenProperties DEF Holds
<1>i. at # {} => i \in 1..Len(u.saves) BY <1>0 DEF Find
<1>w. at # {} => u.saves[i].work \subseteq s BY <1>0, <1>i DEF Holds
<1>1. CASE op = "SAVEPOINT" /\ u.tx = "open"
  <2> DEFINE q == Append(u.saves, [sp |-> sp, work |-> u.work])
  <2>1. a = [w |-> [u EXCEPT !.saves = q], res |-> "ok"] BY <1>1 DEF SaveAnswers
  <2>2. (\E S : q \in Seq(S)) /\ \A k \in DOMAIN q : q[k].work \subseteq s
    BY SavesFacts
  <2> HIDE DEF q
  <2>3. y = [u EXCEPT !.saves = q] /\ a.res = "ok" BY <2>1
  <2> HIDE DEF y
  <2>4. /\ IsWorld(y) /\ y.handle = u.handle /\ y.alive = u.alive /\ y.tx = u.tx
        /\ y.copy = u.copy /\ y.work = u.work /\ y.db = u.db /\ y.inhibit = u.inhibit
        /\ y.avoid = u.avoid /\ y.saves = q /\ y.trans = u.trans
    BY <2>3 DEF Sane, IsWorld
  <2>5. Sane(y) BY <2>4 DEF Sane
  <2>6. Holds(y, s) BY <2>2, <2>4 DEF Holds
  <2>7. Goes(u, y, s) BY <2>4, <2>5, <2>6 DEF Goes, Sane
  <2> QED BY <2>3, <2>4, <2>5, <2>7 DEF y, IsReply, Sane
<1>2. CASE op = "RELEASE" /\ u.tx = "open" /\ at # {}
  <2> DEFINE q == SubSeq(u.saves, 1, i - 1)
  <2>1. a = [w |-> [u EXCEPT !.saves = q], res |-> "ok"] BY <1>2 DEF SaveAnswers
  <2>n. i - 1 \in 0..Len(u.saves) BY <1>0, <1>i, <1>2
  <2> HIDE DEF i
  <2>2. (\E S : q \in Seq(S)) /\ \A k \in DOMAIN q : q[k].work \subseteq s
    BY <2>n, SavesFacts
  <2> HIDE DEF q
  <2>3. y = [u EXCEPT !.saves = q] /\ a.res = "ok" BY <2>1
  <2> HIDE DEF y
  <2>4. /\ IsWorld(y) /\ y.handle = u.handle /\ y.alive = u.alive /\ y.tx = u.tx
        /\ y.copy = u.copy /\ y.work = u.work /\ y.db = u.db /\ y.inhibit = u.inhibit
        /\ y.avoid = u.avoid /\ y.saves = q /\ y.trans = u.trans
    BY <2>3 DEF Sane, IsWorld
  <2>5. Sane(y) BY <2>4 DEF Sane
  <2>6. Holds(y, s) BY <2>2, <2>4 DEF Holds
  <2>7. Goes(u, y, s) BY <2>4, <2>5, <2>6 DEF Goes, Sane
  <2> QED BY <2>3, <2>4, <2>5, <2>7 DEF y, IsReply, Sane
<1>3. CASE op = "ROLLBACK TO" /\ u.tx # "idle" /\ at # {}
  <2> DEFINE q  == SubSeq(u.saves, 1, i)
             to == u.saves[i].work
  <2>1. a = [w |-> [u EXCEPT !.saves = q, !.tx = "open", !.work = to], res |-> "ok"]
    BY <1>3 DEF SaveAnswers
  <2>w. to \subseteq s BY <1>w, <1>3
  <2> HIDE DEF i
  <2> DEFINE len == Len(u.saves)
  <2>m. i \in 1..len /\ len \in Nat BY <1>0, <1>i, <1>3
  <2> HIDE DEF len
  <2>n. i \in 0..len BY <2>m
  <2>2. (\E S : q \in Seq(S)) /\ \A k \in DOMAIN q : q[k].work \subseteq s
    BY <2>n, SavesFacts DEF len
  <2> HIDE DEF q, to
  <2>3. y = [u EXCEPT !.saves = q, !.tx = "open", !.work = to] /\ a.res = "ok" BY <2>1
  <2> HIDE DEF y
  <2>4. /\ IsWorld(y) /\ y.handle = u.handle /\ y.alive = u.alive /\ y.tx = "open"
        /\ y.copy = u.copy /\ y.work = to /\ y.db = u.db /\ y.inhibit = u.inhibit
        /\ y.avoid = u.avoid /\ y.saves = q /\ y.trans = u.trans
    BY <2>3 DEF Sane, IsWorld
  <2>5. Sane(y) BY <2>4 DEF Sane, TxState
  <2>6. Holds(y, s) BY <2>w, <2>2, <2>4 DEF Holds
  <2>7. Goes(u, y, s) BY <1>3, <2>4, <2>5, <2>6 DEF Goes, Sane
  <2> QED BY <2>3, <2>4, <2>5, <2>7 DEF y, IsReply, Sane
<1>4. CASE a \in Refused(u) BY <1>4, RefusedFacts
<1> QED BY <1>1, <1>2, <1>3, <1>4 DEF SaveAnswers

\* A savepoint command, with reactivation inhibited: the block goes on.
LEMMA SaveFacts ==
  ASSUME NEW s, NEW x, Sane(x.w), x.w.inhibit, Holds(x.w, s), NEW op, NEW sp,
         x = [w |-> x.w, o |-> x.o], NEW r \in ExecSave(x, op, sp)
  PROVE  Goes(x.w, r.x.w, s) /\ r.x = [w |-> r.x.w, o |-> x.o]
<1> DEFINE u == x.w
<1>1. PICK o : /\ r = Ret([x EXCEPT !.w = o.w], o.exc)
               /\ \E p \in activate(u) :
                    o \in IF p.exc = "ok" THEN Checked(PQsave(p.w, op, sp)) ELSE {p}
  BY DEF ExecSave, Lift, Checked, Then
<1>2. r.x = [x EXCEPT !.w = o.w] BY <1>1 DEF Ret
<1>3. r.x = [w |-> o.w, o |-> x.o] /\ r.x.w = o.w BY <1>2
<1>4. PICK p \in activate(u) : o \in IF p.exc = "ok" THEN Checked(PQsave(p.w, op, sp)) ELSE {p}
  BY <1>1
<1>5. \/ is_open(u) /\ p.exc = "ok" /\ p.w = u
      \/ p.exc # "ok" /\ Dead(u, p.w)
  BY ActivateFacts
<1>6. Goes(u, o.w, s)
  <2>1. CASE p.exc # "ok"
    <3>1. o = p /\ Dead(u, o.w) BY <1>4, <1>5, <2>1
    <3> QED BY <3>1, DeadGoes
  <2>2. CASE is_open(u) /\ p.exc = "ok" /\ p.w = u
    <3> DEFINE rs == PQsave(u, op, sp)
    <3>1. o \in Checked(rs) BY <1>4, <2>2
    <3>2. Dead(u, Lost(u)) /\ Lost(u).handle = "bad" BY LostFacts
    <3>3. ASSUME NEW q \in rs PROVE IsReply(q) /\ Goes(u, q.w, s)
      <4>1. CASE q = [w |-> Lost(u), res |-> "none"]
        <5>1. q.w = Lost(u) /\ q.res = "none" BY <4>1
        <5>2. Goes(u, Lost(u), s) BY <3>2, DeadGoes
        <5> QED BY <3>2, <5>1, <5>2 DEF IsReply, Dead
      <4>2. CASE u.alive /\ q \in SaveAnswers(u, op, sp) BY <4>2, SaveAnswersFacts
      <4>3. CASE u.alive /\ q \in Refused(u) BY <4>3, RefusedFacts
      <4> QED BY <2>2, <3>3, <4>1, <4>2, <4>3 DEF PQsave, is_open
    <3> HIDE DEF rs
    <3>4. PICK q \in rs : Came(q, o) BY <3>1, <3>3, CheckedFacts
    <3>5. Goes(u, q.w, s) BY <3>3
    <3>6. CASE o.w = q.w BY <3>5, <3>6
    <3>7. CASE Dead(q.w, o.w)
      <4>1. Holds(q.w, s) BY <3>5 DEF Goes
      <4>2. Goes(q.w, o.w, s) BY <3>7, <4>1, DeadGoes
      <4> QED BY <3>5, <4>2, GoesOn
    <3> QED BY <3>4, <3>6, <3>7 DEF Came
  <2> QED BY <1>5, <2>1, <2>2
<1> QED BY <1>3, <1>6

----------------------------------------------------------------------------
(* The statements of a block.                                              *)

\* An answer that changes the block and the database.
LEMMA ReplyFacts ==
  ASSUME NEW u, Sane(u), u.alive, NEW tx \in TxState, NEW work, NEW db,
         NEW res \in {"ok", "error"}, tx # "open" => work = {},
         NEW a, a = Reply(u, tx, work, db, res)
  PROVE  /\ IsReply(a) /\ a.res = res /\ a.w.tx = tx /\ a.w.work = work /\ a.w.db = db
         /\ a.w.alive = u.alive /\ a.w.handle = "ok" /\ a.w.saves = u.saves
         /\ a.w.inhibit = u.inhibit /\ a.w.trans = u.trans
<1> DEFINE y == a.w
<1>1. y = [u EXCEPT !.tx = tx, !.work = work, !.db = db] /\ a.res = res BY DEF Reply
<1> HIDE DEF y
<1>2. /\ IsWorld(y) /\ y.handle = u.handle /\ y.alive = u.alive /\ y.tx = tx
      /\ y.copy = u.copy /\ y.work = work /\ y.db = db /\ y.inhibit = u.inhibit
      /\ y.avoid = u.avoid /\ y.saves = u.saves /\ y.trans = u.trans
  BY <1>1 DEF Sane, IsWorld
<1>3. Sane(y) BY <1>2 DEF Sane
<1> QED BY <1>1, <1>2, <1>3 DEF y, IsReply, Sane

\* The backend's answers to a statement inside a block.
LEMMA StatementFacts ==
  ASSUME NEW s, NEW u, Sane(u), u.alive, u.tx # "idle", Holds(u, s),
         NEW eff, eff \subseteq s, NEW a \in Answers(u, "SQL", eff)
  PROVE  IsReply(a) /\ Goes(u, a.w, s)
<1>1. \/ u.tx = "open" /\ a = Reply(u, "open", u.work \cup eff, u.db, "ok")
      \/ a = Reply(u, "failed", {}, u.db, "error")
  BY DEF Answers, Statement, Doom, Sane, TxState
<1>2. CASE u.tx = "open" /\ a = Reply(u, "open", u.work \cup eff, u.db, "ok")
  <2> DEFINE wk == u.work \cup eff
  <2>1. a = Reply(u, "open", wk, u.db, "ok") BY <1>2
  <2>2. wk \subseteq s BY DEF Holds
  <2> HIDE DEF wk
  <2>3. /\ IsReply(a) /\ a.w.tx = "open" /\ a.w.work = wk /\ a.w.db = u.db
        /\ a.w.handle = "ok" /\ a.w.saves = u.saves /\ a.w.inhibit = u.inhibit
        /\ a.w.trans = u.trans
    BY <2>1, ReplyFacts DEF TxState
  <2>4. Holds(a.w, s) BY <2>2, <2>3 DEF Holds
  <2> QED BY <2>3, <2>4 DEF Goes, IsReply
<1>3. CASE a = Reply(u, "failed", {}, u.db, "error")
  <2>3. /\ IsReply(a) /\ a.w.tx = "failed" /\ a.w.work = {} /\ a.w.db = u.db
        /\ a.w.handle = "ok" /\ a.w.saves = u.saves /\ a.w.inhibit = u.inhibit
        /\ a.w.trans = u.trans
    BY <1>3, ReplyFacts DEF TxState
  <2>4. Holds(a.w, s) BY <2>3 DEF Holds
  <2> QED BY <2>3, <2>4 DEF Goes, IsReply
<1> QED BY <1>1, <1>2, <1>3

\* A statement inside a block that is not sent on another session: the block
\* goes on.
LEMMA SqlFacts ==
  ASSUME NEW s, NEW u, Sane(u), Holds(u, s), u.handle # "none", u.alive => u.tx # "idle",
         NEW eff, eff \subseteq s, NEW o \in Exec(u, "SQL", eff)
  PROVE  Goes(u, o.w, s) /\ (o.exc = "ok" => o.w.handle # "none")
<1>1. \A v : SentOn(u, v) => v = u BY DEF SentOn
<1>2. u.alive => \A a \in Answers(u, "SQL", eff) : IsReply(a) /\ Goes(u, a.w, s)
  BY StatementFacts
<1>3. PICK v : Outcome(u, v, Answers(v, "SQL", eff), o) BY <1>1, <1>2, ExecFacts
<1>4. CASE o.exc # "ok" /\ Dead(u, o.w) BY <1>4, DeadGoes
<1>5. CASE SentOn(u, v) /\ v.alive /\ \E a \in Answers(v, "SQL", eff) : Came(a, o)
  <2>1. PICK a \in Answers(u, "SQL", eff) : Came(a, o) BY <1>1, <1>5
  <2>2. IsReply(a) /\ Goes(u, a.w, s) BY <1>1, <1>2, <1>5
  <2>3. CASE is_open(a.w) /\ o.w = a.w BY <2>2, <2>3 DEF is_open
  <2>4. CASE o.exc # "ok" /\ Dead(a.w, o.w)
    <3>1. Holds(a.w, s) BY <2>2 DEF Goes
    <3>2. Goes(a.w, o.w, s) BY <2>4, <3>1, DeadGoes
    <3> QED BY <2>2, <2>4, <3>2, GoesOn
  <2> QED BY <2>1, <2>3, <2>4 DEF Came
<1> QED BY <1>3, <1>4, <1>5 DEF Outcome

\* From u to y nothing becomes durable, and there is no block in y.
Idle(u, y) ==
  Sane(y) /\ y.tx = "idle" /\ y.db = u.db /\ y.inhibit = u.inhibit

\* BEGIN outside a block.
LEMMA BeginFacts ==
  ASSUME NEW u, Sane(u), u.tx = "idle", NEW o \in Exec(u, "BEGIN", {})
  PROVE  /\ o.exc = "ok" =>
              /\ Sane(o.w) /\ o.w.tx = "open" /\ o.w.work = {} /\ o.w.handle = "ok"
              /\ o.w.db = u.db /\ o.w.inhibit = u.inhibit /\ o.w.saves = u.saves
         /\ o.exc # "ok" => Idle(u, o.w)
         /\ o.w.trans = u.trans
<1>1. ASSUME NEW v, SentOn(u, v), v.alive, NEW a \in Answers(v, "BEGIN", {})
      PROVE  /\ IsReply(a) /\ a.res = "ok" /\ a.w.tx = "open" /\ a.w.work = {}
             /\ a.w.db = u.db /\ a.w.inhibit = u.inhibit /\ a.w.saves = u.saves
             /\ a.w.trans = u.trans
  <2>1. /\ Sane(v) /\ v.tx = "idle" /\ v.work = {} /\ v.db = u.db
        /\ v.inhibit = u.inhibit /\ v.saves = u.saves /\ v.trans = u.trans
    BY <1>1 DEF SentOn, Sane
  <2>2. a = Reply(v, "open", {}, u.db, "ok") BY <1>1, <2>1 DEF Answers, BeginBlock
  <2>3. "open" \in TxState BY DEF TxState
  <2>4. /\ IsReply(a) /\ a.res = "ok" /\ a.w.tx = "open" /\ a.w.work = {} /\ a.w.db = u.db
        /\ a.w.saves = v.saves /\ a.w.inhibit = v.inhibit /\ a.w.trans = v.trans
    BY <1>1, <2>1, <2>2, <2>3, ReplyFacts
  <2> QED BY <2>1, <2>4
<1>2. PICK v : Outcome(u, v, Answers(v, "BEGIN", {}), o) BY <1>1, ExecFacts
<1>3. CASE o.exc # "ok" /\ Dead(u, o.w) BY <1>3 DEF Dead, Idle
<1>4. CASE SentOn(u, v) /\ v.alive /\ \E a \in Answers(v, "BEGIN", {}) : Came(a, o)
  <2>1. PICK a \in Answers(v, "BEGIN", {}) : Came(a, o) BY <1>4
  <2>2. /\ IsReply(a) /\ a.res = "ok" /\ a.w.tx = "open" /\ a.w.work = {}
        /\ a.w.db = u.db /\ a.w.inhibit = u.inhibit /\ a.w.saves = u.saves
        /\ a.w.trans = u.trans
    BY <1>1, <1>4
  <2> QED BY <2>1, <2>2 DEF Came, Dead, Idle, IsReply, is_open
<1> QED BY <1>2, <1>3, <1>4 DEF Outcome

\* ROLLBACK, on this session or another.
LEMMA RollbackFacts ==
  ASSUME NEW u, Sane(u), NEW o \in Exec(u, "ROLLBACK", {})
  PROVE  Idle(u, o.w) /\ o.w.trans = u.trans
<1>1. ASSUME NEW v, SentOn(u, v), v.alive, NEW a \in Answers(v, "ROLLBACK", {})
      PROVE  /\ IsReply(a) /\ a.w.tx = "idle" /\ a.w.db = u.db
             /\ a.w.inhibit = u.inhibit /\ a.w.trans = u.trans
  <2>1. Sane(v) /\ v.db = u.db /\ v.inhibit = u.inhibit /\ v.trans = u.trans
    BY <1>1 DEF SentOn
  <2>2. a = Reply(v, "idle", {}, u.db, "ok") BY <1>1, <2>1 DEF Answers, RollbackBlock
  <2>3. "idle" \in TxState BY DEF TxState
  <2>4. /\ IsReply(a) /\ a.w.tx = "idle" /\ a.w.db = u.db /\ a.w.inhibit = v.inhibit
        /\ a.w.trans = v.trans
    BY <1>1, <2>1, <2>2, <2>3, ReplyFacts
  <2> QED BY <2>1, <2>4
<1>2. PICK v : Outcome(u, v, Answers(v, "ROLLBACK", {}), o) BY <1>1, ExecFacts
<1>3. CASE o.exc # "ok" /\ Dead(u, o.w) BY <1>3 DEF Dead, Idle
<1>4. CASE SentOn(u, v) /\ v.alive /\ \E a \in Answers(v, "ROLLBACK", {}) : Came(a, o)
  <2>1. PICK a \in Answers(v, "ROLLBACK", {}) : Came(a, o) BY <1>4
  <2>2. /\ IsReply(a) /\ a.w.tx = "idle" /\ a.w.db = u.db /\ a.w.inhibit = u.inhibit
        /\ a.w.trans = u.trans
    BY <1>1, <1>4
  <2> QED BY <2>1, <2>2 DEF Came, Dead, Idle, IsReply
<1> QED BY <1>2, <1>3, <1>4 DEF Outcome

\* COMMIT on the session there is: its work becomes durable, or not, and a
\* connection that is still open has the answer.
Settles(u, o) ==
  /\ Sane(o.w) /\ o.w.tx = "idle" /\ o.w.inhibit = u.inhibit /\ o.w.trans = u.trans
  /\ o.w.db \in {u.db, u.db \cup u.work}
  /\ o.exc # "ok" /\ is_open(o.w) => o.w.db = u.db
  /\ o.exc = "ok" => u.alive /\ o.w.db = u.db \cup u.work

\* COMMIT settles the block.
LEMMA CommitFacts ==
  ASSUME NEW u, Sane(u), is_open(u), NEW o \in Exec(u, "COMMIT", {})
  PROVE  Settles(u, o)
<1>1. \A v : SentOn(u, v) => v = u BY DEF SentOn, is_open
<1>2. ASSUME u.alive, NEW a \in Answers(u, "COMMIT", {})
      PROVE  /\ IsReply(a) /\ a.w.tx = "idle" /\ a.w.inhibit = u.inhibit
             /\ a.w.db \in {u.db, u.db \cup u.work} /\ a.w.trans = u.trans
             /\ a.res # "ok" => a.w.db = u.db
             /\ a.res = "ok" => a.w.db = u.db \cup u.work
  <2> DEFINE d == u.db \cup u.work
  <2>1. \/ a = Reply(u, "idle", {}, d, "ok") \/ a = Reply(u, "idle", {}, u.db, "error")
    BY <1>2 DEF Answers, CommitBlock
  <2>3. "idle" \in TxState BY DEF TxState
  <2> HIDE DEF d
  <2>4. CASE a = Reply(u, "idle", {}, d, "ok")
    <3>1. /\ IsReply(a) /\ a.res = "ok" /\ a.w.tx = "idle" /\ a.w.db = d
          /\ a.w.inhibit = u.inhibit /\ a.w.trans = u.trans
      BY <1>2, <2>3, <2>4, ReplyFacts
    <3> QED BY <3>1 DEF d
  <2>5. CASE a = Reply(u, "idle", {}, u.db, "error")
    <3>1. /\ IsReply(a) /\ a.w.tx = "idle" /\ a.w.db = u.db /\ a.w.inhibit = u.inhibit
          /\ a.w.trans = u.trans /\ a.res = "error"
      BY <1>2, <2>3, <2>5, ReplyFacts
    <3> QED BY <3>1
  <2> QED BY <2>1, <2>4, <2>5
<1>3. PICK v : Outcome(u, v, Answers(v, "COMMIT", {}), o) BY <1>1, <1>2, ExecFacts
<1>4. CASE o.exc # "ok" /\ Dead(u, o.w) BY <1>4 DEF Dead, Settles
<1>5. CASE SentOn(u, v) /\ v.alive /\ \E a \in Answers(v, "COMMIT", {}) : Came(a, o)
  <2>1. PICK a \in Answers(u, "COMMIT", {}) : Came(a, o) BY <1>1, <1>5
  <2>2. /\ IsReply(a) /\ a.w.tx = "idle" /\ a.w.inhibit = u.inhibit
        /\ a.w.db \in {u.db, u.db \cup u.work} /\ a.w.trans = u.trans
        /\ a.res # "ok" => a.w.db = u.db
        /\ a.res = "ok" => a.w.db = u.db \cup u.work
    BY <1>1, <1>2, <1>5
  <2> QED BY <1>1, <1>5, <2>1, <2>2 DEF Came, Dead, Settles, IsReply, is_open
<1> QED BY <1>3, <1>4, <1>5 DEF Outcome

----------------------------------------------------------------------------
(* The members of transactions and subtransactions, on x = [w, o].         *)

IsX(x) == x = [w |-> x.w, o |-> x.o]

\* A transaction object: it has no stream and no error to report.
IsTx(o) == o \in ObjType /\ o.focus = FALSE /\ o.perr = FALSE

\* Lift() leaves the object alone.
LEMMA LiftFacts ==
  ASSUME NEW x, IsX(x), NEW os, NEW r \in Lift(x, os)
  PROVE  \E o \in os : IsX(r.x) /\ r.x.w = o.w /\ r.x.o = x.o /\ r.exc = o.exc
<1>1. PICK o \in os : r = Ret([x EXCEPT !.w = o.w], o.exc) BY DEF Lift
<1>2. r.x = [x EXCEPT !.w = o.w] /\ r.exc = o.exc BY <1>1 DEF Ret
<1>3. r.x = [w |-> o.w, o |-> x.o] BY <1>2 DEF IsX
<1> QED BY <1>2, <1>3 DEF IsX

\* DirectExec(): a pending error, or connection_base::Exec().
LEMMA DirectFacts ==
  ASSUME NEW x, IsX(x), NEW op, NEW eff, NEW r \in DirectExec(x, op, eff)
  PROVE  /\ IsX(r.x)
         /\ \/ x.o.perr # FALSE /\ r.exc # "ok" /\ r.x.w = x.w
            \/ \E o \in Exec(x.w, op, eff) : r.x.w = o.w /\ r.x.o = x.o /\ r.exc = o.exc
<1> DEFINE p == CheckPendingError(x)
<1>1. CASE p.exc = "ok"
  <2> DEFINE os == Exec(x.w, op, eff)
  <2>1. r \in Lift(x, os) BY <1>1 DEF DirectExec
  <2> HIDE DEF os
  <2>2. \E o \in os : IsX(r.x) /\ r.x.w = o.w /\ r.x.o = x.o /\ r.exc = o.exc
    BY <2>1, LiftFacts
  <2> QED BY <2>2 DEF os
<1>2. CASE p.exc # "ok"
  <2>1. r = p BY <1>2 DEF DirectExec
  <2>2. p.x = [x EXCEPT !.o.perr = FALSE] /\ x.o.perr # FALSE
    BY <1>2 DEF CheckPendingError, Ret
  <2>3. p.x = [w |-> x.w, o |-> [x.o EXCEPT !.perr = FALSE]] BY <2>2 DEF IsX
  <2>4. IsX(p.x) /\ p.x.w = x.w BY <2>3 DEF IsX
  <2> HIDE DEF p
  <2> QED BY <1>2, <2>1, <2>2, <2>4
<1> QED BY <1>1, <1>2

\* Unregister() and SetStatus() leave the session alone.
LEMMA UnregisterFacts ==
  ASSUME NEW x, IsX(x), Sane(x.w), IsTx(x.o)
  PROVE  LET y == Unregister(x)
         IN /\ IsX(y) /\ IsTx(y.o) /\ y.o.st = x.o.st /\ Sane(y.w)
            /\ y.w.tx = x.w.tx /\ y.w.db = x.w.db /\ y.w.inhibit = x.w.inhibit
            /\ y.w.trans = IF x.o.reg THEN NoTrans ELSE x.w.trans
<1> DEFINE y == Unregister(x)
           v == x.w
<1>1. y.o = [x.o EXCEPT !.perr = FALSE, !.reg = FALSE] /\ IsX(y) BY DEF Unregister, IsX
<1>2. \/ ~x.o.reg /\ y.w = v
      \/ x.o.reg /\ y.w = [v EXCEPT !.trans = NoTrans]
  BY DEF Unregister
<1> HIDE DEF y
<1>3. IsTx(y.o) /\ y.o.st = x.o.st BY <1>1 DEF IsTx, ObjType
<1>4. CASE x.o.reg /\ y.w = [v EXCEPT !.trans = NoTrans]
  <2> DEFINE z == y.w
  <2>1. z = [v EXCEPT !.trans = NoTrans] BY <1>4
  <2> HIDE DEF z
  <2>2. /\ IsWorld(z) /\ z.handle = v.handle /\ z.alive = v.alive /\ z.tx = v.tx
        /\ z.copy = v.copy /\ z.work = v.work /\ z.db = v.db /\ z.inhibit = v.inhibit
        /\ z.avoid = v.avoid /\ z.trans = NoTrans
    BY <2>1 DEF Sane, IsWorld
  <2>3. Sane(z) BY <2>2 DEF Sane
  <2> QED BY <1>1, <1>3, <1>4, <2>2, <2>3 DEF z, y
<1> QED BY <1>1, <1>2, <1>3, <1>4 DEF y

\* SetStatus() changes the status alone.
LEMMA SetStatusFacts ==
  ASSUME NEW x, NEW st
  PROVE  /\ IsX(SetStatus(x, st)) /\ SetStatus(x, st).w = x.w
         /\ IsTx(x.o) /\ st \in Status =>
              /\ IsTx(SetStatus(x, st).o) /\ SetStatus(x, st).o.st = st
              /\ SetStatus(x, st).o.reg = x.o.reg
<1> DEFINE o == SetStatus(x, st).o
<1>1. o = [x.o EXCEPT !.st = st] /\ IsX(SetStatus(x, st)) /\ SetStatus(x, st).w = x.w
  BY DEF SetStatus, IsX
<1> HIDE DEF o
<1>2. IsTx(x.o) /\ st \in Status => IsTx(o) /\ o.st = st /\ o.reg = x.o.reg
  BY <1>1 DEF IsTx, ObjType
<1> QED BY <1>1, <1>2 DEF o

\* Whoever is registered with the connection knows.
Knows(x) == x.w.trans # NoTrans => x.o.reg

\* x is ended: nothing of it became durable, its block is gone and it is not
\* registered any more.
Ended(x, r) ==
  /\ IsX(r.x) /\ IsTx(r.x.o) /\ r.x.o.st = "aborted" /\ Idle(x.w, r.x.w)
  /\ Knows(x) => r.x.w.trans = NoTrans

\* abort() of a transaction that is active.
LEMMA AbortFacts ==
  ASSUME NEW x, IsX(x), Sane(x.w), IsTx(x.o), x.o.st = "active",
         NEW r \in abort(x, "transaction")
  PROVE  Ended(x, r)
<1>1. PICK q \in DirectExec(x, "ROLLBACK", {}) :
        r = Ret(Unregister(SetStatus(q.x, "aborted")), "ok")
  BY DEF abort, do_abort
<1>2. PICK o \in Exec(x.w, "ROLLBACK", {}) : q.x.w = o.w /\ q.x.o = x.o /\ q.exc = o.exc
  BY DirectFacts DEF IsTx
<1>3. Idle(x.w, q.x.w) /\ q.x.w.trans = x.w.trans BY <1>2, RollbackFacts
<1> DEFINE a == SetStatus(q.x, "aborted")
<1>4. IsX(a) /\ a.w = q.x.w /\ IsTx(a.o) /\ a.o.st = "aborted" /\ a.o.reg = x.o.reg
  BY <1>2, SetStatusFacts DEF Status
<1> HIDE DEF a
<1>5. Sane(a.w) BY <1>3, <1>4 DEF Idle
<1> DEFINE y == Unregister(a)
<1>6. /\ IsX(y) /\ IsTx(y.o) /\ y.o.st = a.o.st /\ Sane(y.w)
      /\ y.w.tx = a.w.tx /\ y.w.db = a.w.db /\ y.w.inhibit = a.w.inhibit
      /\ y.w.trans = IF a.o.reg THEN NoTrans ELSE a.w.trans
  BY <1>4, <1>5, UnregisterFacts
<1>7. r.x = y BY <1>1 DEF Ret, a
<1> HIDE DEF y
<1> QED BY <1>3, <1>4, <1>6, <1>7 DEF Ended, Idle, Knows

\* End(), from the destructor.
LEMMA EndFacts ==
  ASSUME NEW x, IsX(x), Sane(x.w), IsTx(x.o), x.w.tx # "idle" => x.o.st = "active",
         NEW r \in End(x, "transaction")
  PROVE  /\ IsX(r.x) /\ IsTx(r.x.o) /\ Idle(x.w, r.x.w) /\ r = [x |-> r.x, exc |-> r.exc]
         /\ r.x.o.st = IF x.o.st = "active" THEN "aborted" ELSE x.o.st
         /\ Knows(x) => r.x.w.trans = NoTrans
<1> DEFINE y == Unregister(x)
<1>1. /\ IsX(y) /\ IsTx(y.o) /\ y.o.st = x.o.st /\ Sane(y.w)
      /\ y.w.tx = x.w.tx /\ y.w.db = x.w.db /\ y.w.inhibit = x.w.inhibit
      /\ y.w.trans = IF x.o.reg THEN NoTrans ELSE x.w.trans
  BY UnregisterFacts
<1>2. CASE x.o.st = "active"
  <2>1. r \in abort(y, "transaction") BY <1>2 DEF End
  <2> HIDE DEF y
  <2>2. Ended(y, r) BY <1>1, <1>2, <2>1, AbortFacts
  <2>3. r = [x |-> r.x, exc |-> r.exc] BY <1>1, <1>2, <2>1 DEF abort, Ret
  <2> QED BY <1>1, <1>2, <2>2, <2>3 DEF Ended, Idle, Knows
<1>3. CASE x.o.st # "active"
  <2>1. r = Ret(y, "ok") BY <1>3 DEF End
  <2> HIDE DEF y
  <2>2. r.x = y /\ r = [x |-> r.x, exc |-> r.exc] BY <2>1 DEF Ret
  <2> QED BY <1>1, <1>3, <2>2 DEF Idle, Knows
<1> QED BY <1>2, <1>3

\* exec() of an active transaction: the block goes on, or the transaction is
\* aborted with it.
LEMMA XExecFacts ==
  ASSUME NEW s, NEW x, IsX(x), Sane(x.w), Holds(x.w, s), IsTx(x.o), x.o.st = "active",
         x.w.handle # "none", x.w.alive => x.w.tx # "idle", NEW eff, eff \subseteq s,
         NEW r \in exec(x, "transaction", "SQL", eff)
  PROVE  /\ r.exc = "ok" => /\ r.x.o = x.o /\ Goes(x.w, r.x.w, s)
                            /\ r.x.w.handle # "none"
         /\ r.exc # "ok" => Ended(x, r)
<1>1. PICK q \in DirectExec(x, "SQL", eff) :
        r \in IF q.exc = "ok" THEN {q} ELSE {Ret(a.x, q.exc) : a \in abort(q.x, "transaction")}
  <2>1. CheckPendingError(x).exc = "ok" BY DEF CheckPendingError, Ret, IsTx
  <2>2. r \in do_exec(x, "transaction", "SQL", eff) BY <2>1 DEF exec, IsTx
  <2> QED BY <2>2 DEF do_exec
<1>2. PICK o \in Exec(x.w, "SQL", eff) : q.x.w = o.w /\ q.x.o = x.o /\ q.exc = o.exc
  BY DirectFacts DEF IsTx
<1>3. Goes(x.w, o.w, s) /\ (o.exc = "ok" => o.w.handle # "none") BY SqlFacts
<1>4. IsX(q.x) BY DirectFacts
<1>5. CASE q.exc = "ok" BY <1>1, <1>2, <1>3, <1>5
<1>6. CASE q.exc # "ok"
  <2>1. PICK a \in abort(q.x, "transaction") : r = Ret(a.x, q.exc) BY <1>1, <1>6
  <2>2. r.x = a.x /\ r.exc = q.exc BY <2>1 DEF Ret
  <2>3. Sane(q.x.w) BY <1>2, <1>3 DEF Goes
  <2>4. Ended(q.x, a) BY <1>2, <1>4, <2>3, AbortFacts
  <2> QED BY <1>2, <1>3, <1>6, <2>2, <2>4 DEF Ended, Idle, Goes, Knows
<1> QED BY <1>5, <1>6

\* commit() of an active transaction.  A connection that is lost on the way
\* leaves it in doubt.
LEMMA XCommitFacts ==
  ASSUME NEW x, IsX(x), Sane(x.w), IsTx(x.o), x.o.st = "active",
         NEW r \in commit(x, "transaction")
  PROVE  /\ IsTx(r.x.o) /\ Sane(r.x.w) /\ r.x.w.tx = "idle"
         /\ r.x.w.inhibit = x.w.inhibit /\ r.x.w.db \in {x.w.db, x.w.db \cup x.w.work}
         /\ r.exc = "ok" => r.x.o.st = "committed"
         /\ r.exc # "ok" => r.x.o.st # "committed"
         /\ r.x.o.st = "in_doubt" => r.exc = "in_doubt"
         /\ r.x.o.st \notin {"committed", "in_doubt"} => r.x.w.db = x.w.db
         /\ r.exc = "ok" => x.w.alive /\ r.x.w.db = x.w.db \cup x.w.work
         /\ r.x.o.st # "absent"
         /\ Knows(x) => Knows(r.x) /\ r.x.w.trans \in {NoTrans, x.w.trans}
<1>1. CheckPendingError(x).exc = "ok" BY DEF CheckPendingError, Ret, IsTx
<1>2. CASE ~is_open(x.w)
  <2>1. r = Ret(x, "broken") BY <1>1, <1>2 DEF commit, IsTx
  <2>2. r.x = x /\ r.exc = "broken" BY <2>1 DEF Ret
  <2> QED BY <1>2, <2>2 DEF is_open, Sane
<1>3. CASE is_open(x.w)
  <2>1. PICK d \in do_commit(x, "transaction") :
          r = CASE d.exc = "ok" -> Ret(Unregister(SetStatus(d.x, "committed")), "ok")
                [] d.exc = "in_doubt" -> Ret(SetStatus(d.x, "in_doubt"), d.exc)
                [] OTHER -> Ret(SetStatus(d.x, "aborted"), d.exc)
    BY <1>1, <1>3 DEF commit, IsTx
  <2>2. PICK q \in DirectExec(x, "COMMIT", {}) :
          d = IF q.exc # "ok" /\ ~is_open(q.x.w) THEN Ret(q.x, "in_doubt") ELSE q
    BY DEF do_commit
  <2>3. PICK o \in Exec(x.w, "COMMIT", {}) : q.x.w = o.w /\ q.x.o = x.o /\ q.exc = o.exc
    BY DirectFacts DEF IsTx
  <2>4. Settles(x.w, o) BY <1>3, CommitFacts
  <2>5. d.x = q.x /\ (d.exc = "ok" <=> q.exc = "ok")
        /\ (d.exc \notin {"ok", "in_doubt"} => is_open(q.x.w))
    BY <2>2 DEF Ret
  <2>6. IsX(d.x) /\ IsTx(d.x.o) /\ d.x.o.reg = x.o.reg
    BY <2>3, <2>5, DirectFacts, ZenonT(60)
  <2>7. CASE d.exc = "ok"
    <3> DEFINE c == SetStatus(d.x, "committed")
               y == Unregister(c)
    <3>1. r = Ret(y, "ok") BY <2>1, <2>7
    <3>2. r.x = y /\ r.exc = "ok" BY <3>1 DEF Ret
    <3>3. /\ IsX(c) /\ c.w = d.x.w /\ IsTx(c.o) /\ c.o.st = "committed"
          /\ c.o.reg = x.o.reg
      BY <2>6, SetStatusFacts DEF Status
    <3>4. Sane(c.w) BY <2>3, <2>4, <2>5, <3>3 DEF Settles
    <3> HIDE DEF c
    <3>5. /\ IsTx(y.o) /\ y.o.st = c.o.st /\ Sane(y.w)
          /\ y.w.tx = c.w.tx /\ y.w.db = c.w.db /\ y.w.inhibit = c.w.inhibit
          /\ y.w.trans = IF c.o.reg THEN NoTrans ELSE c.w.trans
      BY <3>3, <3>4, UnregisterFacts
    <3> HIDE DEF y
    <3>6. Knows(x) => r.x.w.trans = NoTrans
      <4>1. r.x.w.trans = IF x.o.reg THEN NoTrans ELSE x.w.trans
        BY <2>3, <2>4, <2>5, <3>2, <3>3, <3>5 DEF Settles
      <4> QED BY <4>1 DEF Knows
    <3> QED BY <2>3, <2>4, <2>5, <2>7, <3>2, <3>3, <3>5, <3>6 DEF Settles, Knows
  <2>8. CASE d.exc = "in_doubt"
    <3> DEFINE c == SetStatus(d.x, "in_doubt")
    <3>1. r = Ret(c, "in_doubt") BY <2>1, <2>8
    <3>2. r.x = c /\ r.exc = "in_doubt" BY <3>1 DEF Ret
    <3>3. c.w = d.x.w /\ IsTx(c.o) /\ c.o.st = "in_doubt" /\ c.o.reg = x.o.reg
      BY <2>6, SetStatusFacts DEF Status
    <3> HIDE DEF c
    <3> QED BY <2>3, <2>4, <2>5, <3>2, <3>3 DEF Settles, Knows
  <2>9. CASE d.exc \notin {"ok", "in_doubt"}
    <3> DEFINE c == SetStatus(d.x, "aborted")
    <3>1. r = Ret(c, d.exc) BY <2>1, <2>9
    <3>2. r.x = c /\ r.exc = d.exc BY <3>1 DEF Ret
    <3>3. c.w = d.x.w /\ IsTx(c.o) /\ c.o.st = "aborted" /\ c.o.reg = x.o.reg
      BY <2>6, SetStatusFacts DEF Status
    <3> HIDE DEF c
    <3> QED BY <2>3, <2>4, <2>5, <2>9, <3>2, <3>3 DEF Settles, Knows
  <2> QED BY <2>7, <2>8, <2>9
<1> QED BY <1>2, <1>3

\* A subtransaction's members, with reactivation inhibited, leave X's block
\* going on.
SubGoes(x, r, s) == IsX(r.x) /\ Goes(x.w, r.x.w, s)

\* Each savepoint command of a subtransaction does.
LEMMA SubSaveFacts ==
  ASSUME NEW s, NEW x, IsX(x), Sane(x.w), x.w.inhibit, Holds(x.w, s), NEW op, NEW sp,
         NEW r \in ExecSave(x, op, sp)
  PROVE  SubGoes(x, r, s)
<1>1. x = [w |-> x.w, o |-> x.o] BY DEF IsX
<1>2. Goes(x.w, r.x.w, s) /\ r.x = [w |-> r.x.w, o |-> x.o] BY <1>1, SaveFacts
<1>3. r.x.o = x.o BY <1>2
<1> QED BY <1>2, <1>3 DEF IsX, SubGoes

\* abort() and End() of a subtransaction.
LEMMA SubAbortFacts ==
  ASSUME NEW s, NEW x, IsX(x), Sane(x.w), x.w.inhibit, Holds(x.w, s), NEW sp, NEW r,
         r \in sub_abort(x, sp) \/ r \in sub_End(x, sp)
  PROVE  SubGoes(x, r, s)
<1>1. Goes(x.w, x.w, s) BY GoesOn
<1>2. ASSUME r \in sub_abort(x, sp) PROVE SubGoes(x, r, s)
  <2>1. CASE x.o.st = "active"
    <3>1. PICK q : q \in ExecSave(x, "ROLLBACK TO", sp) /\ r = Ret(SetStatus(q.x, "aborted"), "ok")
      BY <1>2, <2>1 DEF sub_abort, sub_do_abort
    <3>2. r.x = SetStatus(q.x, "aborted") BY <3>1 DEF Ret
    <3>3. SubGoes(x, q, s) BY <3>1, SubSaveFacts
    <3>4. IsX(r.x) /\ r.x.w = q.x.w BY <3>2, SetStatusFacts
    <3> QED BY <3>3, <3>4 DEF SubGoes
  <2>2. CASE x.o.st # "active"
    <3>1. r = Ret(SetStatus(x, "aborted"), "ok") \/ r = Ret(x, "usage") \/ r = Ret(x, "ok")
      BY <1>2, <2>2 DEF sub_abort
    <3>2. r.x = SetStatus(x, "aborted") \/ r.x = x BY <3>1 DEF Ret
    <3> QED BY <1>1, <3>2, SetStatusFacts DEF SubGoes
  <2> QED BY <2>1, <2>2
<1>3. ASSUME r \in sub_End(x, sp), r \notin sub_abort(x, sp) PROVE SubGoes(x, r, s)
  <2>1. r = Ret(x, "ok") BY <1>3 DEF sub_End
  <2>2. r.x = x BY <2>1 DEF Ret
  <2> QED BY <1>1, <2>2 DEF SubGoes
<1> QED BY <1>2, <1>3

\* activate() of a subtransaction sets its savepoint.
LEMMA SubActivateFacts ==
  ASSUME NEW s, NEW x, IsX(x), Sane(x.w), x.w.inhibit, Holds(x.w, s), NEW sp,
         NEW r \in sub_activate(x, sp)
  PROVE  SubGoes(x, r, s)
<1>1. Goes(x.w, x.w, s) BY GoesOn
<1>2. CASE x.o.st = "nascent"
  <2> DEFINE os == get_notifs(x.w)
  <2>1. PICK n \in Lift(x, os) :
          r \in IF n.exc # "ok" THEN {n}
                ELSE {IF q.exc = "ok" THEN Ret(SetStatus(q.x, "active"), "ok") ELSE q :
                      q \in ExecSave(n.x, "SAVEPOINT", sp)}
    BY <1>2 DEF sub_activate, sub_do_begin
  <2>2. PICK o \in os : IsX(n.x) /\ n.x.w = o.w /\ n.x.o = x.o /\ n.exc = o.exc
    BY LiftFacts
  <2>3. o.w = x.w \/ Dead(x.w, o.w) BY NotifsFacts
  <2>4. Goes(x.w, n.x.w, s) BY <1>1, <2>2, <2>3, DeadGoes
  <2>5. CASE n.exc # "ok" BY <2>1, <2>2, <2>4, <2>5 DEF SubGoes
  <2>6. CASE n.exc = "ok"
    <3>1. PICK q \in ExecSave(n.x, "SAVEPOINT", sp) :
            r = IF q.exc = "ok" THEN Ret(SetStatus(q.x, "active"), "ok") ELSE q
      BY <2>1, <2>6
    <3>2. Sane(n.x.w) /\ n.x.w.inhibit /\ Holds(n.x.w, s) BY <2>4 DEF Goes
    <3>3. SubGoes(n.x, q, s) BY <2>2, <3>2, SubSaveFacts
    <3>4. Goes(x.w, q.x.w, s) BY <2>4, <3>3, GoesOn DEF SubGoes
    <3>5. r.x = SetStatus(q.x, "active") \/ r = q BY <3>1 DEF Ret
    <3> QED BY <3>3, <3>4, <3>5, SetStatusFacts DEF SubGoes
  <2> QED BY <2>5, <2>6
<1>3. CASE x.o.st # "nascent"
  <2>1. r = Ret(x, "ok") \/ r = Ret(x, "usage") BY <1>3 DEF sub_activate
  <2>2. r.x = x BY <2>1 DEF Ret
  <2> QED BY <1>1, <2>2 DEF SubGoes
<1> QED BY <1>2, <1>3

\* exec() of a subtransaction.
LEMMA SubExecFacts ==
  ASSUME NEW s, NEW x, IsX(x), Sane(x.w), x.w.inhibit, Holds(x.w, s),
         x.w.handle # "none", x.w.alive => x.w.tx # "idle", NEW eff, eff \subseteq s,
         NEW sp, NEW r \in sub_exec(x, sp, eff)
  PROVE  SubGoes(x, r, s)
<1>1. PICK a \in sub_activate(x, sp) :
        r \in IF a.exc # "ok" THEN {a}
              ELSE UNION {IF q.exc = "ok" THEN {q}
                          ELSE {Ret(b.x, q.exc) : b \in sub_abort(q.x, sp)} :
                          q \in DirectExec(a.x, "SQL", eff)}
  BY DEF sub_exec
<1>2. SubGoes(x, a, s) BY SubActivateFacts
<1>3. CASE a.exc # "ok" BY <1>1, <1>2, <1>3
<1>4. CASE a.exc = "ok"
  <2>1. PICK q \in DirectExec(a.x, "SQL", eff) :
          r \in IF q.exc = "ok" THEN {q} ELSE {Ret(b.x, q.exc) : b \in sub_abort(q.x, sp)}
    BY <1>1, <1>4
  <2>2. /\ IsX(a.x) /\ Sane(a.x.w) /\ a.x.w.inhibit /\ Holds(a.x.w, s)
        /\ a.x.w.handle # "none" /\ (a.x.w.alive => a.x.w.tx # "idle")
    BY <1>2 DEF SubGoes, Goes
  <2>3. /\ IsX(q.x)
        /\ q.x.w = a.x.w \/ \E o \in Exec(a.x.w, "SQL", eff) : q.x.w = o.w
    BY <2>2, DirectFacts
  <2>4. Goes(a.x.w, q.x.w, s)
    <3>1. Goes(a.x.w, a.x.w, s) BY <2>2, GoesOn
    <3>2. \A o \in Exec(a.x.w, "SQL", eff) : Goes(a.x.w, o.w, s) BY <2>2, SqlFacts
    <3> QED BY <2>3, <3>1, <3>2
  <2>5. Goes(x.w, q.x.w, s) BY <1>2, <2>4, GoesOn DEF SubGoes
  <2>6. CASE q.exc = "ok" BY <2>1, <2>3, <2>5, <2>6 DEF SubGoes
  <2>7. CASE q.exc # "ok"
    <3>1. PICK b \in sub_abort(q.x, sp) : r = Ret(b.x, q.exc) BY <2>1, <2>7
    <3>2. r.x = b.x BY <3>1 DEF Ret
    <3>3. Sane(q.x.w) /\ q.x.w.inhibit /\ Holds(q.x.w, s) BY <2>5 DEF Goes
    <3>4. SubGoes(q.x, b, s) BY <2>3, <3>3, SubAbortFacts
    <3>5. Goes(x.w, b.x.w, s) BY <2>5, <3>4, GoesOn DEF SubGoes
    <3> QED BY <3>2, <3>4, <3>5 DEF SubGoes
  <2> QED BY <2>6, <2>7
<1> QED BY <1>3, <1>4

\* commit() of a subtransaction.
LEMMA SubCommitFacts ==
  ASSUME NEW s, NEW x, IsX(x), Sane(x.w), x.w.inhibit, Holds(x.w, s), NEW sp,
         NEW r \in sub_commit(x, sp)
  PROVE  SubGoes(x, r, s)
<1>1. Goes(x.w, x.w, s) BY GoesOn
<1>2. CASE x.o.st = "active" /\ is_open(x.w)
  <2>1. PICK q \in ExecSave(x, "RELEASE", sp), st \in {"committed", "aborted"} :
          r = Ret(SetStatus(q.x, st), q.exc)
    BY <1>2 DEF sub_commit, sub_do_commit
  <2>2. r.x = SetStatus(q.x, st) BY <2>1 DEF Ret
  <2>3. SubGoes(x, q, s) BY SubSaveFacts
  <2> QED BY <2>2, <2>3, SetStatusFacts DEF SubGoes
<1>3. CASE ~(x.o.st = "active" /\ is_open(x.w))
  <2>1. r = Ret(x, "ok") \/ r = Ret(x, "usage") \/ r = Ret(x, "broken")
    BY <1>3 DEF sub_commit
  <2>2. r.x = x BY <2>1 DEF Ret
  <2> QED BY <1>1, <2>2 DEF SubGoes
<1> QED BY <1>2, <1>3

----------------------------------------------------------------------------
(* The invariant.                                                          *)

Decided(t) == obj[t].st \in {"committed", "in_doubt"}

NoneDecided == \A t \in Tx : ~Decided(t)

\* Some statements of t: they are told apart by whose they are.
IsWork(t, s) == IsFiniteSet(s) /\ s \subseteq Effect /\ \A e \in s : e[1] = t

\* The objects and their statements.
Objects ==
  /\ obj = [t \in Tx |-> obj[t]] /\ \A t \in Tx : IsTx(obj[t])
  /\ tried = [t \in Tx |-> tried[t]] /\ \A t \in Tx : IsWork(t, tried[t])

\* What is in the database is of a transaction whose outcome is decided.
Landed == \A e \in w.db : e[1] \in Tx /\ Decided(e[1]) /\ e \in tried[e[1]]

\* A block is X's, which is active, and holds work of X alone.  If a transaction
\* is registered it is X, which knows.
Block ==
  /\ Sane(w)
  /\ w.tx = "idle" => w.saves = <<>>
  /\ w.tx # "idle" => perf.x # NoTrans /\ obj[perf.x].st = "active"
  /\ perf.x # NoTrans => perf.x \in Tx /\ Holds(w, tried[perf.x])
  /\ subs # <<>> => w.inhibit /\ perf.x # NoTrans
  /\ w.trans # NoTrans => w.trans = perf.x /\ obj[perf.x].reg

\* Where perform() is, and what that says of the attempts.
Stage ==
  /\ perf = [pc |-> perf.pc, x |-> perf.x, left |-> perf.left, opened |-> perf.opened,
             exc |-> perf.exc, on_abort |-> perf.on_abort, on_commit |-> perf.on_commit,
             on_doubt |-> perf.on_doubt]
  /\ perf.pc \in {"loop", "body", "handling", "throwing", "committed", "returned", "threw"}
  /\ perf.on_commit = (IF perf.pc = "returned" THEN 1 ELSE 0)
  /\ perf.on_doubt = (IF perf.pc = "threw" /\ perf.exc = "in_doubt" THEN 1 ELSE 0)
  /\ \A t \in Tx, u \in Tx : Decided(t) /\ Decided(u) => t = u
  /\ perf.pc \in {"loop", "body", "handling"} => NoneDecided
  /\ perf.pc \in {"throwing", "threw"} /\ perf.exc # "in_doubt" => NoneDecided
  /\ perf.pc \in {"committed", "returned"} => \E t \in Tx : obj[t].st = "committed"
  /\ perf.left \in 0..Cardinality(Tx)
  /\ perf.pc = "loop" => perf.x = NoTrans /\ perf.left # 0
  /\ perf.pc \in {"body", "handling"} =>
       /\ perf.x # NoTrans /\ obj[perf.x].st = "active" /\ w.handle # "none"
       /\ w.alive => w.tx # "idle"

\* The inductive invariant.
NInv == Objects /\ Landed /\ Block /\ Stage

----------------------------------------------------------------------------
(* What the actions have in common.                                        *)

\* The world an action leaves: the savepoints of a block die with it.
Settled(v) == IF v.tx = "idle" THEN [v EXCEPT !.saves = <<>>] ELSE v

\* Nothing but the savepoints of a block that is gone is forgotten.
LEMMA SettledFacts ==
  ASSUME NEW v, Sane(v)
  PROVE  LET y == Settled(v)
         IN /\ Sane(y) /\ y.tx = v.tx /\ y.handle = v.handle /\ y.alive = v.alive
            /\ y.db = v.db /\ y.inhibit = v.inhibit /\ y.trans = v.trans
            /\ y.tx # "idle" => y = v
            /\ y.tx = "idle" => y.saves = <<>> /\ \A s : Holds(y, s)
            /\ \A s : Holds(v, s) => Holds(y, s)
<1> DEFINE y == Settled(v)
<1>1. CASE v.tx # "idle"
  <2>1. y = v BY <1>1 DEF Settled
  <2> QED BY <1>1, <2>1
<1>2. CASE v.tx = "idle"
  <2>1. y = [v EXCEPT !.saves = <<>>] BY <1>2 DEF Settled
  <2> HIDE DEF y
  <2>2. /\ IsWorld(y) /\ y.handle = v.handle /\ y.alive = v.alive /\ y.tx = v.tx
        /\ y.copy = v.copy /\ y.work = v.work /\ y.db = v.db /\ y.inhibit = v.inhibit
        /\ y.avoid = v.avoid /\ y.saves = <<>> /\ y.trans = v.trans
    BY <2>1 DEF Sane, IsWorld
  <2>3. Sane(y) BY <2>2 DEF Sane
  <2>4. y.work = {} BY <1>2, <2>2 DEF Sane
  <2>5. (\E S : <<>> \in Seq(S)) /\ DOMAIN <<>> = {}
    <3>1. <<>> \in Seq({}) OBVIOUS
    <3> QED BY <3>1
  <2>6. \A s : Holds(y, s) BY <2>2, <2>4, <2>5 DEF Holds
  <2> QED BY <1>2, <2>2, <2>3, <2>6 DEF y
<1> QED BY <1>1, <1>2

\* More may be in the set.
LEMMA HoldsMore ==
  ASSUME NEW v, NEW s, NEW t, Holds(v, s), s \subseteq t
  PROVE  Holds(v, t)
BY DEF Holds

\* A call of X, or in X, on a statement of X.
LEMMA ObjectsStep ==
  ASSUME Objects, NEW t \in Tx, NEW o, IsTx(o), NEW eff, IsWork(t, eff),
         obj' = [obj EXCEPT ![t] = o], tried' = [tried EXCEPT ![t] = tried[t] \cup eff]
  PROVE  /\ Objects' /\ obj'[t] = o /\ \A u \in Tx \ {t} : obj'[u] = obj[u]
         /\ tried'[t] = tried[t] \cup eff /\ \A u \in Tx : tried[u] \subseteq tried'[u]
<1>1. /\ obj' = [u \in Tx |-> obj'[u]] /\ obj'[t] = o
      /\ \A u \in Tx \ {t} : obj'[u] = obj[u]
  BY DEF Objects
<1>2. /\ tried' = [u \in Tx |-> tried'[u]] /\ tried'[t] = tried[t] \cup eff
      /\ \A u \in Tx \ {t} : tried'[u] = tried[u]
  BY DEF Objects
<1>3. \A u \in Tx : IsTx(obj'[u]) BY <1>1 DEF Objects
<1>4. \A u \in Tx : IsWork(u, tried'[u])
  <2>1. IsFiniteSet(tried[t] \cup eff) BY FS_Union DEF Objects, IsWork
  <2>2. IsWork(t, tried'[t]) BY <1>2, <2>1 DEF Objects, IsWork
  <2> QED BY <1>2, <2>2 DEF Objects
<1> QED BY <1>1, <1>2, <1>3, <1>4 DEF Objects

\* An action that leaves no block.
LEMMA BlockIdle ==
  ASSUME Block, NEW v, Sane(v), v.tx = "idle", v.inhibit = w.inhibit, World(v),
         perf'.x # NoTrans => perf'.x \in Tx,
         subs' # <<>> => subs # <<>> /\ perf'.x # NoTrans,
         v.trans # NoTrans => v.trans = perf'.x /\ obj'[perf'.x].reg
  PROVE  Block' /\ w'.db = v.db /\ w'.handle = v.handle /\ w'.alive = v.alive
<1>1. w' = Settled(v) BY DEF World, Settled
<1>2. /\ Sane(w') /\ w'.tx = "idle" /\ w'.saves = <<>> /\ \A s : Holds(w', s)
      /\ w'.db = v.db /\ w'.inhibit = w.inhibit /\ w'.handle = v.handle
      /\ w'.alive = v.alive /\ w'.trans = v.trans
  BY <1>1, SettledFacts
<1> QED BY <1>2 DEF Block

\* The body goes on, or is left.
Onward ==
  /\ perf' = [perf EXCEPT !.pc = perf'.pc, !.exc = perf'.exc]
  /\ \/ /\ perf.pc \in {"body", "handling"}
        /\ perf'.pc \in {"body", "handling", "throwing"}
     \/ perf'.pc = perf.pc /\ perf'.exc = perf.exc

\* Onward changes where perform() is, and the exception, alone.
LEMMA OnwardFacts ==
  ASSUME Stage, Onward
  PROVE  /\ perf' = [pc |-> perf'.pc, x |-> perf'.x, left |-> perf'.left,
                     opened |-> perf'.opened, exc |-> perf'.exc,
                     on_abort |-> perf'.on_abort, on_commit |-> perf'.on_commit,
                     on_doubt |-> perf'.on_doubt]
         /\ perf'.x = perf.x /\ perf'.on_commit = perf.on_commit
         /\ perf'.on_doubt = perf.on_doubt /\ perf'.left = perf.left
BY DEF Stage, Onward

\* An action under which X's block goes on.
LEMMA BlockGoesOn ==
  ASSUME NInv, perf.x # NoTrans, NEW v, Goes(w, v, tried'[perf.x]), World(v),
         Objects', obj' = obj, \A t \in Tx : tried[t] \subseteq tried'[t], Onward,
         subs' # <<>> => subs # <<>>,
         perf'.pc \in {"body", "handling"} => v.handle # "none"
  PROVE  NInv'
<1> USE DEF NInv
<1>1. w' = Settled(v) BY DEF World, Settled
<1>2. Sane(v) BY DEF Goes
<1>3. /\ Sane(w') /\ w'.tx = v.tx /\ w'.handle = v.handle /\ w'.alive = v.alive
      /\ w'.db = v.db /\ w'.inhibit = v.inhibit /\ w'.trans = v.trans
      /\ w'.tx = "idle" => w'.saves = <<>>
      /\ Holds(w', tried'[perf.x])
  BY <1>1, <1>2, SettledFacts DEF Goes
<1>4. v.db = w.db /\ v.inhibit = w.inhibit /\ (v.tx # "idle" => w.tx # "idle")
      /\ v.trans = w.trans
      /\ ((w.alive => w.tx # "idle") => (v.alive => v.tx # "idle"))
  BY DEF Goes
<1>5. Landed' BY <1>3, <1>4 DEF Landed, Decided
<1>6. /\ perf' = [pc |-> perf'.pc, x |-> perf'.x, left |-> perf'.left,
                  opened |-> perf'.opened, exc |-> perf'.exc,
                  on_abort |-> perf'.on_abort, on_commit |-> perf'.on_commit,
                  on_doubt |-> perf'.on_doubt]
      /\ perf'.x = perf.x /\ perf'.on_commit = perf.on_commit
      /\ perf'.on_doubt = perf.on_doubt /\ perf'.left = perf.left
  BY OnwardFacts
<1>7. Block' BY <1>3, <1>4, <1>6 DEF Block
<1>8. Stage'
  <2>1. NoneDecided' <=> NoneDecided BY DEF NoneDecided, Decided
  <2>2. /\ perf'.pc \in {"loop", "body", "handling"} => NoneDecided'
        /\ perf'.pc \in {"throwing", "threw"} /\ perf'.exc # "in_doubt" => NoneDecided'
        /\ perf'.pc \in {"committed", "returned"} => \E t \in Tx : obj'[t].st = "committed"
        /\ perf'.pc = "loop" => perf'.x = NoTrans /\ perf'.left # 0
    BY <1>6, <2>1 DEF Stage, Onward
  <2>3. perf'.pc \in {"body", "handling"} =>
          /\ perf'.x # NoTrans /\ obj'[perf'.x].st = "active" /\ w'.handle # "none"
          /\ w'.alive => w'.tx # "idle"
    BY <1>3, <1>4, <1>6 DEF Stage, Onward
  <2>4. \A t \in Tx, u \in Tx : Decided(t)' /\ Decided(u)' => t = u BY DEF Stage, Decided
  <2>5. /\ perf'.pc \in {"loop", "body", "handling", "throwing", "committed",
                         "returned", "threw"}
        /\ perf'.on_commit = (IF perf'.pc = "returned" THEN 1 ELSE 0)
        /\ perf'.on_doubt = (IF perf'.pc = "threw" /\ perf'.exc = "in_doubt" THEN 1 ELSE 0)
        /\ perf'.left \in 0..Cardinality(Tx)
    BY <1>6 DEF Stage, Onward
  <2> QED BY <1>6, <2>2, <2>3, <2>4, <2>5 DEF Stage
<1> QED BY <1>5, <1>7, <1>8

----------------------------------------------------------------------------
(* The actions.                                                            *)

\* A new statement of t is one of the effects there are.
LEMMA StatementOf ==
  ASSUME Objects, NEW t \in Tx, Cardinality(tried[t]) < MaxStatements
  PROVE  IsWork(t, {Statement2(t)})
<1> DEFINE n == Cardinality(tried[t])
<1>1. n \in Nat BY FS_CardinalityType DEF Objects, IsWork
<1>2. MaxStatements \in Nat /\ Effect = Tx \X (1..MaxStatements) BY NestedAssumption
<1>3. n < MaxStatements OBVIOUS
<1> HIDE DEF n
<1>4. n + 1 \in 1..MaxStatements BY <1>1, <1>2, <1>3
<1>5. Statement2(t) = <<t, n + 1>> BY DEF Statement2, n
<1>6. <<t, n + 1>> \in Effect BY <1>2, <1>4
<1>7. IsFiniteSet({Statement2(t)}) BY FS_Singleton
<1> QED BY <1>5, <1>6, <1>7 DEF IsWork

\* No statement at all.
LEMMA NoWork == ASSUME NEW t PROVE IsWork(t, {})
BY FS_EmptySet DEF IsWork

\* Flow() and SubDestroy's way out lead onward.
LEMMA FlowOnward ==
  ASSUME Stage, NEW exc, NEW h, perf.pc = "body", Flow(exc, h)
  PROVE  Onward
<1>1. \/ perf' = [perf EXCEPT !.pc = "body", !.exc = exc]
      \/ perf' = [perf EXCEPT !.pc = "throwing", !.exc = exc]
      \/ perf' = [perf EXCEPT !.pc = "handling", !.exc = "ok"]
  BY DEF Flow
<1>2. CASE perf' = [perf EXCEPT !.pc = "body", !.exc = exc]
  <2>1. perf'.pc = "body" /\ perf'.exc = exc BY <1>2 DEF Stage
  <2> QED BY <1>2, <2>1 DEF Onward
<1>3. CASE perf' = [perf EXCEPT !.pc = "throwing", !.exc = exc]
  <2>1. perf'.pc = "throwing" /\ perf'.exc = exc BY <1>3 DEF Stage
  <2> QED BY <1>3, <2>1 DEF Onward
<1>4. CASE perf' = [perf EXCEPT !.pc = "handling", !.exc = "ok"]
  <2>1. perf'.pc = "handling" /\ perf'.exc = "ok" BY <1>4 DEF Stage
  <2> QED BY <1>4, <2>1 DEF Onward
<1> QED BY <1>1, <1>2, <1>3, <1>4

\* The calls of the innermost subtransaction.
LEMMA SubResultStep ==
  ASSUME NInv, perf.pc = "body", subs # <<>>, NEW eff, IsWork(perf.x, eff),
         NEW r, SubGoes(This2, r, tried[perf.x] \cup eff), SubResult(r, eff),
         NEW h, Flow(r.exc, h)
  PROVE  NInv'
<1> DEFINE t == perf.x
<1>1. /\ t # NoTrans /\ t \in Tx /\ w.inhibit /\ w.handle # "none"
      /\ Objects /\ Stage /\ IsTx(obj[t])
  BY DEF NInv, Stage, Block, Objects
<1>2. World(r.x.w) /\ tried' = [tried EXCEPT ![t] = tried[t] \cup eff] /\ obj' = obj
  BY DEF SubResult
<1>3. obj' = [obj EXCEPT ![t] = obj[t]] BY <1>1, <1>2 DEF Objects
<1>4. /\ Objects' /\ tried'[t] = tried[t] \cup eff
      /\ \A u \in Tx : tried[u] \subseteq tried'[u]
  <2>1. PICK u \in Tx : u = t BY <1>1
  <2>2. PICK o : o = obj[u] OBVIOUS
  <2>3. /\ Objects /\ IsTx(o) /\ IsWork(u, eff)
        /\ obj' = [obj EXCEPT ![u] = o]
        /\ tried' = [tried EXCEPT ![u] = tried[u] \cup eff]
    BY <1>1, <1>2, <1>3, <2>1, <2>2
  <2>4. /\ Objects' /\ tried'[u] = tried[u] \cup eff
        /\ \A k \in Tx : tried[k] \subseteq tried'[k]
    BY <2>3, ObjectsStep
  <2> QED BY <2>1, <2>4
<1>5. Goes(w, r.x.w, tried'[t]) BY <1>4 DEF SubGoes, This2
<1>6. Onward BY <1>1, FlowOnward
<1>7. r.x.w.handle # "none" BY <1>1, <1>5 DEF Goes
<1> QED BY <1>1, <1>2, <1>4, <1>5, <1>6, <1>7, BlockGoesOn

\* A statement in the innermost subtransaction.
LEMMA SubExecStep ==
  ASSUME NInv, SubExec
  PROVE  NInv'
<1> DEFINE e == {Statement2(perf.x)}
           s == tried[perf.x] \cup e
<1>1. PICK r : r \in sub_exec(This2, Name, e) /\ SubResult(r, e) /\ Flow(r.exc, TRUE)
  BY DEF SubExec
<1>2. perf.pc = "body" /\ subs # <<>> BY DEF SubExec, SubUsable, InBody
<1>3. /\ Sane(w) /\ w.inhibit /\ w.handle # "none" /\ (w.alive => w.tx # "idle")
      /\ Holds(w, tried[perf.x])
  BY <1>2 DEF NInv, Stage, Block
<1>4. Holds(w, s) BY <1>3, HoldsMore
<1>5. IsX(This2) /\ This2.w = w BY DEF This2, IsX
<1>6. IsWork(perf.x, e)
  <2>1. Objects /\ perf.x \in Tx /\ Cardinality(tried[perf.x]) < MaxStatements
    BY <1>2 DEF NInv, Stage, Block, SubExec, MayExec
  <2> QED BY <2>1, StatementOf
<1> HIDE DEF e
<1>7. e \subseteq s OBVIOUS
<1> HIDE DEF s
<1>8. SubGoes(This2, r, s) BY <1>1, <1>3, <1>4, <1>5, <1>7, SubExecFacts
<1> QED BY <1>1, <1>2, <1>6, <1>8, SubResultStep DEF s

\* commit() and abort() of the innermost subtransaction.
LEMMA SubCommitStep ==
  ASSUME NInv, SubCommit \/ SubAbort
  PROVE  NInv'
<1> DEFINE s == tried[perf.x] \cup {}
<1>1. PICK r : /\ r \in sub_commit(This2, Name) \/ r \in sub_abort(This2, Name)
               /\ SubResult(r, {}) /\ Flow(r.exc, TRUE)
  BY DEF SubCommit, SubAbort
<1>2. perf.pc = "body" /\ subs # <<>> BY DEF SubCommit, SubAbort, SubUsable, InBody
<1>3. Sane(w) /\ w.inhibit /\ Holds(w, s) BY <1>2 DEF NInv, Stage, Block
<1>5. IsX(This2) /\ This2.w = w BY DEF This2, IsX
<1> HIDE DEF s
<1>6. SubGoes(This2, r, s) BY <1>1, <1>3, <1>5, SubCommitFacts, SubAbortFacts
<1>7. IsWork(perf.x, {}) BY NoWork
<1> QED BY <1>1, <1>2, <1>6, <1>7, SubResultStep DEF s

\* The innermost subtransaction's scope ends.
LEMMA SubDestroyStep ==
  ASSUME NInv, SubDestroy
  PROVE  NInv'
<1>1. PICK r : r \in sub_End(This2, Name) /\ World(r.x.w) BY DEF SubDestroy
<1>2. /\ subs # <<>> /\ obj' = obj /\ tried' = tried
      /\ perf' = [perf EXCEPT !.pc = IF perf.pc = "handling" THEN "body" ELSE perf.pc]
  BY DEF SubDestroy
<1>3. /\ Sane(w) /\ w.inhibit /\ perf.x # NoTrans /\ Holds(w, tried[perf.x])
      /\ Objects /\ Stage
  BY <1>2 DEF NInv, Block
<1>4. IsX(This2) /\ This2.w = w BY DEF This2, IsX
<1>5. SubGoes(This2, r, tried[perf.x]) BY <1>1, <1>3, <1>4, SubAbortFacts
<1>6. Goes(w, r.x.w, tried'[perf.x]) BY <1>2, <1>4, <1>5 DEF SubGoes
<1>7. Objects' /\ \A t \in Tx : tried[t] \subseteq tried'[t] BY <1>2, <1>3 DEF Objects
<1>8. /\ perf'.pc = (IF perf.pc = "handling" THEN "body" ELSE perf.pc)
      /\ perf'.exc = perf.exc
      /\ perf' = [perf EXCEPT !.pc = perf'.pc, !.exc = perf'.exc]
  BY <1>2, <1>3 DEF Stage
<1>9. Onward BY <1>8 DEF Onward
<1>10. perf'.pc \in {"body", "handling"} => w.handle # "none"
  BY <1>3, <1>8 DEF Stage
<1>11. perf'.pc \in {"body", "handling"} => r.x.w.handle # "none"
  BY <1>3, <1>6, <1>10 DEF Goes
<1> QED BY <1>1, <1>2, <1>3, <1>6, <1>7, <1>9, <1>11, BlockGoesOn

\* A subtransaction is opened only with reactivation inhibited.
LEMMA SubOpenStep ==
  ASSUME NInv, SubOpen, "uninhibited" \notin Liberties
  PROVE  NInv'
<1>1. /\ w.inhibit /\ perf.pc = "body" /\ w' = w /\ obj' = obj /\ tried' = tried
      /\ perf' = [perf EXCEPT !.opened = perf.opened + 1]
  BY DEF SubOpen, InBody
<1>2. perf.x # NoTrans BY <1>1 DEF NInv, Stage
<1>3. /\ perf' = [pc |-> perf'.pc, x |-> perf'.x, left |-> perf'.left,
                  opened |-> perf'.opened, exc |-> perf'.exc,
                  on_abort |-> perf'.on_abort, on_commit |-> perf'.on_commit,
                  on_doubt |-> perf'.on_doubt]
      /\ perf'.pc = perf.pc /\ perf'.x = perf.x /\ perf'.exc = perf.exc
      /\ perf'.on_commit = perf.on_commit /\ perf'.on_doubt = perf.on_doubt
      /\ perf'.left = perf.left
  BY <1>1 DEF NInv, Stage
<1>4. Objects' /\ Landed' BY <1>1 DEF NInv, Objects, Landed, Decided
<1>5. Block' BY <1>1, <1>2, <1>3 DEF NInv, Block
<1>6. Stage' BY <1>1, <1>3 DEF NInv, Stage, NoneDecided, Decided
<1> QED BY <1>4, <1>5, <1>6 DEF NInv

\* A record of perform() again, after a change of some of its fields.
IsPerf(p) ==
  p = [pc |-> p.pc, x |-> p.x, left |-> p.left, opened |-> p.opened, exc |-> p.exc,
       on_abort |-> p.on_abort, on_commit |-> p.on_commit, on_doubt |-> p.on_doubt]

\* A statement in X itself.
LEMMA BodyExecStep ==
  ASSUME NInv, BodyExec
  PROVE  NInv'
<1>1. /\ perf.pc = "body" /\ subs = <<>> /\ Objects /\ Stage /\ Block /\ Landed
  BY DEF NInv, BodyExec, InBody
<1>2. PICK t \in Tx : t = perf.x BY <1>1 DEF Stage, Block
<1> DEFINE e == {Statement2(t)}
           s == tried[t] \cup e
           x == This(t)
<1>3. PICK r : /\ r \in exec(x, "transaction", "SQL", e) /\ XResult(r, e)
               /\ Flow(r.exc, FALSE)
  BY <1>2 DEF BodyExec
<1>4. IsWork(t, e) BY <1>1, <1>2, StatementOf DEF BodyExec, MayExec
<1> HIDE DEF e
<1>5. /\ IsX(x) /\ x.w = w /\ x.o = obj[t] BY DEF This, IsX
<1>6. /\ IsX(x) /\ Sane(x.w) /\ IsTx(x.o) /\ x.o.st = "active" /\ x.w.handle # "none"
      /\ (x.w.alive => x.w.tx # "idle") /\ Holds(x.w, tried[t])
  BY <1>1, <1>2, <1>5 DEF Stage, Block, Objects
<1>7. Holds(x.w, s) /\ e \subseteq s BY <1>6, HoldsMore
<1> HIDE DEF s, x
<1>8. /\ r.exc = "ok" => r.x.o = x.o /\ Goes(x.w, r.x.w, s) /\ r.x.w.handle # "none"
      /\ r.exc # "ok" => Ended(x, r)
  BY <1>3, <1>6, <1>7, XExecFacts
<1>9. /\ World(r.x.w) /\ obj' = [obj EXCEPT ![t] = r.x.o] /\ subs' = <<>>
      /\ tried' = [tried EXCEPT ![t] = tried[t] \cup e]
  BY <1>1, <1>2, <1>3 DEF XResult
<1>10. IsTx(r.x.o) BY <1>6, <1>8 DEF Ended
<1>11. /\ Objects' /\ obj'[t] = r.x.o /\ \A u \in Tx \ {t} : obj'[u] = obj[u]
       /\ tried'[t] = s /\ \A u \in Tx : tried[u] \subseteq tried'[u]
  BY <1>1, <1>4, <1>9, <1>10, ObjectsStep DEF s
<1>12. CASE r.exc = "ok"
  <2>1. obj' = obj BY <1>1, <1>5, <1>8, <1>9, <1>12 DEF Objects
  <2>2. Goes(w, r.x.w, tried'[perf.x]) BY <1>2, <1>5, <1>8, <1>11, <1>12
  <2>3. Onward BY <1>1, <1>3, FlowOnward
  <2>4. perf.x # NoTrans BY <1>1 DEF Stage
  <2> QED BY <1>8, <1>9, <1>11, <1>12, <2>1, <2>2, <2>3, <2>4, BlockGoesOn
<1>13. CASE r.exc # "ok"
  <2>1. /\ r.x.o.st = "aborted" /\ Sane(r.x.w) /\ r.x.w.tx = "idle" /\ r.x.w.db = w.db
        /\ r.x.w.inhibit = w.inhibit /\ r.x.w.trans = NoTrans
    <3>1. Knows(x) BY <1>1, <1>2, <1>5 DEF Knows, Block
    <3> QED BY <1>5, <1>8, <1>13, <3>1 DEF Ended, Idle
  <2>2. perf' = [perf EXCEPT !.pc = "throwing", !.exc = r.exc] BY <1>3, <1>13 DEF Flow
  <2>3. /\ IsPerf(perf') /\ perf'.pc = "throwing" /\ perf'.x = t
        /\ perf'.on_commit = 0 /\ perf'.on_doubt = 0 /\ perf'.left = perf.left
    BY <1>1, <1>2, <2>2 DEF Stage, IsPerf
  <2>4. Block' /\ w'.db = w.db BY <1>1, <1>9, <2>1, <2>3, BlockIdle
  <2>5. NoneDecided' BY <1>1, <1>11, <2>1 DEF Stage, NoneDecided, Decided
  <2>6. NoneDecided BY <1>1 DEF Stage
  <2>7. Landed' BY <1>1, <2>4, <2>6 DEF Landed, NoneDecided
  <2>8. Stage' BY <1>1, <2>3, <2>5 DEF Stage, IsPerf, NoneDecided
  <2> QED BY <1>11, <2>4, <2>7, <2>8 DEF NInv
<1> QED BY <1>12, <1>13

\* X.commit(): the one action after which an outcome is decided.
LEMMA PerformCommitStep ==
  ASSUME NInv, PerformCommit
  PROVE  NInv'
<1>1. /\ perf.pc = "body" /\ Objects /\ Stage /\ Block /\ Landed
  BY DEF NInv, PerformCommit, InBody
<1>2. PICK t \in Tx : t = perf.x BY <1>1 DEF Stage, Block
<1> DEFINE x == This(t)
           none == {}
<1>3. PICK r : /\ r \in commit(x, "transaction") /\ XResult(r, {})
               /\ perf' = [perf EXCEPT !.pc = IF r.exc = "ok" THEN "committed" ELSE "throwing",
                                       !.exc = r.exc]
  BY <1>2 DEF PerformCommit
<1>4. /\ IsX(x) /\ x.w = w /\ x.o = obj[t] BY DEF This, IsX
<1>5. Sane(x.w) /\ IsTx(x.o) /\ x.o.st = "active" /\ w.work \subseteq tried[t]
  BY <1>1, <1>2, <1>4 DEF Stage, Block, Objects, Holds
<1> HIDE DEF x
<1>6. /\ IsTx(r.x.o) /\ Sane(r.x.w) /\ r.x.w.tx = "idle"
      /\ r.x.w.inhibit = w.inhibit /\ r.x.w.db \in {w.db, w.db \cup w.work}
      /\ r.exc = "ok" => r.x.o.st = "committed"
      /\ r.exc # "ok" => r.x.o.st # "committed"
      /\ r.x.o.st = "in_doubt" => r.exc = "in_doubt"
      /\ r.x.o.st \notin {"committed", "in_doubt"} => r.x.w.db = w.db
      /\ Knows(x) => Knows(r.x) /\ r.x.w.trans \in {NoTrans, w.trans}
  BY <1>3, <1>4, <1>5, XCommitFacts
<1>7. /\ World(r.x.w) /\ obj' = [obj EXCEPT ![t] = r.x.o] /\ subs' = subs
      /\ tried' = [tried EXCEPT ![t] = tried[t] \cup none] /\ IsWork(t, none)
  BY <1>2, <1>3, NoWork DEF XResult
<1> HIDE DEF none
<1>8. /\ Objects' /\ obj'[t] = r.x.o /\ \A u \in Tx \ {t} : obj'[u] = obj[u]
      /\ \A u \in Tx : tried[u] \subseteq tried'[u]
  <2>1. PICK o, eff : o = r.x.o /\ eff = none OBVIOUS
  <2>2. /\ Objects /\ IsTx(o) /\ IsWork(t, eff)
        /\ obj' = [obj EXCEPT ![t] = o]
        /\ tried' = [tried EXCEPT ![t] = tried[t] \cup eff]
    BY <1>1, <1>6, <1>7, <2>1
  <2>3. /\ Objects' /\ obj'[t] = o /\ \A u \in Tx \ {t} : obj'[u] = obj[u]
        /\ tried'[t] = tried[t] \cup eff /\ \A u \in Tx : tried[u] \subseteq tried'[u]
    BY <2>2, ObjectsStep
  <2> QED BY <2>1, <2>3
<1>9. /\ IsPerf(perf') /\ perf'.pc = (IF r.exc = "ok" THEN "committed" ELSE "throwing")
      /\ perf'.exc = r.exc /\ perf'.x = t /\ perf'.on_commit = 0 /\ perf'.on_doubt = 0
      /\ perf'.left = perf.left
  BY <1>1, <1>2, <1>3 DEF Stage, IsPerf
<1>10. t # NoTrans BY <1>1, <1>2 DEF Stage
<1>11. Block' /\ w'.db = r.x.w.db
  <2>1. Knows(x) BY <1>1, <1>2, <1>4 DEF Knows, Block
  <2>2. r.x.w.trans # NoTrans => r.x.w.trans = t /\ r.x.o.reg
    BY <1>1, <1>2, <1>6, <2>1 DEF Knows, Block
  <2> QED BY <1>1, <1>6, <1>7, <1>8, <1>9, <1>10, <2>2, BlockIdle
<1>12. NoneDecided BY <1>1 DEF Stage
<1>13. \A u \in Tx : Decided(u)' => u = t BY <1>8, <1>12 DEF NoneDecided, Decided
<1>14. Landed'
  <2>1. w.db = {} BY <1>1, <1>12 DEF Landed, NoneDecided
  <2>2. CASE Decided(t)'
    <3>1. \A e \in w'.db : e \in tried[t] BY <1>5, <1>6, <1>11, <2>1
    <3>2. \A e \in tried[t] : e[1] = t BY <1>1 DEF Objects, IsWork
    <3> QED BY <1>8, <2>2, <3>1, <3>2 DEF Landed
  <2>3. CASE ~Decided(t)'
    <3>1. w'.db = {} BY <1>6, <1>8, <1>11, <2>1, <2>3 DEF Decided
    <3> QED BY <3>1 DEF Landed
  <2> QED BY <2>2, <2>3
<1>15. Stage'
  <2>1. perf'.pc = "throwing" /\ perf'.exc # "in_doubt" => NoneDecided'
    BY <1>6, <1>8, <1>9, <1>13 DEF NoneDecided, Decided
  <2>2. perf'.pc = "committed" => \E u \in Tx : obj'[u].st = "committed"
    BY <1>6, <1>8, <1>9
  <2> QED BY <1>1, <1>9, <1>13, <2>1, <2>2 DEF Stage, IsPerf
<1> QED BY <1>8, <1>11, <1>14, <1>15 DEF NInv

\* ~X: what is still active is aborted, and no block is left.
LEMMA PerformDestroyStep ==
  ASSUME NInv, PerformDestroy
  PROVE  NInv'
<1>1. /\ perf.pc \in {"committed", "throwing"} /\ subs = <<>> /\ perf.x # NoTrans
      /\ perf' = [perf EXCEPT !.x = NoTrans]
      /\ Objects /\ Stage /\ Block /\ Landed
  BY DEF NInv, PerformDestroy
<1>2. PICK t \in Tx : t = perf.x BY <1>1 DEF Block
<1> DEFINE x == This(t)
           none == {}
<1>3. PICK r : /\ r \in End(x, "transaction") /\ XResult([r EXCEPT !.x.o.live = FALSE], {})
  BY <1>2 DEF PerformDestroy
<1>4. /\ IsX(x) /\ x.w = w /\ x.o = obj[t] BY DEF This, IsX
<1>5. Sane(x.w) /\ IsTx(x.o) /\ (x.w.tx # "idle" => x.o.st = "active")
  BY <1>1, <1>2, <1>4 DEF Block, Objects
<1> HIDE DEF x
<1>6. /\ IsX(r.x) /\ IsTx(r.x.o) /\ Idle(w, r.x.w) /\ r = [x |-> r.x, exc |-> r.exc]
      /\ r.x.o.st = IF obj[t].st = "active" THEN "aborted" ELSE obj[t].st
      /\ r.x.w.trans = NoTrans
  <2>1. Knows(x) BY <1>1, <1>2, <1>4 DEF Knows, Block, x
  <2> QED BY <1>3, <1>4, <1>5, <2>1, EndFacts
<1> DEFINE q == [r EXCEPT !.x.o.live = FALSE]
           y == [r.x EXCEPT !.o.live = FALSE]
           z == [r.x.o EXCEPT !.live = FALSE]
<1>7. y = [r.x EXCEPT !.o = z] /\ q = [r EXCEPT !.x = y] OBVIOUS
<1>8. XResult(q, {}) BY <1>3
<1> HIDE DEF q, y, z
<1>9. q.x.w = r.x.w /\ q.x.o = [r.x.o EXCEPT !.live = FALSE]
  <2>1. y.w = r.x.w /\ y.o = z BY <1>6, <1>7 DEF IsX
  <2>2. q.x = y BY <1>6, <1>7
  <2> QED BY <2>1, <2>2 DEF z
<1> DEFINE o == q.x.o
<1>10. IsTx(o) /\ o.st = r.x.o.st BY <1>6, <1>9 DEF IsTx, ObjType
<1>11. /\ World(r.x.w) /\ obj' = [obj EXCEPT ![t] = o] /\ subs' = <<>>
       /\ tried' = [tried EXCEPT ![t] = tried[t] \cup none] /\ IsWork(t, none)
  BY <1>1, <1>2, <1>8, <1>9, NoWork DEF XResult
<1> HIDE DEF o, none
<1>12. /\ Objects' /\ obj'[t] = o /\ \A u \in Tx \ {t} : obj'[u] = obj[u]
       /\ tried'[t] = tried[t] \cup none /\ \A u \in Tx : tried[u] \subseteq tried'[u]
  BY <1>1, <1>10, <1>11, ObjectsStep
<1>13. /\ IsPerf(perf') /\ perf'.pc = perf.pc /\ perf'.exc = perf.exc /\ perf'.x = NoTrans
       /\ perf'.on_commit = 0 /\ perf'.on_doubt = 0 /\ perf'.left = perf.left
  BY <1>1 DEF Stage, IsPerf
<1>14. Block' /\ w'.db = w.db
  BY <1>1, <1>6, <1>11, <1>13, BlockIdle DEF Idle
<1>15. \A u \in Tx : (Decided(u)' <=> Decided(u))
                     /\ (obj[u].st = "committed" => obj'[u].st = "committed")
  BY <1>6, <1>10, <1>12 DEF Decided
<1>16. Landed' BY <1>1, <1>12, <1>14, <1>15 DEF Landed
<1>17. Stage'
  <2>1. perf'.pc = "throwing" /\ perf'.exc # "in_doubt" => NoneDecided'
    BY <1>1, <1>13, <1>15 DEF Stage, NoneDecided
  <2>2. perf'.pc = "committed" => \E u \in Tx : obj'[u].st = "committed"
    BY <1>1, <1>13, <1>15 DEF Stage
  <2>3. \A u \in Tx, v \in Tx : Decided(u)' /\ Decided(v)' => u = v BY <1>1, <1>15 DEF Stage
  <2> QED BY <1>1, <1>13, <2>1, <2>2, <2>3 DEF Stage, IsPerf
<1> QED BY <1>12, <1>14, <1>16, <1>17 DEF NInv

\* The handlers, the return, and what the body throws itself.
LEMMA PerformQuietStep ==
  ASSUME NInv,
         \/ PerformCatch \/ PerformReturn \/ \E exc \in {"std", "unknown"} : BodyThrow(exc)
  PROVE  NInv'
<1>1. Objects /\ Stage /\ Block /\ Landed /\ IsPerf(perf) BY DEF NInv, Stage, IsPerf
<1>2. w' = w /\ obj' = obj /\ tried' = tried /\ subs' = subs
  BY DEF PerformCatch, PerformReturn, BodyThrow
<1>3. Objects' /\ Landed' BY <1>1, <1>2 DEF Objects, Landed, Decided
<1>4. (\A t \in Tx : Decided(t)' <=> Decided(t)) /\ (NoneDecided' <=> NoneDecided)
  BY <1>2 DEF NoneDecided, Decided
<1>5. perf'.x = perf.x => Block' BY <1>1, <1>2 DEF Block
<1>6. CASE PerformCatch
  <2>1. perf.pc = "throwing" /\ perf.x = NoTrans /\ perf.on_commit = 0 /\ perf.on_doubt = 0
    BY <1>1, <1>6 DEF PerformCatch, Stage
  <2>2. CASE perf.exc = "in_doubt"
    <3>n. perf.on_doubt + 1 = 1 BY <2>1
    <3>1. perf' = [perf EXCEPT !.pc = "threw", !.on_doubt = 1]
      BY <1>6, <2>2, <3>n DEF PerformCatch
    <3>2. /\ IsPerf(perf') /\ perf'.pc = "threw" /\ perf'.x = perf.x
          /\ perf'.exc = "in_doubt" /\ perf'.on_commit = 0 /\ perf'.on_doubt = 1
          /\ perf'.left = perf.left
      BY <1>1, <2>1, <2>2, <3>1 DEF IsPerf
    <3>3. Stage' BY <1>1, <1>4, <3>2 DEF Stage, IsPerf
    <3> QED BY <1>3, <1>5, <3>2, <3>3 DEF NInv
  <2>3. CASE perf.exc # "in_doubt"
    <3>1. PICK pc \in {"threw", "loop"} :
            /\ perf' = [perf EXCEPT !.pc = pc, !.on_abort = perf.on_abort + 1]
            /\ pc = "loop" => ~(perf.left <= 0)
      BY <1>6, <2>3 DEF PerformCatch
    <3>2. /\ IsPerf(perf') /\ perf'.pc = pc /\ perf'.x = perf.x
          /\ perf'.exc = perf.exc /\ perf'.on_commit = 0 /\ perf'.on_doubt = 0
          /\ perf'.left = perf.left
      BY <1>1, <2>1, <3>1 DEF IsPerf
    <3>3. NoneDecided' BY <1>1, <1>4, <2>1, <2>3 DEF Stage
    <3>l. perf'.left \in 0..Cardinality(Tx) /\ (pc = "loop" => perf'.left # 0)
      BY <1>1, <3>1, <3>2 DEF Stage
    <3>4. Stage' BY <1>1, <1>4, <2>1, <2>3, <3>2, <3>3, <3>l DEF Stage, IsPerf
    <3> QED BY <1>3, <1>5, <3>2, <3>4 DEF NInv
  <2> QED BY <2>2, <2>3
<1>7. CASE PerformReturn
  <2>0. perf.pc = "committed" /\ perf.on_commit = 0 /\ perf.on_doubt = 0
    BY <1>1, <1>7 DEF PerformReturn, Stage
  <2>n. perf.on_commit + 1 = 1 BY <2>0
  <2>1. perf' = [perf EXCEPT !.pc = "returned", !.on_commit = 1]
    BY <1>7, <2>n DEF PerformReturn
  <2>2. /\ IsPerf(perf') /\ perf'.pc = "returned" /\ perf'.x = perf.x
        /\ perf'.on_commit = 1 /\ perf'.on_doubt = 0 /\ perf'.left = perf.left
    BY <1>1, <2>0, <2>1 DEF IsPerf
  <2>3. \E t \in Tx : obj'[t].st = "committed" BY <1>1, <1>2, <2>0 DEF Stage
  <2>4. Stage' BY <1>1, <1>4, <2>2, <2>3 DEF Stage, IsPerf
  <2> QED BY <1>3, <1>5, <2>2, <2>4 DEF NInv
<1>8. CASE \E exc \in {"std", "unknown"} : BodyThrow(exc)
  <2>1. PICK exc : /\ perf.pc = "body" /\ perf' = [perf EXCEPT !.pc = "throwing", !.exc = exc]
    BY <1>8 DEF BodyThrow, InBody
  <2>2. perf.on_commit = 0 /\ perf.on_doubt = 0 /\ NoneDecided' BY <1>1, <1>4, <2>1 DEF Stage
  <2>3. /\ IsPerf(perf') /\ perf'.pc = "throwing" /\ perf'.x = perf.x
        /\ perf'.on_commit = 0 /\ perf'.on_doubt = 0 /\ perf'.left = perf.left
    BY <1>1, <2>1, <2>2 DEF IsPerf
  <2>4. Stage' BY <1>1, <1>4, <2>2, <2>3 DEF Stage, IsPerf
  <2> QED BY <1>3, <1>5, <2>3, <2>4 DEF NInv
<1> QED BY <1>6, <1>7, <1>8

\* The link goes; the block goes with it.
LEMMA LinkLostStep ==
  ASSUME NInv, NestedLinkLost
  PROVE  NInv'
<1>1. Objects /\ Stage /\ Block /\ Landed BY DEF NInv
<1>2. World(Gone(w)) /\ obj' = obj /\ tried' = tried /\ subs' = subs /\ perf' = perf
  BY DEF NestedLinkLost
<1> DEFINE v == Gone(w)
<1>3. v = [w EXCEPT !.alive = FALSE, !.tx = "idle", !.work = {}] BY DEF Gone
<1>4. World(v) BY <1>2
<1> HIDE DEF v
<1>5. /\ IsWorld(v) /\ v.alive = FALSE /\ v.tx = "idle" /\ v.work = {} /\ v.db = w.db
      /\ v.inhibit = w.inhibit /\ v.avoid = w.avoid /\ v.saves = w.saves
      /\ v.handle = w.handle /\ v.copy = w.copy /\ v.trans = w.trans
  BY <1>1, <1>3 DEF Block, Sane, IsWorld
<1>6. v.alive \in BOOLEAN BY <1>5
<1>7. Sane(v) BY <1>1, <1>5, <1>6 DEF Block, Sane, TxState
<1>8. /\ perf'.x # NoTrans => perf'.x \in Tx
      /\ subs' # <<>> => subs # <<>> /\ perf'.x # NoTrans
      /\ v.trans # NoTrans => v.trans = perf'.x /\ obj'[perf'.x].reg
  BY <1>1, <1>2, <1>5 DEF Block
<1>9. Block' /\ w'.db = w.db /\ w'.handle = w.handle /\ w'.alive = FALSE
  BY <1>1, <1>4, <1>5, <1>7, <1>8, BlockIdle
<1>10. Objects' /\ Landed' BY <1>1, <1>2, <1>9 DEF Objects, Landed, Decided
<1>11. Stage' BY <1>1, <1>2, <1>9 DEF Stage, NoneDecided, Decided
<1> QED BY <1>9, <1>10, <1>11 DEF NInv

\* The constructor of X: registered, get_notifs(), BEGIN.
Constructed(t) ==
  [w |-> [w EXCEPT !.trans = t],
   o |-> [Absent EXCEPT !.live = TRUE, !.st = "nascent", !.reg = TRUE]]

\* What the constructor leaves: X active in a block of its own, or no block.
LEMMA ConstructFacts ==
  ASSUME Sane(w), w.tx = "idle", NEW t,
         NEW n, n \in Lift(Constructed(t), get_notifs(Constructed(t).w)),
         NEW r, r \in (IF n.exc = "ok" THEN do_begin(n.x, "transaction") ELSE {n})
  PROVE  /\ r.exc = "ok" =>
              /\ LET o == SetStatus(r.x, "active").o IN IsTx(o) /\ o.st = "active" /\ o.reg
              /\ Sane(r.x.w) /\ r.x.w.tx = "open" /\ r.x.w.work = {}
              /\ r.x.w.handle = "ok" /\ r.x.w.db = w.db /\ r.x.w.inhibit = w.inhibit
              /\ r.x.w.saves = w.saves /\ r.x.w.trans = t
         /\ r.exc # "ok" => Idle(w, Unregister(r.x).w) /\ Unregister(r.x).w.trans = NoTrans
<1> DEFINE x == Constructed(t)
           v == x.w
           os == get_notifs(v)
<1>1. /\ IsX(x) /\ v = [w EXCEPT !.trans = t]
      /\ x.o = [live |-> TRUE, st |-> "nascent", reg |-> TRUE, focus |-> FALSE,
                perr |-> FALSE]
  BY DEF Constructed, IsX, Absent
<1>2. n \in Lift(x, os) OBVIOUS
<1> HIDE DEF x
<1>3. IsTx(x.o) BY <1>1 DEF IsTx, ObjType, Status
<1> HIDE DEF v
<1>4. /\ IsWorld(v) /\ v.handle = w.handle /\ v.alive = w.alive /\ v.tx = w.tx
      /\ v.copy = w.copy /\ v.work = w.work /\ v.db = w.db /\ v.inhibit = w.inhibit
      /\ v.avoid = w.avoid /\ v.saves = w.saves /\ v.trans = t
  BY <1>1 DEF Sane, IsWorld
<1>5. Sane(v) BY <1>4 DEF Sane
<1>6. PICK m : m \in os /\ IsX(n.x) /\ n.x.w = m.w /\ n.x.o = x.o /\ n.exc = m.exc
  <2> HIDE DEF os
  <2> QED BY <1>1, <1>2, LiftFacts
<1>7. (n.exc = "ok" /\ n.x.w = v) \/ (n.exc # "ok" /\ Dead(v, n.x.w))
  BY <1>5, <1>6, NotifsFacts
<1>8. /\ IsX(r.x) /\ r.x.o = x.o
      /\ r.exc = "ok" =>
           /\ Sane(r.x.w) /\ r.x.w.tx = "open" /\ r.x.w.work = {}
           /\ r.x.w.handle = "ok" /\ r.x.w.db = v.db /\ r.x.w.inhibit = v.inhibit
           /\ r.x.w.saves = v.saves
      /\ r.exc # "ok" => Idle(v, r.x.w)
      /\ r.x.w.trans = v.trans
  <2>1. CASE n.exc # "ok"
    <3>1. r = n BY <2>1
    <3> QED BY <1>6, <1>7, <2>1, <3>1 DEF Idle, Dead
  <2>2. CASE n.exc = "ok" /\ n.x.w = v
    <3>1. r \in DirectExec(n.x, "BEGIN", {}) BY <2>2 DEF do_begin
    <3>2. n.x.o.perr = FALSE BY <1>3, <1>6 DEF IsTx
    <3>3. IsX(r.x) BY <1>6, <3>1, DirectFacts
    <3>4. PICK o \in Exec(n.x.w, "BEGIN", {}) : r.x.w = o.w /\ r.x.o = n.x.o /\ r.exc = o.exc
      BY <1>6, <3>1, <3>2, DirectFacts
    <3>5. /\ o.exc = "ok" =>
               /\ Sane(o.w) /\ o.w.tx = "open" /\ o.w.work = {} /\ o.w.handle = "ok"
               /\ o.w.db = v.db /\ o.w.inhibit = v.inhibit /\ o.w.saves = v.saves
          /\ o.exc # "ok" => Idle(v, o.w)
          /\ o.w.trans = v.trans
      BY <1>4, <1>5, <2>2, <3>4, BeginFacts
    <3> QED BY <1>6, <3>3, <3>4, <3>5
  <2> QED BY <1>7, <2>1, <2>2
<1>9. CASE r.exc = "ok"
  <2> DEFINE o == SetStatus(r.x, "active").o
  <2>1. IsTx(o) /\ o.st = "active" /\ o.reg BY <1>1, <1>3, <1>8, SetStatusFacts DEF Status
  <2> HIDE DEF o
  <2> QED BY <1>4, <1>8, <1>9, <2>1 DEF o
<1>10. CASE r.exc # "ok"
  <2>1. IsX(r.x) /\ Sane(r.x.w) /\ IsTx(r.x.o) BY <1>3, <1>8, <1>10 DEF Idle
  <2> DEFINE y == Unregister(r.x)
  <2>2. /\ Sane(y.w) /\ y.w.tx = r.x.w.tx /\ y.w.db = r.x.w.db
        /\ y.w.inhibit = r.x.w.inhibit
        /\ y.w.trans = IF r.x.o.reg THEN NoTrans ELSE r.x.w.trans
    BY <2>1, UnregisterFacts
  <2>r. r.x.o.reg BY <1>1, <1>8
  <2> HIDE DEF y
  <2>3. Idle(w, y.w) BY <1>4, <1>8, <1>10, <2>2 DEF Idle
  <2> QED BY <1>10, <2>r, <2>2, <2>3 DEF y
<1> QED BY <1>9, <1>10

\* An attempt starts with no block and nothing decided.
LEMMA AttemptStep ==
  ASSUME NInv, Attempt
  PROVE  NInv'
<1>1. /\ Objects /\ Stage /\ Block /\ Landed /\ IsPerf(perf) /\ perf.pc = "loop"
      /\ tried' = tried /\ subs' = subs
  BY DEF NInv, Stage, IsPerf, Attempt
<1>2. /\ perf.x = NoTrans /\ w.tx = "idle" /\ Sane(w) /\ w.saves = <<>> /\ NoneDecided
      /\ perf.on_commit = 0 /\ perf.on_doubt = 0 /\ subs = <<>>
  BY <1>1 DEF Stage, Block
<1>l. perf.left - 1 \in 0..Cardinality(Tx)
  <2>1. Cardinality(Tx) \in Nat BY NestedAssumption, FS_CardinalityType
  <2>2. perf.left \in 0..Cardinality(Tx) /\ perf.left # 0 BY <1>1 DEF Stage
  <2> QED BY <2>1, <2>2
<1>3. PICK t, n, r :
        /\ t \in Tx
        /\ n \in Lift(Constructed(t), get_notifs(Constructed(t).w))
        /\ r \in (IF n.exc = "ok" THEN do_begin(n.x, "transaction") ELSE {n})
        /\ \/ /\ r.exc = "ok" /\ World(r.x.w)
              /\ obj' = [obj EXCEPT ![t] = SetStatus(r.x, "active").o]
              /\ perf' = [perf EXCEPT !.pc = "body", !.x = t, !.left = perf.left - 1,
                                      !.opened = 0]
           \/ /\ r.exc # "ok" /\ World(Unregister(r.x).w) /\ obj' = obj
              /\ perf' = [perf EXCEPT !.pc = "throwing", !.exc = r.exc,
                                      !.left = perf.left - 1]
  <2>1. PICK t \in Tx :
          \E n \in Lift(Constructed(t), get_notifs(Constructed(t).w)) :
          \E r \in (IF n.exc = "ok" THEN do_begin(n.x, "transaction") ELSE {n}) :
            IF r.exc = "ok"
            THEN /\ World(r.x.w)
                 /\ obj' = [obj EXCEPT ![t] = SetStatus(r.x, "active").o]
                 /\ perf' = [perf EXCEPT !.pc = "body", !.x = t, !.left = perf.left - 1,
                                         !.opened = 0]
            ELSE /\ World(Unregister(r.x).w)
                 /\ perf' = [perf EXCEPT !.pc = "throwing", !.exc = r.exc,
                                         !.left = perf.left - 1]
                 /\ UNCHANGED obj
    BY DEF Attempt, Constructed
  <2> QED BY <2>1
<1>4. /\ r.exc = "ok" =>
           /\ LET o == SetStatus(r.x, "active").o IN IsTx(o) /\ o.st = "active" /\ o.reg
           /\ Sane(r.x.w) /\ r.x.w.tx = "open" /\ r.x.w.work = {}
           /\ r.x.w.handle = "ok" /\ r.x.w.db = w.db /\ r.x.w.inhibit = w.inhibit
           /\ r.x.w.saves = w.saves /\ r.x.w.trans = t
      /\ r.exc # "ok" => Idle(w, Unregister(r.x).w) /\ Unregister(r.x).w.trans = NoTrans
  BY <1>2, <1>3, ConstructFacts
<1>5. CASE r.exc = "ok"
  <2> DEFINE v == r.x.w
  <2>1. PICK o, none : o = SetStatus(r.x, "active").o /\ none = {} OBVIOUS
  <2>0. o.st = "active" /\ o.reg BY <1>4, <1>5, <2>1
  <2>t. t \in Tx BY <1>3
  <2>2. /\ Objects /\ IsTx(o) /\ IsWork(t, none)
        /\ obj' = [obj EXCEPT ![t] = o]
        /\ tried' = [tried EXCEPT ![t] = tried[t] \cup none]
    BY <1>1, <1>3, <1>4, <1>5, <2>1, NoWork DEF Objects
  <2>3. /\ Objects' /\ obj'[t] = o /\ \A u \in Tx \ {t} : obj'[u] = obj[u]
        /\ tried'[t] = tried[t] \cup none /\ \A u \in Tx : tried[u] \subseteq tried'[u]
    BY <2>t, <2>2, ObjectsStep
  <2>4. /\ Sane(v) /\ v.tx = "open" /\ v.work = {} /\ v.handle = "ok" /\ v.db = w.db
        /\ v.saves = <<>> /\ World(v) /\ v.trans = t
    BY <1>2, <1>3, <1>4, <1>5
  <2> HIDE DEF v
  <2>5. w' = v BY <2>4 DEF World
  <2>6. Holds(w', tried'[t])
    <3>1. (\E S : <<>> \in Seq(S)) /\ DOMAIN <<>> = {}
      <4>1. <<>> \in Seq({}) OBVIOUS
      <4> QED BY <4>1
    <3> QED BY <2>4, <2>5, <3>1 DEF Holds
  <2>7. t # NoTrans BY <2>t, ConstantsAssumption
  <2> DEFINE k == perf.left - 1
  <2>8. perf' = [perf EXCEPT !.pc = "body", !.x = t, !.left = k, !.opened = 0]
    BY <1>3, <1>5
  <2>l. k \in 0..Cardinality(Tx) BY <1>l
  <2> HIDE DEF k
  <2>9. /\ IsPerf(perf') /\ perf'.pc = "body" /\ perf'.x = t /\ perf'.left = k
        /\ perf'.on_commit = 0 /\ perf'.on_doubt = 0
    BY <1>1, <1>2, <2>8 DEF IsPerf
  <2>10. NoneDecided' BY <1>2, <2>0, <2>3 DEF NoneDecided, Decided
  <2>11. w.db = {} BY <1>1, <1>2 DEF Landed, NoneDecided
  <2>12. Landed' BY <2>4, <2>5, <2>11 DEF Landed
  <2>13. Block' BY <1>1, <1>2, <2>t, <2>0, <2>3, <2>4, <2>5, <2>6, <2>7, <2>9 DEF Block
  <2>14. Stage' BY <2>l, <2>0, <2>3, <2>4, <2>5, <2>7, <2>9, <2>10 DEF Stage, IsPerf, NoneDecided
  <2> QED BY <2>3, <2>12, <2>13, <2>14 DEF NInv
<1>6. CASE r.exc # "ok"
  <2> DEFINE v == Unregister(r.x).w
             k == perf.left - 1
  <2>1. /\ Sane(v) /\ v.tx = "idle" /\ v.db = w.db /\ v.inhibit = w.inhibit /\ World(v)
        /\ v.trans = NoTrans
        /\ obj' = obj /\ perf' = [perf EXCEPT !.pc = "throwing", !.exc = r.exc, !.left = k]
    BY <1>3, <1>4, <1>6 DEF Idle
  <2>l. k \in 0..Cardinality(Tx) BY <1>l
  <2> HIDE DEF v, k
  <2>2. /\ IsPerf(perf') /\ perf'.pc = "throwing" /\ perf'.x = NoTrans /\ perf'.left = k
        /\ perf'.on_commit = 0 /\ perf'.on_doubt = 0
    BY <1>1, <1>2, <2>1 DEF IsPerf
  <2>3. Block' /\ w'.db = w.db BY <1>1, <1>2, <2>1, <2>2, BlockIdle
  <2>4. NoneDecided' BY <1>2, <2>1 DEF NoneDecided, Decided
  <2>5. Objects' BY <1>1, <2>1 DEF Objects
  <2>6. w.db = {} BY <1>1, <1>2 DEF Landed, NoneDecided
  <2>7. Landed' BY <2>3, <2>6 DEF Landed
  <2>8. Stage' BY <2>l, <2>2, <2>4 DEF Stage, IsPerf, NoneDecided
  <2> QED BY <2>3, <2>5, <2>7, <2>8 DEF NInv
<1> QED BY <1>5, <1>6

----------------------------------------------------------------------------
(* The theorem.                                                            *)

\* The invariant holds at first.
LEMMA NInvInit ==
  ASSUME NestedInit
  PROVE  NInv
<1>1. PICK inhibit \in BOOLEAN :
        w = [handle |-> "ok", alive |-> TRUE, tx |-> "idle", copy |-> FALSE,
             work |-> {}, db |-> {}, inhibit |-> inhibit, avoid |-> 0,
             trans |-> NoTrans, saves |-> <<>>]
  BY DEF NestedInit
<1>2. PICK k \in 1..Cardinality(Tx) :
        perf = [pc |-> "loop", x |-> NoTrans, left |-> k, opened |-> 0, exc |-> "ok",
                on_abort |-> 0, on_commit |-> 0, on_doubt |-> 0]
  BY DEF NestedInit
<1>3. /\ obj = [t \in Tx |-> Absent] /\ tried = [t \in Tx |-> {}] /\ subs = <<>>
  BY DEF NestedInit
<1>4. IsTx(Absent) /\ Absent.st = "absent" BY DEF IsTx, Absent, ObjType, Status
<1>5. Objects BY <1>3, <1>4, NoWork DEF Objects
<1>6. w.db = {} /\ w.tx = "idle" /\ w.saves = <<>> /\ IsWorld(w) /\ w.trans = NoTrans
  BY <1>1 DEF IsWorld
<1>7. Sane(w) BY <1>1, <1>6 DEF Sane, Handle, TxState
<1>8. /\ IsPerf(perf) /\ perf.pc = "loop" /\ perf.x = NoTrans /\ perf.on_commit = 0
      /\ perf.on_doubt = 0 /\ perf.left = k
  BY <1>2 DEF IsPerf
<1>l. k \in 0..Cardinality(Tx) /\ k # 0
  <2>1. Cardinality(Tx) \in Nat BY NestedAssumption, FS_CardinalityType
  <2> QED BY <1>2, <2>1
<1>9. NoneDecided BY <1>3, <1>4 DEF NoneDecided, Decided
<1>10. Stage BY <1>8, <1>9, <1>l DEF Stage, IsPerf, NoneDecided
<1>11. Block /\ Landed BY <1>3, <1>6, <1>7, <1>8 DEF Block, Landed
<1> QED BY <1>5, <1>10, <1>11 DEF NInv

\* Every step preserves the invariant.
LEMMA NInvNext ==
  ASSUME "uninhibited" \notin Liberties, NInv, [NestedNext]_nvars
  PROVE  NInv'
<1>1. CASE UNCHANGED nvars
  <2>1. w' = w /\ obj' = obj /\ tried' = tried /\ subs' = subs /\ perf' = perf
    BY <1>1 DEF nvars
  <2> QED BY <2>1 DEF NInv, Objects, Landed, Block, Stage, NoneDecided, Decided
<1>2. CASE Attempt BY <1>2, AttemptStep
<1>3. CASE BodyExec BY <1>3, BodyExecStep
<1>4. CASE PerformCatch \/ PerformReturn \/ \E exc \in {"std", "unknown"} : BodyThrow(exc)
  BY <1>4, PerformQuietStep
<1>5. CASE SubOpen BY <1>5, SubOpenStep
<1>6. CASE SubExec BY <1>6, SubExecStep
<1>7. CASE SubCommit \/ SubAbort BY <1>7, SubCommitStep
<1>8. CASE SubDestroy BY <1>8, SubDestroyStep
<1>9. CASE PerformCommit BY <1>9, PerformCommitStep
<1>10. CASE PerformDestroy BY <1>10, PerformDestroyStep
<1>11. CASE NestedLinkLost BY <1>11, LinkLostStep
<1> QED BY <1>1, <1>2, <1>3, <1>4, <1>5, <1>6, <1>7, <1>8, <1>9, <1>10, <1>11
        DEF NestedNext, Program

\* What has landed is of the one transaction whose outcome is decided.
LEMMA NInvExact ==
  ASSUME NInv
  PROVE  PerformExactlyOnce
<1> DEFINE landed == {t \in Tx : w.db \cap tried[t] # {}}
<1>1. Objects /\ Landed /\ Stage BY DEF NInv
<1>2. \A t \in landed : Decided(t) BY <1>1 DEF Objects, Landed, IsWork
<1>3. NoneDecided => landed = {} BY <1>2 DEF NoneDecided
<1>4. \A t \in landed, u \in landed : t = u BY <1>1, <1>2 DEF Stage
<1>5. Cardinality(landed) <= 1
  <2>1. CASE landed = {} BY <2>1, FS_EmptySet
  <2>2. CASE landed # {}
    <3>1. PICK t \in landed : TRUE BY <2>2
    <3>2. landed = {t} BY <1>4, <3>1
    <3> QED BY <3>2, FS_Singleton
  <2> QED BY <2>1, <2>2
<1>6. ASSUME perf.pc = "returned"
      PROVE  /\ \E t \in Tx : obj[t].st = "committed" /\ landed \subseteq {t}
             /\ perf.on_commit = 1 /\ perf.on_doubt = 0
  <2>1. PICK t \in Tx : obj[t].st = "committed" BY <1>1, <1>6 DEF Stage
  <2>2. landed \subseteq {t} BY <1>1, <1>2, <2>1 DEF Stage, Decided
  <2> QED BY <1>1, <1>6, <2>1, <2>2 DEF Stage
<1>7. ASSUME perf.pc = "threw"
      PROVE  /\ perf.exc # "in_doubt" => landed = {}
             /\ perf.on_commit = 0
             /\ perf.on_doubt = (IF perf.exc = "in_doubt" THEN 1 ELSE 0)
  BY <1>1, <1>3, <1>7 DEF Stage
<1>8. perf.pc = "loop" => landed = {} BY <1>1, <1>3 DEF Stage
<1> HIDE DEF landed
<1> QED BY <1>5, <1>6, <1>7, <1>8 DEF PerformExactlyOnce, landed

\* perform(): however often an attempt fails, wherever the connection is lost, and
\* whatever a body does with subtransactions, of any depth and number, one attempt's
\* work at most is in the database; it is there only if perform() returned, or threw
\* in_doubt_error; and the transactor has been told which, once.  Subtransactions are
\* used with reactivation inhibited, as their documentation does.
THEOREM PerformExactlyOnceHolds ==
  ASSUME "uninhibited" \notin Liberties
  PROVE  NestedSpec => []PerformExactlyOnce
<1>1. NestedInit => NInv BY NInvInit
<1>2. NInv /\ [NestedNext]_nvars => NInv' BY NInvNext
<1>3. NInv => PerformExactlyOnce BY NInvExact
<1> QED BY <1>1, <1>2, <1>3, PTL DEF NestedSpec

----------------------------------------------------------------------------
(* Whose savepoint is which.                                               *)

\* The savepoints of a block are in the order of their names.
Sorted(q) ==
  /\ \E S : q \in Seq(S)
  /\ \A i \in DOMAIN q : q[i].sp \in Nat
  /\ \A i \in DOMAIN q, j \in DOMAIN q : i < j => q[i].sp < q[j].sp

\* A sequence, by index.
LEMMA SeqFacts ==
  ASSUME NEW q, \E S : q \in Seq(S)
  PROVE  DOMAIN q = 1..Len(q) /\ Len(q) \in Nat
BY LenProperties

\* In order, an earlier name is at an earlier place.
LEMMA SortedOrder ==
  ASSUME NEW q, Sorted(q), NEW i \in DOMAIN q, NEW j \in DOMAIN q
  PROVE  /\ q[i].sp = q[j].sp => i = j
         /\ q[i].sp < q[j].sp => i < j
<1>1. DOMAIN q = 1..Len(q) /\ Len(q) \in Nat BY SeqFacts DEF Sorted
<1>2. i \in Nat /\ j \in Nat BY <1>1
<1>3. q[i].sp \in Nat /\ q[j].sp \in Nat BY DEF Sorted
<1>4. i < j => q[i].sp < q[j].sp BY DEF Sorted
<1>5. j < i => q[j].sp < q[i].sp BY DEF Sorted
<1> QED BY <1>2, <1>3, <1>4, <1>5

\* A name is found in one place.
LEMMA FindOne ==
  ASSUME NEW v, Sorted(v.saves), NEW k \in DOMAIN v.saves
  PROVE  Find(v, v.saves[k].sp) = {k}
<1>1. \A i \in DOMAIN v.saves : v.saves[i].sp = v.saves[k].sp => i = k BY SortedOrder
<1> QED BY <1>1 DEF Find

\* The first n savepoints.
LEMMA SortedCut ==
  ASSUME NEW q, Sorted(q), NEW n, n \in 0..Len(q)
  PROVE  LET r == SubSeq(q, 1, n)
         IN Sorted(r) /\ DOMAIN r = 1..n /\ \A i \in 1..n : r[i] = q[i] /\ i \in DOMAIN q
<1> DEFINE r == SubSeq(q, 1, n)
<1>1. PICK S : q \in Seq(S) BY DEF Sorted
<1>2. DOMAIN q = 1..Len(q) /\ Len(q) \in Nat BY <1>1, SeqFacts
<1>3. \A i \in 1..n : q[i] \in S /\ i \in DOMAIN q BY <1>1, <1>2
<1>4. n \in Nat /\ n \in Int /\ 1 \in Int BY <1>2
<1>5. /\ r \in Seq(S) /\ Len(r) = IF 1 <= n THEN n - 1 + 1 ELSE 0
      /\ \A i \in 1..n - 1 + 1 : r[i] = q[1 + i - 1]
  BY <1>3, <1>4, SubSeqProperties
<1> HIDE DEF r
<1>6. DOMAIN r = 1..n BY <1>4, <1>5, LenProperties
<1>7. \A i \in 1..n : r[i] = q[i] /\ i \in DOMAIN q BY <1>3, <1>4, <1>5
<1>8. Sorted(r)
  <2>1. \A i \in DOMAIN r : r[i].sp \in Nat BY <1>6, <1>7 DEF Sorted
  <2>2. \A i \in DOMAIN r, j \in DOMAIN r : i < j => r[i].sp < r[j].sp
    BY <1>6, <1>7 DEF Sorted
  <2> QED BY <1>5, <2>1, <2>2 DEF Sorted
<1> QED BY <1>6, <1>7, <1>8 DEF r

\* One savepoint more, of a new name.
LEMMA SortedMore ==
  ASSUME NEW q, Sorted(q), NEW e, e.sp \in Nat, \A i \in DOMAIN q : q[i].sp < e.sp
  PROVE  LET r == Append(q, e)
         IN /\ Sorted(r) /\ DOMAIN r = 1..Len(q) + 1
            /\ \A i \in DOMAIN q : r[i] = q[i] /\ i \in DOMAIN r
            /\ r[Len(q) + 1] = e
<1> DEFINE r == Append(q, e)
           len == Len(q)
<1>1. PICK S : q \in Seq(S) BY DEF Sorted
<1>2. DOMAIN q = 1..len /\ len \in Nat BY <1>1, SeqFacts
<1>3. q \in Seq(S \cup {e}) BY <1>1, SeqMonotonic
<1>4. /\ r \in Seq(S \cup {e}) /\ DOMAIN r = 1..len + 1
      /\ \A i \in 1..len : r[i] = q[i]
      /\ r[len + 1] = e
  BY <1>3
<1> HIDE DEF r, len
<1>5. \A i \in DOMAIN q : r[i] = q[i] /\ i \in DOMAIN r BY <1>2, <1>4
<1>6. \A i \in DOMAIN r : i \in DOMAIN q \/ i = len + 1 BY <1>2, <1>4
<1>7. \A i \in DOMAIN r : r[i].sp \in Nat BY <1>4, <1>5, <1>6 DEF Sorted
<1>8. ASSUME NEW i \in DOMAIN r, NEW j \in DOMAIN r, i < j PROVE r[i].sp < r[j].sp
  <2>1. i \in DOMAIN q BY <1>2, <1>4, <1>8
  <2>2. CASE j \in DOMAIN q BY <1>5, <1>8, <2>1, <2>2 DEF Sorted
  <2>3. CASE j = len + 1 BY <1>4, <1>5, <2>1, <2>3
  <2> QED BY <1>6, <2>2, <2>3
<1>9. Sorted(r) BY <1>4, <1>7, <1>8 DEF Sorted
<1> QED BY <1>4, <1>5, <1>9 DEF r, len

\* y is a session with this block.
Left(y, work, saves) ==
  y.alive = TRUE /\ y.tx = "open" /\ y.work = work /\ y.saves = saves

\* A savepoint command that the backend does not refuse for reasons of its own is
\* answered, or the session is gone.
LEMMA SaveExact ==
  ASSUME Rejects = {}, NEW s, NEW x, IsX(x), Sane(x.w), x.w.inhibit, Holds(x.w, s),
         NEW op, NEW sp, NEW r \in ExecSave(x, op, sp)
  PROVE  /\ IsX(r.x) /\ r.x.o = x.o
         /\ \/ r.exc # "ok" /\ ~r.x.w.alive
            \/ /\ x.w.alive
               /\ \E a : /\ a \in SaveAnswers(x.w, op, sp) /\ r.x.w = a.w
                         /\ r.exc = "ok" <=> a.res = "ok"
<1> DEFINE u == x.w
<1>1. PICK o : /\ r = Ret([x EXCEPT !.w = o.w], o.exc)
               /\ \E p \in activate(u) :
                    o \in IF p.exc = "ok" THEN Checked(PQsave(p.w, op, sp)) ELSE {p}
  BY DEF ExecSave, Lift, Checked, Then
<1>2. r.x = [x EXCEPT !.w = o.w] /\ r.exc = o.exc BY <1>1 DEF Ret
<1>3. r.x = [w |-> o.w, o |-> x.o] BY <1>2 DEF IsX
<1>4. IsX(r.x) /\ r.x.o = x.o /\ r.x.w = o.w BY <1>3 DEF IsX
<1>5. PICK p \in activate(u) : o \in IF p.exc = "ok" THEN Checked(PQsave(p.w, op, sp)) ELSE {p}
  BY <1>1
<1>6. \/ is_open(u) /\ p.exc = "ok" /\ p.w = u
      \/ p.exc # "ok" /\ Dead(u, p.w)
  BY ActivateFacts
<1>7. CASE p.exc # "ok"
  <2>1. o = p /\ Dead(u, o.w) BY <1>5, <1>6, <1>7
  <2> QED BY <1>2, <1>4, <1>7, <2>1 DEF Dead
<1>8. CASE is_open(u) /\ p.exc = "ok" /\ p.w = u
  <2> DEFINE rs == PQsave(u, op, sp)
  <2>1. o \in Checked(rs) BY <1>5, <1>8
  <2>2. Dead(u, Lost(u)) /\ Lost(u).handle = "bad" BY LostFacts
  <2>3. ASSUME NEW q \in rs
        PROVE  /\ IsReply(q)
               /\ \/ ~q.w.alive /\ ~is_open(q.w)
                  \/ u.alive /\ q \in SaveAnswers(u, op, sp)
    <3>1. CASE q = [w |-> Lost(u), res |-> "none"]
      <4>1. q.w = Lost(u) /\ q.res = "none" BY <3>1
      <4> QED BY <2>2, <4>1 DEF IsReply, Dead, is_open
    <3>2. CASE u.alive /\ q \in SaveAnswers(u, op, sp) BY <3>2, SaveAnswersFacts
    <3> QED BY <1>8, <2>3, <3>1, <3>2 DEF PQsave, is_open
  <2> HIDE DEF rs
  <2>4. PICK q \in rs : Came(q, o) BY <2>1, <2>3, CheckedFacts
  <2>5. CASE o.exc # "ok" /\ Dead(q.w, o.w) BY <1>2, <1>4, <2>5 DEF Dead
  <2>6. CASE is_open(q.w) /\ o.w = q.w /\ (o.exc = "ok" <=> q.res = "ok")
    <3>1. u.alive /\ q \in SaveAnswers(u, op, sp) BY <2>3, <2>6
    <3> QED BY <1>2, <1>4, <2>6, <3>1
  <2> QED BY <2>4, <2>5, <2>6 DEF Came
<1> QED BY <1>6, <1>7, <1>8

\* SAVEPOINT, in a block that is open.
LEMMA SavepointExact ==
  ASSUME Rejects = {}, NEW s, NEW x, IsX(x), Sane(x.w), x.w.inhibit, Holds(x.w, s),
         x.w.alive => x.w.tx = "open", NEW sp, NEW r \in sub_do_begin(x, sp)
  PROVE  /\ IsX(r.x) /\ r.x.o = x.o
         /\ \/ r.exc # "ok" /\ ~r.x.w.alive
            \/ /\ x.w.alive /\ r.exc = "ok"
               /\ Left(r.x.w, x.w.work, Append(x.w.saves, [sp |-> sp, work |-> x.w.work]))
<1> DEFINE u == x.w
           q == Append(u.saves, [sp |-> sp, work |-> u.work])
<1>1. r \in ExecSave(x, "SAVEPOINT", sp) BY DEF sub_do_begin
<1>2. /\ IsX(r.x) /\ r.x.o = x.o
      /\ \/ r.exc # "ok" /\ ~r.x.w.alive
         \/ /\ u.alive
            /\ \E a : /\ a \in SaveAnswers(u, "SAVEPOINT", sp) /\ r.x.w = a.w
                      /\ r.exc = "ok" <=> a.res = "ok"
  BY <1>1, SaveExact
<1>3. ASSUME u.alive, NEW a \in SaveAnswers(u, "SAVEPOINT", sp)
      PROVE  a.res = "ok" /\ Left(a.w, u.work, q)
  <2>1. a = [w |-> [u EXCEPT !.saves = q], res |-> "ok"] BY <1>3 DEF SaveAnswers
  <2> HIDE DEF q
  <2> DEFINE y == a.w
  <2>2. y = [u EXCEPT !.saves = q] /\ a.res = "ok" BY <2>1
  <2> HIDE DEF y
  <2>3. y.alive = u.alive /\ y.tx = u.tx /\ y.work = u.work /\ y.saves = q
    BY <2>2 DEF Sane, IsWorld
  <2>4. y.alive = TRUE BY <1>3, <2>3 DEF Sane
  <2> QED BY <1>3, <2>2, <2>3, <2>4 DEF y, Left
<1> QED BY <1>2, <1>3

\* RELEASE of a savepoint that is there, in a block that is open.
LEMMA ReleaseExact ==
  ASSUME Rejects = {}, NEW s, NEW x, IsX(x), Sane(x.w), x.w.inhibit, Holds(x.w, s),
         NEW sp, NEW k, x.w.alive => x.w.tx = "open" /\ Find(x.w, sp) = {k},
         NEW r \in sub_do_commit(x, sp)
  PROVE  /\ IsX(r.x) /\ r.x.o = x.o
         /\ \/ r.exc # "ok" /\ ~r.x.w.alive
            \/ /\ x.w.alive /\ r.exc = "ok"
               /\ Left(r.x.w, x.w.work, SubSeq(x.w.saves, 1, k - 1))
<1> DEFINE u == x.w
           q == SubSeq(u.saves, 1, k - 1)
<1>1. r \in ExecSave(x, "RELEASE", sp) BY DEF sub_do_commit
<1>2. /\ IsX(r.x) /\ r.x.o = x.o
      /\ \/ r.exc # "ok" /\ ~r.x.w.alive
         \/ /\ u.alive
            /\ \E a : /\ a \in SaveAnswers(u, "RELEASE", sp) /\ r.x.w = a.w
                      /\ r.exc = "ok" <=> a.res = "ok"
  BY <1>1, SaveExact
<1>3. ASSUME u.alive, NEW a \in SaveAnswers(u, "RELEASE", sp)
      PROVE  a.res = "ok" /\ Left(a.w, u.work, q)
  <2>0. Find(u, sp) # {} /\ (CHOOSE j \in Find(u, sp) : TRUE) = k BY <1>3
  <2>1. a = [w |-> [u EXCEPT !.saves = q], res |-> "ok"] BY <1>3, <2>0 DEF SaveAnswers
  <2> HIDE DEF q
  <2> DEFINE y == a.w
  <2>2. y = [u EXCEPT !.saves = q] /\ a.res = "ok" BY <2>1
  <2> HIDE DEF y
  <2>3. y.alive = u.alive /\ y.tx = u.tx /\ y.work = u.work /\ y.saves = q
    BY <2>2 DEF Sane, IsWorld
  <2>4. y.alive = TRUE BY <1>3, <2>3 DEF Sane
  <2> QED BY <1>3, <2>2, <2>3, <2>4 DEF y, Left
<1> QED BY <1>2, <1>3

\* ROLLBACK TO a savepoint that is there, in a block that is open or doomed.
LEMMA RollbackExact ==
  ASSUME Rejects = {}, NEW s, NEW x, IsX(x), Sane(x.w), x.w.inhibit, Holds(x.w, s),
         NEW sp, NEW k, x.w.alive => x.w.tx # "idle" /\ Find(x.w, sp) = {k},
         NEW r \in sub_do_abort(x, sp)
  PROVE  /\ IsX(r.x) /\ r.x.o = x.o
         /\ \/ ~r.x.w.alive
            \/ x.w.alive /\ Left(r.x.w, x.w.saves[k].work, SubSeq(x.w.saves, 1, k))
<1> DEFINE u == x.w
           q == SubSeq(u.saves, 1, k)
           to == u.saves[k].work
<1>1. r \in ExecSave(x, "ROLLBACK TO", sp) BY DEF sub_do_abort
<1>2. /\ IsX(r.x) /\ r.x.o = x.o
      /\ \/ r.exc # "ok" /\ ~r.x.w.alive
         \/ /\ u.alive
            /\ \E a : /\ a \in SaveAnswers(u, "ROLLBACK TO", sp) /\ r.x.w = a.w
                      /\ r.exc = "ok" <=> a.res = "ok"
  BY <1>1, SaveExact
<1>3. ASSUME u.alive, NEW a, a \in SaveAnswers(u, "ROLLBACK TO", sp)
      PROVE  Left(a.w, to, q)
  <2>0. Find(u, sp) # {} /\ (CHOOSE j \in Find(u, sp) : TRUE) = k BY <1>3
  <2>1. a = [w |-> [u EXCEPT !.saves = q, !.tx = "open", !.work = to], res |-> "ok"]
    BY <1>3, <2>0 DEF SaveAnswers
  <2> HIDE DEF q, to
  <2> DEFINE y == a.w
  <2>2. y = [u EXCEPT !.saves = q, !.tx = "open", !.work = to] BY <2>1
  <2> HIDE DEF y
  <2>3. y.alive = u.alive /\ y.tx = "open" /\ y.work = to /\ y.saves = q
    BY <2>2 DEF Sane, IsWorld
  <2>4. y.alive = TRUE BY <1>3, <2>3 DEF Sane
  <2> QED BY <2>3, <2>4 DEF y, Left
<1> QED BY <1>2, <1>3

\* A statement, in a block that is open: its effect is there, or the block is
\* doomed, or the session is gone.
LEMMA SqlExact ==
  ASSUME NEW u, Sane(u), u.handle # "none", u.alive => u.tx = "open", NEW eff,
         NEW o \in Exec(u, "SQL", eff)
  PROVE  \/ o.exc # "ok" /\ ~o.w.alive
         \/ u.alive /\ o.exc = "ok" /\ Left(o.w, u.work \cup eff, u.saves)
         \/ u.alive /\ o.exc # "ok" /\ o.w.tx = "failed" /\ o.w.saves = u.saves
<1>1. \A v : SentOn(u, v) => v = u BY DEF SentOn
<1> DEFINE wk == u.work \cup eff
<1>2. ASSUME u.alive, NEW a \in Answers(u, "SQL", eff)
      PROVE  /\ IsReply(a)
             /\ \/ a.res = "ok" /\ Left(a.w, wk, u.saves)
                \/ a.res # "ok" /\ a.w.tx = "failed" /\ a.w.saves = u.saves
  <2>0. "open" \in TxState /\ "failed" \in TxState BY DEF TxState
  <2>1. \/ a = Reply(u, "open", wk, u.db, "ok") \/ a = Reply(u, "failed", {}, u.db, "error")
    BY <1>2 DEF Answers, Statement, Doom
  <2> HIDE DEF wk
  <2>2. CASE a = Reply(u, "open", wk, u.db, "ok")
    <3>1. /\ IsReply(a) /\ a.res = "ok" /\ a.w.tx = "open" /\ a.w.work = wk
          /\ a.w.saves = u.saves
      BY <1>2, <2>0, <2>2, ReplyFacts
    <3>2. a.w.alive = TRUE BY <3>1 DEF IsReply, Sane
    <3> QED BY <3>1, <3>2 DEF Left
  <2>3. CASE a = Reply(u, "failed", {}, u.db, "error")
    <3>1. IsReply(a) /\ a.res = "error" /\ a.w.tx = "failed" /\ a.w.saves = u.saves
      BY <1>2, <2>0, <2>3, ReplyFacts
    <3> QED BY <3>1
  <2> QED BY <2>1, <2>2, <2>3
<1>3. PICK v : Outcome(u, v, Answers(v, "SQL", eff), o) BY <1>1, <1>2, ExecFacts
<1>4. CASE o.exc # "ok" /\ Dead(u, o.w) BY <1>4 DEF Dead
<1>5. CASE SentOn(u, v) /\ v.alive /\ \E a \in Answers(v, "SQL", eff) : Came(a, o)
  <2>1. u.alive BY <1>1, <1>5
  <2>2. PICK a \in Answers(u, "SQL", eff) : Came(a, o) BY <1>1, <1>5
  <2>3. CASE is_open(a.w) /\ o.w = a.w /\ (o.exc = "ok" <=> a.res = "ok")
    BY <1>2, <2>1, <2>3
  <2>4. CASE o.exc # "ok" /\ Dead(a.w, o.w) BY <2>4 DEF Dead
  <2> QED BY <2>2, <2>3, <2>4 DEF Came
<1> QED BY <1>3, <1>4, <1>5 DEF Outcome

----------------------------------------------------------------------------
(* The innermost subtransaction.                                           *)

\* From u to y the savepoints around the one named sp are kept.
Carries(u, y, sp) ==
  /\ Sorted(y.saves)
  /\ \A k \in DOMAIN u.saves :
       u.saves[k].sp < sp => k \in DOMAIN y.saves /\ y.saves[k] = u.saves[k]

\* The savepoint sp is there, and what had been done when it was set.
Marked(y, sp, before) ==
  \E k \in DOMAIN y.saves : y.saves[k].sp = sp /\ y.saves[k].work = before

\* The session and a subtransaction in state st, which is named sp and has done d
\* since before, are in step.
Inner(u, y, sp, before, st, d) ==
  /\ y.tx = "open" /\ Carries(u, y, sp)
  /\ y.work = IF st = "aborted" THEN before ELSE before \cup d
  /\ st = "active" => Marked(y, sp, before)
  /\ st = "nascent" => d = {} /\ \A k \in DOMAIN y.saves : y.saves[k].sp < sp

\* A call of it works on a session that holds the work of s, if it is there.
Called(x, s) ==
  /\ IsX(x) /\ IsTx(x.o) /\ Sane(x.w) /\ x.w.inhibit /\ x.w.handle # "none"
  /\ Holds(x.w, s)

\* abort() of a subtransaction that is active rolls back to its savepoint.
LEMMA SubAbortExact ==
  ASSUME Rejects = {}, NEW s, NEW x, Called(x, s), NEW u, NEW sp \in Nat, NEW before, NEW d,
         x.o.st = "active",
         x.w.alive => x.w.tx # "idle" /\ Carries(u, x.w, sp) /\ Marked(x.w, sp, before),
         NEW r \in sub_abort(x, sp)
  PROVE  /\ IsTx(r.x.o) /\ r.x.o.st = "aborted"
         /\ r.x.w.alive => x.w.alive /\ Inner(u, r.x.w, sp, before, "aborted", d)
<1> DEFINE q == x.w.saves
<1>1. PICK p : p \in sub_do_abort(x, sp) /\ r = Ret(SetStatus(p.x, "aborted"), "ok")
  BY DEF sub_abort
<1>2. PICK k : x.w.alive => k \in DOMAIN q /\ q[k].sp = sp /\ q[k].work = before
  BY DEF Marked
<1>3. x.w.alive => Find(x.w, sp) = {k}
  <2> SUFFICES ASSUME x.w.alive PROVE Find(x.w, sp) = {k} OBVIOUS
  <2>1. Sorted(q) /\ k \in DOMAIN q /\ q[k].sp = sp BY <1>2 DEF Carries
  <2> QED BY <2>1, FindOne
<1>4. /\ IsX(p.x) /\ p.x.o = x.o
      /\ \/ ~p.x.w.alive
         \/ x.w.alive /\ Left(p.x.w, x.w.saves[k].work, SubSeq(x.w.saves, 1, k))
  <2>1. IsX(x) /\ Sane(x.w) /\ x.w.inhibit /\ Holds(x.w, s) BY DEF Called
  <2>2. x.w.alive => x.w.tx # "idle" /\ Find(x.w, sp) = {k} BY <1>3
  <2> QED BY <1>1, <2>1, <2>2, RollbackExact
<1>5. r.x = SetStatus(p.x, "aborted") BY <1>1 DEF Ret
<1>6. IsTx(r.x.o) /\ r.x.o.st = "aborted" /\ r.x.w = p.x.w
  BY <1>4, <1>5, SetStatusFacts DEF Called, Status
<1>7. ASSUME x.w.alive, Left(p.x.w, q[k].work, SubSeq(q, 1, k))
      PROVE  Inner(u, p.x.w, sp, before, "aborted", d)
  <2> DEFINE y == p.x.w
             c == SubSeq(q, 1, k)
  <2>1. y.tx = "open" /\ y.work = before /\ y.saves = c BY <1>2, <1>7 DEF Left
  <2>2. Sorted(q) BY <1>7 DEF Carries
  <2>3. DOMAIN q = 1..Len(q) /\ Len(q) \in Nat BY <2>2, SeqFacts DEF Sorted
  <2>4. k \in 0..Len(q) BY <1>2, <1>7, <2>3
  <2>5. Sorted(c) /\ DOMAIN c = 1..k /\ \A i \in 1..k : c[i] = q[i] /\ i \in DOMAIN q
    BY <2>2, <2>4, SortedCut
  <2>6. ASSUME NEW i \in DOMAIN u.saves, u.saves[i].sp < sp
        PROVE  i \in DOMAIN c /\ c[i] = u.saves[i]
    <3>1. i \in DOMAIN q /\ q[i] = u.saves[i] BY <1>7, <2>6 DEF Carries
    <3>2. i < k BY <1>2, <1>7, <2>2, <2>6, <3>1, SortedOrder
    <3> QED BY <2>3, <2>4, <2>5, <3>1, <3>2
  <2> HIDE DEF y, c
  <2> QED BY <2>1, <2>5, <2>6 DEF y, Inner, Carries
<1> QED BY <1>4, <1>6, <1>7

\* What activate() of it leaves.
Activated(u, x, sp, before, d, r) ==
  /\ IsTx(r.x.o)
  /\ \/ r.exc # "ok" /\ ~r.x.w.alive /\ r.x.o.st = x.o.st
     \/ /\ r.exc = "ok" /\ r.x.o.st = "active"
        /\ r.x.w.alive => Inner(u, r.x.w, sp, before, "active", d)

\* activate() sets the savepoint, if it was not there.
LEMMA SubActivateExact ==
  ASSUME Rejects = {}, NEW s, NEW x, Called(x, s), NEW u, NEW sp \in Nat, NEW before, NEW d,
         x.o.st \in {"nascent", "active"},
         x.w.alive => Inner(u, x.w, sp, before, x.o.st, d),
         NEW r \in sub_activate(x, sp)
  PROVE  Activated(u, x, sp, before, d, r)
<1> USE DEF Activated
<1>1. CASE x.o.st = "active"
  <2>1. r = Ret(x, "ok") BY <1>1 DEF sub_activate
  <2>2. r.x = x /\ r.exc = "ok" BY <2>1 DEF Ret
  <2>3. x.w.alive => Inner(u, x.w, sp, before, "active", d) BY <1>1
  <2> QED BY <1>1, <2>2, <2>3 DEF Called
<1>2. CASE x.o.st = "nascent"
  <2> DEFINE os == get_notifs(x.w)
  <2>1. PICK n \in Lift(x, os) :
          r \in IF n.exc # "ok" THEN {n}
                ELSE {IF p.exc = "ok" THEN Ret(SetStatus(p.x, "active"), "ok") ELSE p :
                      p \in sub_do_begin(n.x, sp)}
    BY <1>2 DEF sub_activate
  <2>c. IsX(x) /\ Sane(x.w) /\ IsTx(x.o) /\ x.w.inhibit /\ Holds(x.w, s) BY DEF Called
  <2>2. PICK o \in os : IsX(n.x) /\ n.x.w = o.w /\ n.x.o = x.o /\ n.exc = o.exc
    BY <2>c, LiftFacts
  <2>3. (o.exc = "ok" /\ o.w = x.w) \/ (o.exc # "ok" /\ Dead(x.w, o.w))
    BY <2>c, NotifsFacts
  <2>4. CASE n.exc # "ok"
    <3>1. r = n BY <2>1, <2>4
    <3> QED BY <2>c, <2>2, <2>3, <2>4, <3>1 DEF Dead
  <2>5. CASE n.exc = "ok"
    <3>1. PICK p \in sub_do_begin(n.x, sp) :
            r = IF p.exc = "ok" THEN Ret(SetStatus(p.x, "active"), "ok") ELSE p
      BY <2>1, <2>5
    <3>2. n.x.w = x.w /\ n.x.o = x.o /\ IsX(n.x) BY <2>2, <2>3, <2>5
    <3> DEFINE v == x.w
               e == [sp |-> sp, work |-> v.work]
               q == Append(v.saves, e)
    <3>3. n.x.w.alive => n.x.w.tx = "open" BY <3>2 DEF Inner
    <3>4. /\ IsX(p.x) /\ p.x.o = n.x.o
          /\ \/ p.exc # "ok" /\ ~p.x.w.alive
             \/ /\ n.x.w.alive /\ p.exc = "ok"
                /\ Left(p.x.w, n.x.w.work, Append(n.x.w.saves, [sp |-> sp, work |-> n.x.w.work]))
      BY <2>c, <3>2, <3>3, SavepointExact
    <3>5. CASE p.exc # "ok" /\ ~p.x.w.alive BY <2>c, <3>1, <3>2, <3>4, <3>5
    <3>6. CASE v.alive /\ p.exc = "ok" /\ Left(p.x.w, v.work, q)
      <4>1. r = Ret(SetStatus(p.x, "active"), "ok") BY <3>1, <3>6
      <4>2. r.x = SetStatus(p.x, "active") /\ r.exc = "ok" BY <4>1 DEF Ret
      <4>3. IsTx(r.x.o) /\ r.x.o.st = "active" /\ r.x.w = p.x.w
        BY <2>c, <3>2, <3>4, <4>2, SetStatusFacts DEF Status
      <4> DEFINE y == p.x.w
      <4>4. y.tx = "open" /\ y.work = v.work /\ y.saves = q BY <3>6 DEF Left
      <4>5. /\ v.work = before \cup d /\ d = {} /\ Carries(u, v, sp)
            /\ \A k \in DOMAIN v.saves : v.saves[k].sp < sp
        BY <1>2, <3>6 DEF Inner
      <4>6. Sorted(v.saves) /\ e.sp \in Nat /\ e.sp = sp /\ e.work = v.work
        BY <4>5 DEF Carries
      <4> HIDE DEF e
      <4>7. /\ Sorted(q) /\ DOMAIN q = 1..Len(v.saves) + 1
            /\ \A k \in DOMAIN v.saves : q[k] = v.saves[k] /\ k \in DOMAIN q
            /\ q[Len(v.saves) + 1] = e
        BY <4>5, <4>6, SortedMore
      <4>8. Len(v.saves) + 1 \in DOMAIN q
        <5>1. Len(v.saves) \in Nat BY <4>6, SeqFacts DEF Sorted
        <5> QED BY <4>7, <5>1
      <4> HIDE DEF q, y
      <4>9. Carries(u, y, sp) BY <4>4, <4>5, <4>7 DEF Carries
      <4>10. Marked(y, sp, before) BY <4>4, <4>5, <4>6, <4>7, <4>8 DEF Marked
      <4>11. Inner(u, y, sp, before, "active", d) BY <4>4, <4>5, <4>9, <4>10 DEF Inner
      <4> QED BY <4>2, <4>3, <4>11 DEF y
    <3> QED BY <3>2, <3>4, <3>5, <3>6
  <2> QED BY <2>4, <2>5
<1> QED BY <1>1, <1>2

\* What exec() of it leaves.
Executed(u, x, sp, before, d, eff, r) ==
  /\ IsTx(r.x.o) /\ r.x.o.st \in {"nascent", "active", "aborted"}
  /\ r.x.o.st = "nascent" => x.o.st = "nascent" /\ r.exc # "ok"
  /\ r.x.w.alive =>
       Inner(u, r.x.w, sp, before, r.x.o.st, d \cup (IF r.exc = "ok" THEN eff ELSE {}))

\* exec() adds to the work of an active subtransaction, or rolls it back.
LEMMA SubExecExact ==
  ASSUME Rejects = {}, NEW s, NEW x, Called(x, s), NEW u, NEW sp \in Nat, NEW before, NEW d,
         x.o.st \in {"nascent", "active"},
         x.w.alive => Inner(u, x.w, sp, before, x.o.st, d), NEW eff, eff \subseteq s,
         NEW r \in sub_exec(x, sp, eff)
  PROVE  Executed(u, x, sp, before, d, eff, r)
<1>1. PICK a \in sub_activate(x, sp) :
        r \in IF a.exc # "ok" THEN {a}
              ELSE UNION {IF p.exc = "ok" THEN {p}
                          ELSE {Ret(b.x, p.exc) : b \in sub_abort(p.x, sp)} :
                          p \in DirectExec(a.x, "SQL", eff)}
  BY DEF sub_exec
<1>0. Activated(u, x, sp, before, d, a) BY SubActivateExact
<1>2. /\ IsTx(a.x.o)
      /\ \/ a.exc # "ok" /\ ~a.x.w.alive /\ a.x.o.st = x.o.st
         \/ /\ a.exc = "ok" /\ a.x.o.st = "active"
            /\ a.x.w.alive => Inner(u, a.x.w, sp, before, "active", d)
  BY <1>0 DEF Activated
<1>3. SubGoes(x, a, s) BY SubActivateFacts DEF Called
<1>4. CASE a.exc # "ok" BY <1>1, <1>2, <1>4 DEF Executed
<1>5. CASE a.exc = "ok"
  <2>1. PICK p \in DirectExec(a.x, "SQL", eff) :
          r \in IF p.exc = "ok" THEN {p} ELSE {Ret(b.x, p.exc) : b \in sub_abort(p.x, sp)}
    BY <1>1, <1>5
  <2>2. /\ IsX(a.x) /\ Sane(a.x.w) /\ a.x.w.inhibit /\ Holds(a.x.w, s)
        /\ a.x.w.handle # "none" /\ (a.x.w.alive => a.x.w.tx = "open")
    BY <1>2, <1>3, <1>5 DEF SubGoes, Goes, Called, Inner
  <2>3. PICK o \in Exec(a.x.w, "SQL", eff) : p.x.w = o.w /\ p.x.o = a.x.o /\ p.exc = o.exc
    BY <1>2, <2>2, DirectFacts DEF IsTx
  <2>x. IsX(p.x) BY <2>2, DirectFacts
  <2> DEFINE v == a.x.w
  <2>4. \/ o.exc # "ok" /\ ~o.w.alive
        \/ v.alive /\ o.exc = "ok" /\ Left(o.w, v.work \cup eff, v.saves)
        \/ v.alive /\ o.exc # "ok" /\ o.w.tx = "failed" /\ o.w.saves = v.saves
    BY <2>2, SqlExact
  <2>5. Goes(v, o.w, s) BY <2>2, SqlFacts
  <2>6. CASE p.exc = "ok"
    <3>1. r = p BY <2>1, <2>6
    <3>2. v.alive /\ Left(o.w, v.work \cup eff, v.saves) BY <2>3, <2>4, <2>6
    <3>3. Inner(u, v, sp, before, "active", d) BY <1>2, <1>5, <3>2
    <3>4. Inner(u, o.w, sp, before, "active", d \cup eff)
      <4>1. o.w.tx = "open" /\ o.w.work = before \cup (d \cup eff) /\ o.w.saves = v.saves
        BY <3>2, <3>3 DEF Inner, Left
      <4>2. Carries(u, o.w, sp) /\ Marked(o.w, sp, before)
        BY <3>3, <4>1 DEF Inner, Carries, Marked
      <4> QED BY <4>1, <4>2 DEF Inner
    <3> QED BY <1>2, <1>5, <2>3, <2>6, <3>1, <3>4 DEF Executed
  <2>7. CASE p.exc # "ok"
    <3>1. PICK b \in sub_abort(p.x, sp) : r = Ret(b.x, p.exc) BY <2>1, <2>7
    <3>2. r.x = b.x /\ r.exc = p.exc BY <3>1 DEF Ret
    <3>3. Called(p.x, s) BY <1>2, <2>2, <2>3, <2>x, <2>5 DEF Called, Goes
    <3>4. p.x.w.alive =>
            p.x.w.tx # "idle" /\ Carries(u, p.x.w, sp) /\ Marked(p.x.w, sp, before)
      BY <1>2, <1>5, <2>3, <2>4, <2>7 DEF Inner, Carries, Marked
    <3>5. p.x.o.st = "active" BY <1>2, <1>5, <2>3
    <3>6. /\ IsTx(b.x.o) /\ b.x.o.st = "aborted"
          /\ b.x.w.alive => p.x.w.alive /\ Inner(u, b.x.w, sp, before, "aborted", d)
      BY <3>3, <3>4, <3>5, SubAbortExact
    <3>7. d \cup (IF r.exc = "ok" THEN eff ELSE {}) = d BY <2>7, <3>2
    <3> QED BY <3>2, <3>6, <3>7 DEF Executed
  <2> QED BY <2>6, <2>7
<1> QED BY <1>4, <1>5

\* commit() releases the savepoint and keeps the work.
LEMMA SubCommitExact ==
  ASSUME Rejects = {}, NEW s, NEW x, Called(x, s), NEW u, NEW sp \in Nat, NEW before, NEW d,
         x.o.st \in {"nascent", "active"},
         x.w.alive => Inner(u, x.w, sp, before, x.o.st, d),
         NEW r \in sub_commit(x, sp)
  PROVE  /\ IsTx(r.x.o) /\ r.x.o.st \in {"nascent", "active", "aborted", "committed"}
         /\ r.x.o.st = "nascent" => x.o.st = "nascent"
         /\ r.x.w.alive => Inner(u, r.x.w, sp, before, r.x.o.st, d)
<1>1. CASE x.o.st = "nascent" \/ ~is_open(x.w)
  <2>1. r = Ret(x, "ok") \/ r = Ret(x, "broken") BY <1>1 DEF sub_commit
  <2>2. r.x = x BY <2>1 DEF Ret
  <2> QED BY <2>2 DEF Called
<1>2. CASE x.o.st = "active" /\ is_open(x.w)
  <2> DEFINE q == x.w.saves
  <2>1. PICK p \in sub_do_commit(x, sp) :
          r = Ret(SetStatus(p.x, IF p.exc = "ok" THEN "committed" ELSE "aborted"), p.exc)
    BY <1>2 DEF sub_commit
  <2>2. PICK k : x.w.alive => k \in DOMAIN q /\ q[k].sp = sp /\ q[k].work = before
    BY <1>2 DEF Marked, Inner
  <2>3. x.w.alive => x.w.tx = "open" /\ Find(x.w, sp) = {k}
    <3> SUFFICES ASSUME x.w.alive PROVE x.w.tx = "open" /\ Find(x.w, sp) = {k} OBVIOUS
    <3>1. Sorted(q) /\ k \in DOMAIN q /\ q[k].sp = sp BY <2>2 DEF Inner, Carries
    <3> QED BY <3>1, FindOne DEF Inner
  <2>4. IsX(x) /\ Sane(x.w) /\ x.w.inhibit /\ Holds(x.w, s) /\ IsTx(x.o) BY DEF Called
  <2>5. /\ IsX(p.x) /\ p.x.o = x.o
        /\ \/ p.exc # "ok" /\ ~p.x.w.alive
           \/ /\ x.w.alive /\ p.exc = "ok"
              /\ Left(p.x.w, x.w.work, SubSeq(x.w.saves, 1, k - 1))
    BY <2>1, <2>3, <2>4, ReleaseExact
  <2> DEFINE st == IF p.exc = "ok" THEN "committed" ELSE "aborted"
  <2>6. r.x = SetStatus(p.x, st) BY <2>1 DEF Ret
  <2>7. st \in Status /\ (st = "committed" <=> p.exc = "ok")
        /\ st \in {"committed", "aborted"} BY DEF Status
  <2> HIDE DEF st
  <2>8. IsTx(r.x.o) /\ r.x.o.st = st /\ r.x.w = p.x.w
    BY <2>4, <2>5, <2>6, <2>7, SetStatusFacts
  <2>9. ASSUME p.x.w.alive PROVE Inner(u, p.x.w, sp, before, st, d)
    <3> DEFINE y == p.x.w
               c == SubSeq(q, 1, k - 1)
    <3>1. x.w.alive /\ st = "committed" /\ y.tx = "open" /\ y.work = x.w.work /\ y.saves = c
      BY <2>5, <2>7, <2>9 DEF Left
    <3>2. Inner(u, x.w, sp, before, "active", d) BY <1>2, <3>1
    <3>3. Sorted(q) BY <3>2 DEF Inner, Carries
    <3>4. DOMAIN q = 1..Len(q) /\ Len(q) \in Nat BY <3>3, SeqFacts DEF Sorted
    <3>5. k \in 1..Len(q) /\ k - 1 \in 0..Len(q) BY <2>2, <3>1, <3>4
    <3>6. /\ Sorted(c) /\ DOMAIN c = 1..(k - 1)
          /\ \A i \in 1..(k - 1) : c[i] = q[i] /\ i \in DOMAIN q
      BY <3>3, <3>5, SortedCut
    <3>7. ASSUME NEW i \in DOMAIN u.saves, u.saves[i].sp < sp
          PROVE  i \in DOMAIN c /\ c[i] = u.saves[i]
      <4>1. i \in DOMAIN q /\ q[i] = u.saves[i] BY <3>2, <3>7 DEF Inner, Carries
      <4>2. i < k BY <2>2, <3>1, <3>3, <3>7, <4>1, SortedOrder
      <4>3. i \in 1..(k - 1) BY <3>4, <3>5, <4>1, <4>2
      <4> QED BY <3>6, <4>1, <4>3
    <3> HIDE DEF y, c
    <3>8. Carries(u, y, sp) BY <3>1, <3>6, <3>7 DEF Carries
    <3> QED BY <3>1, <3>2, <3>8 DEF y, Inner
  <2> QED BY <2>7, <2>8, <2>9
<1> QED BY <1>1, <1>2

----------------------------------------------------------------------------
(* The stack of subtransactions.                                           *)

\* A subtransaction in scope.
IsSub(e) == e = [o |-> e.o, sp |-> e.sp, done |-> e.done]

\* Subtransactions are opened in order, each in one that is active, and what they
\* did is among the statements of all.  One that has not begun, or has committed,
\* has nothing of its own.
IsStack(s, all) ==
  /\ Sorted(s)
  /\ \A i \in DOMAIN s :
       /\ IsSub(s[i]) /\ IsTx(s[i].o) /\ s[i].done \subseteq all
       /\ s[i].o.st \in {"nascent", "active", "aborted", "committed"}
       /\ s[i].o.st \in {"nascent", "committed"} => s[i].done = {}
       /\ i < Len(s) => s[i].o.st = "active"

\* The work of X, which did d itself, and of its n outermost subtransactions.
Level(s, d, n) == d \cup UNION {s[i].done : i \in 1..n}

\* The subtransactions that count: an aborted one has been rolled back.
Top(s) == IF s # <<>> /\ s[Len(s)].o.st = "aborted" THEN Len(s) - 1 ELSE Len(s)

\* The block y holds just the work of the stack, and the savepoint of each active
\* subtransaction holds the work around it.
Agrees(s, d, y) ==
  /\ y.tx = "open" /\ Sorted(y.saves) /\ y.work = Level(s, d, Top(s))
  /\ \A i \in DOMAIN s :
       /\ s[i].o.st = "active" => Marked(y, s[i].sp, Level(s, d, i - 1))
       /\ s[i].o.st = "nascent" => \A k \in DOMAIN y.saves : y.saves[k].sp < s[i].sp

\* The work around no subtransaction is X's own.
LEMMA LevelNone ==
  ASSUME NEW s, NEW d
  PROVE  Level(s, d, 0) = d
<1>1. 1..0 = {} OBVIOUS
<1>2. UNION {s[i].done : i \in 1..0} = {} BY <1>1
<1> QED BY <1>2 DEF Level

\* One subtransaction more.
LEMMA LevelNext ==
  ASSUME NEW s, NEW d, NEW n \in Nat, n # 0
  PROVE  Level(s, d, n) = Level(s, d, n - 1) \cup s[n].done
<1>1. 1..n = (1..(n - 1)) \cup {n} OBVIOUS
<1> QED BY <1>1 DEF Level

\* Stacks that agree on the n outermost have done the same work there.
LEMMA LevelSame ==
  ASSUME NEW s, NEW z, NEW d, NEW n \in Int, \A i \in 1..n : z[i].done = s[i].done
  PROVE  Level(z, d, n) = Level(s, d, n)
<1>1. {s[i].done : i \in 1..n} = {z[i].done : i \in 1..n} OBVIOUS
<1> QED BY <1>1 DEF Level

\* A stack that is not empty has an innermost subtransaction.
LEMMA StackFacts ==
  ASSUME NEW s, NEW all, IsStack(s, all)
  PROVE  /\ DOMAIN s = 1..Len(s) /\ Len(s) \in Nat
         /\ s # <<>> <=> Len(s) # 0
         /\ s # <<>> => Len(s) \in DOMAIN s
<1>1. PICK S : s \in Seq(S) BY DEF IsStack, Sorted
<1>2. DOMAIN s = 1..Len(s) /\ Len(s) \in Nat BY <1>1, SeqFacts
<1>3. s = <<>> <=> Len(s) = 0 BY <1>1, EmptySeq
<1> QED BY <1>2, <1>3

\* The innermost subtransaction and the block around it, as its calls see them.
LEMMA AgreesInner ==
  ASSUME NEW s, NEW all, IsStack(s, all), s # <<>>, NEW d, NEW y, Agrees(s, d, y),
         NEW n, n = Len(s), s[n].o.st \in {"nascent", "active"}
  PROVE  Inner(y, y, s[n].sp, Level(s, d, n - 1), s[n].o.st, s[n].done)
<1>1. DOMAIN s = 1..n /\ n \in Nat /\ n # 0 /\ n \in DOMAIN s BY StackFacts
<1>2. Top(s) = n BY DEF Top
<1>3. y.work = Level(s, d, n - 1) \cup s[n].done BY <1>1, <1>2, LevelNext DEF Agrees
<1>4. Carries(y, y, s[n].sp) BY DEF Agrees, Carries
<1>5. s[n].o.st = "nascent" => s[n].done = {} BY <1>1 DEF IsStack
<1> QED BY <1>1, <1>3, <1>4, <1>5 DEF Inner, Agrees

\* The innermost subtransaction of s is now o and has done c.  If it has committed,
\* c goes to the one around it, or to X: z is the stack and e what X did.
Reshaped(s, d, z, e, o, c) ==
  LET n  == Len(s)
      up == o.st = "committed"
  IN /\ (\E S : z \in Seq(S)) /\ Len(z) = n
     /\ z[n] = [o |-> o, sp |-> s[n].sp, done |-> IF up THEN {} ELSE c]
     /\ \A i \in 1..(n - 1) :
          z[i] = [o |-> s[i].o, sp |-> s[i].sp,
                  done |-> IF up /\ i = n - 1 THEN s[i].done \cup c ELSE s[i].done]
     /\ e = IF up /\ n = 1 THEN d \cup c ELSE d

\* Whose work is whose, then.
LEMMA ReshapedLevels ==
  ASSUME NEW s, NEW all, IsStack(s, all), s # <<>>, NEW d, NEW z, NEW e, NEW o, NEW c,
         Reshaped(s, d, z, e, o, c), NEW n, n = Len(s)
  PROVE  /\ \A i \in 0..(n - 2) : Level(z, e, i) = Level(s, d, i)
         /\ o.st # "committed" => Level(z, e, n - 1) = Level(s, d, n - 1)
         /\ Level(z, e, n) = Level(s, d, n - 1) \cup c
<1>1. DOMAIN s = 1..n /\ n \in Nat /\ n # 0 BY StackFacts
<1>2. /\ z[n].done = IF o.st = "committed" THEN {} ELSE c
      /\ \A i \in 1..(n - 1) :
           z[i].done = IF o.st = "committed" /\ i = n - 1 THEN s[i].done \cup c ELSE s[i].done
      /\ e = IF o.st = "committed" /\ n = 1 THEN d \cup c ELSE d
  <2>1. \E b : /\ z[n] = [o |-> o, sp |-> s[n].sp, done |-> b]
              /\ b = IF o.st = "committed" THEN {} ELSE c
    BY DEF Reshaped
  <2>2. \A i \in 1..(n - 1) : \E b :
          /\ z[i] = [o |-> s[i].o, sp |-> s[i].sp, done |-> b]
          /\ b = IF o.st = "committed" /\ i = n - 1 THEN s[i].done \cup c ELSE s[i].done
    BY DEF Reshaped
  <2>3. e = IF o.st = "committed" /\ n = 1 THEN d \cup c ELSE d BY DEF Reshaped
  <2>4. z[n].done = IF o.st = "committed" THEN {} ELSE c BY <2>1
  <2>5. \A i \in 1..(n - 1) :
          z[i].done = IF o.st = "committed" /\ i = n - 1 THEN s[i].done \cup c ELSE s[i].done
    <3> TAKE i \in 1..(n - 1)
    <3>1. PICK b : /\ z[i] = [o |-> s[i].o, sp |-> s[i].sp, done |-> b]
                   /\ b = IF o.st = "committed" /\ i = n - 1 THEN s[i].done \cup c ELSE s[i].done
      BY <2>2
    <3>2. z[i].done = b BY <3>1
    <3> QED BY <3>1, <3>2
  <2> QED BY <2>3, <2>4, <2>5
<1>3. ASSUME NEW i \in 0..(n - 2) PROVE Level(z, e, i) = Level(s, d, i)
  <2>1. \A j \in 1..i : z[j].done = s[j].done
    <3> SUFFICES ASSUME NEW j \in 1..i PROVE z[j].done = s[j].done OBVIOUS
    <3>1. j \in 1..(n - 1) /\ j # n - 1 BY <1>1
    <3> QED BY <1>2, <3>1
  <2>2. e = d BY <1>1, <1>2
  <2>3. i \in Int OBVIOUS
  <2> QED BY <2>1, <2>2, <2>3, LevelSame
<1>4. Level(z, e, n - 1) = Level(s, d, n - 1) \cup (IF o.st = "committed" THEN c ELSE {})
  <2>1. CASE n = 1
    <3>1. Level(z, e, 0) = e /\ Level(s, d, 0) = d BY LevelNone
    <3>2. n - 1 = 0 BY <2>1
    <3> QED BY <1>2, <2>1, <3>1, <3>2
  <2>2. CASE n # 1
    <3>1. n - 1 \in Nat /\ n - 1 # 0 /\ n - 1 - 1 \in 0..(n - 2) /\ n - 1 \in 1..(n - 1)
      BY <1>1, <2>2
    <3>2. Level(z, e, n - 1) = Level(z, e, n - 1 - 1) \cup z[n - 1].done
      BY <3>1, LevelNext
    <3>3. Level(s, d, n - 1) = Level(s, d, n - 1 - 1) \cup s[n - 1].done
      BY <3>1, LevelNext
    <3>4. z[n - 1].done = s[n - 1].done \cup (IF o.st = "committed" THEN c ELSE {})
      BY <1>2, <3>1
    <3> QED BY <1>3, <3>1, <3>2, <3>3, <3>4
  <2> QED BY <2>1, <2>2
<1>5. Level(z, e, n) = Level(z, e, n - 1) \cup z[n].done BY <1>1, LevelNext
<1> QED BY <1>2, <1>3, <1>4, <1>5

\* A call of the innermost subtransaction keeps the stack a stack...
LEMMA ReshapedStack ==
  ASSUME NEW s, NEW all, IsStack(s, all), s # <<>>, NEW d, NEW z, NEW e, NEW o, NEW c,
         Reshaped(s, d, z, e, o, c), IsTx(o),
         o.st \in {"nascent", "active", "aborted", "committed"},
         o.st = "nascent" => c = {}, NEW more, all \subseteq more, c \subseteq more
  PROVE  IsStack(z, more) /\ z # <<>>
<1> DEFINE n == Len(s)
<1>1. DOMAIN s = 1..n /\ n \in Nat /\ n # 0 /\ n \in DOMAIN s BY StackFacts
<1>2. Len(z) = n /\ DOMAIN z = 1..n BY SeqFacts DEF Reshaped
<1> DEFINE up == o.st = "committed"
           top == IF up THEN {} ELSE c
<1>3. z[n] = [o |-> o, sp |-> s[n].sp, done |-> top] BY DEF Reshaped
<1>4. \A i \in 1..(n - 1) :
        \E b : /\ b \subseteq more
               /\ z[i] = [o |-> s[i].o, sp |-> s[i].sp, done |-> b]
  <2> SUFFICES ASSUME NEW i \in 1..(n - 1)
               PROVE  \E b : /\ b \subseteq more
                             /\ z[i] = [o |-> s[i].o, sp |-> s[i].sp, done |-> b]
    OBVIOUS
  <2>1. i \in DOMAIN s BY <1>1
  <2>2. s[i].done \subseteq more BY <2>1 DEF IsStack
  <2> QED BY <2>2 DEF Reshaped
<1>5. top \subseteq more /\ (o.st \in {"nascent", "committed"} => top = {}) OBVIOUS
<1> HIDE DEF n, top, up
<1>6. \A i \in DOMAIN z : i = n \/ i \in 1..(n - 1) BY <1>1, <1>2
<1>7. ASSUME NEW i \in DOMAIN z
      PROVE  /\ IsSub(z[i]) /\ IsTx(z[i].o) /\ z[i].done \subseteq more /\ z[i].sp = s[i].sp
             /\ z[i].o.st \in {"nascent", "active", "aborted", "committed"}
             /\ z[i].o.st \in {"nascent", "committed"} => z[i].done = {}
             /\ i < Len(z) => z[i].o.st = "active"
  <2>1. CASE i = n BY <1>1, <1>2, <1>3, <1>5, <2>1 DEF IsSub
  <2>2. CASE i \in 1..(n - 1)
    <3>1. PICK b : b \subseteq more /\ z[i] = [o |-> s[i].o, sp |-> s[i].sp, done |-> b]
      BY <1>4, <2>2
    <3>2. i \in DOMAIN s /\ i < Len(s) BY <1>1, <2>2 DEF n
    <3>3. IsTx(s[i].o) /\ s[i].o.st = "active" BY <3>2 DEF IsStack
    <3> QED BY <3>1, <3>3 DEF IsSub
  <2> QED BY <1>6, <2>1, <2>2
<1>8. DOMAIN z = DOMAIN s BY <1>1, <1>2
<1>9. Sorted(z)
  <2>1. \E S : z \in Seq(S) BY DEF Reshaped
  <2>2. \A i \in DOMAIN z : z[i].sp \in Nat BY <1>7, <1>8 DEF IsStack, Sorted
  <2>3. \A i \in DOMAIN z, j \in DOMAIN z : i < j => z[i].sp < z[j].sp
    BY <1>7, <1>8 DEF IsStack, Sorted
  <2> QED BY <2>1, <2>2, <2>3 DEF Sorted
<1>10. IsStack(z, more) BY <1>7, <1>9 DEF IsStack
<1> QED BY <1>1, <1>2, <1>10, StackFacts

\* ... in step with the block.
LEMMA ReshapedAgrees ==
  ASSUME NEW s, NEW all, IsStack(s, all), s # <<>>, NEW d, NEW z, NEW e, NEW o, NEW c,
         Reshaped(s, d, z, e, o, c), NEW n, n = Len(s), NEW u, Agrees(s, d, u),
         NEW more, IsStack(z, more), NEW y, Inner(u, y, s[n].sp, Level(s, d, n - 1), o.st, c)
  PROVE  Agrees(z, e, y)
<1> DEFINE before == Level(s, d, n - 1)
<1>1. DOMAIN s = 1..n /\ n \in Nat /\ n # 0 /\ n \in DOMAIN s BY StackFacts
<1>2. Len(z) = n /\ DOMAIN z = 1..n /\ z # <<>> BY <1>1, StackFacts DEF Reshaped
<1>3. /\ z[n].o = o /\ z[n].sp = s[n].sp
      /\ \A i \in 1..(n - 1) : z[i].o = s[i].o /\ z[i].sp = s[i].sp
  <2>1. \E b : z[n] = [o |-> o, sp |-> s[n].sp, done |-> b] BY DEF Reshaped
  <2>2. \A i \in 1..(n - 1) : \E b : z[i] = [o |-> s[i].o, sp |-> s[i].sp, done |-> b]
    BY DEF Reshaped
  <2>3. z[n].o = o /\ z[n].sp = s[n].sp BY <2>1
  <2>4. ASSUME NEW i \in 1..(n - 1) PROVE z[i].o = s[i].o /\ z[i].sp = s[i].sp
    <3>1. PICK b : z[i] = [o |-> s[i].o, sp |-> s[i].sp, done |-> b] BY <2>2
    <3> QED BY <3>1
  <2> QED BY <2>3, <2>4
<1>4. /\ \A i \in 0..(n - 2) : Level(z, e, i) = Level(s, d, i)
      /\ o.st # "committed" => Level(z, e, n - 1) = before
      /\ Level(z, e, n) = before \cup c
  BY ReshapedLevels
<1>5. Top(z) = IF o.st = "aborted" THEN n - 1 ELSE n BY <1>2, <1>3 DEF Top
<1>6. y.work = Level(z, e, Top(z)) BY <1>4, <1>5 DEF Inner
<1>7. ASSUME NEW i \in 1..(n - 1)
      PROVE  Marked(y, z[i].sp, Level(z, e, i - 1)) /\ z[i].o.st = "active"
  <2>1. i \in DOMAIN s /\ i < n /\ i - 1 \in 0..(n - 2) BY <1>1
  <2>2. s[i].o.st = "active" BY <2>1 DEF IsStack
  <2>3. PICK k \in DOMAIN u.saves :
          u.saves[k].sp = s[i].sp /\ u.saves[k].work = Level(s, d, i - 1)
    BY <2>1, <2>2 DEF Agrees, Marked
  <2>4. s[i].sp < s[n].sp BY <1>1, <2>1 DEF IsStack, Sorted
  <2>5. k \in DOMAIN y.saves /\ y.saves[k] = u.saves[k]
    BY <2>3, <2>4 DEF Inner, Carries
  <2>6. Level(z, e, i - 1) = Level(s, d, i - 1) BY <1>4, <2>1
  <2> QED BY <1>3, <2>2, <2>3, <2>5, <2>6 DEF Marked
<1>8. /\ z[n].o.st = "active" => Marked(y, z[n].sp, Level(z, e, n - 1))
      /\ z[n].o.st = "nascent" => \A k \in DOMAIN y.saves : y.saves[k].sp < z[n].sp
  BY <1>3, <1>4 DEF Inner
<1>9. \A i \in DOMAIN z : i = n \/ i \in 1..(n - 1) BY <1>1, <1>2
<1>10. \A i \in DOMAIN z :
         /\ z[i].o.st = "active" => Marked(y, z[i].sp, Level(z, e, i - 1))
         /\ z[i].o.st = "nascent" => \A k \in DOMAIN y.saves : y.saves[k].sp < z[i].sp
  BY <1>7, <1>8, <1>9
<1> QED BY <1>6, <1>10 DEF Agrees, Inner, Carries

\* The stack without its innermost subtransaction.
LEMMA DroppedStack ==
  ASSUME NEW s, NEW all, IsStack(s, all), s # <<>>
  PROVE  /\ IsStack(Front(s), all) /\ Len(Front(s)) = Len(s) - 1
         /\ \A i \in 1..(Len(s) - 1) : Front(s)[i] = s[i]
         /\ Top(Front(s)) = Len(s) - 1
<1> DEFINE n == Len(s)
           z == Front(s)
<1>1. DOMAIN s = 1..n /\ n \in Nat /\ n # 0 /\ n \in DOMAIN s BY StackFacts
<1>2. z = SubSeq(s, 1, n - 1) BY DEF Front
<1>3. Sorted(s) /\ n - 1 \in 0..n BY <1>1 DEF IsStack
<1>4. /\ Sorted(z) /\ DOMAIN z = 1..(n - 1)
      /\ \A i \in 1..(n - 1) : z[i] = s[i] /\ i \in DOMAIN s
  <2>1. n - 1 \in 0..Len(s) BY <1>3
  <2> HIDE DEF n
  <2>2. PICK m : m = n - 1 OBVIOUS
  <2>3. LET r == SubSeq(s, 1, m)
        IN Sorted(r) /\ DOMAIN r = 1..m /\ \A i \in 1..m : r[i] = s[i] /\ i \in DOMAIN s
    BY <1>3, <2>1, <2>2, SortedCut
  <2> QED BY <1>2, <2>2, <2>3
<1> HIDE DEF z
<1>5. Len(z) = n - 1
  <2>1. DOMAIN z = 1..Len(z) /\ Len(z) \in Nat BY <1>4, SeqFacts DEF Sorted
  <2> HIDE DEF n
  <2> QED BY <1>1, <1>4, <2>1
<1>6. IsStack(z, all)
  <2> SUFFICES ASSUME NEW i \in DOMAIN z
               PROVE  /\ IsSub(z[i]) /\ IsTx(z[i].o) /\ z[i].done \subseteq all
                      /\ z[i].o.st \in {"nascent", "active", "aborted", "committed"}
                      /\ z[i].o.st \in {"nascent", "committed"} => z[i].done = {}
                      /\ i < Len(z) => z[i].o.st = "active"
    BY <1>4 DEF IsStack
  <2>1. z[i] = s[i] /\ i \in DOMAIN s BY <1>4
  <2>2. i < Len(z) => i < Len(s) BY <1>1, <1>4, <1>5
  <2> QED BY <2>1, <2>2 DEF IsStack
<1>7. Top(z) = n - 1
  <2>1. CASE n - 1 = 0
    <3>1. z = <<>> BY <1>5, <1>6, <2>1, StackFacts
    <3> QED BY <1>5, <3>1 DEF Top
  <2>2. CASE n - 1 # 0
    <3>1. n - 1 \in 1..(n - 1) /\ n - 1 < n BY <1>1, <2>2
    <3>2. z[n - 1] = s[n - 1] /\ n - 1 \in DOMAIN s BY <1>4, <3>1
    <3>3. s[n - 1].o.st = "active" BY <3>1, <3>2 DEF IsStack
    <3> QED BY <1>5, <3>2, <3>3 DEF Top
  <2> QED BY <2>1, <2>2
<1> QED BY <1>4, <1>5, <1>6, <1>7 DEF z

\* It is in step with a block in which the work of that subtransaction is undone,
\* or belongs to the one around it already.
LEMMA DroppedAgrees ==
  ASSUME NEW s, NEW all, IsStack(s, all), s # <<>>, NEW d, NEW n, n = Len(s),
         NEW u, Agrees(s, d, u), NEW y, y.tx = "open", Carries(u, y, s[n].sp),
         y.work = Level(s, d, n - 1)
  PROVE  Agrees(Front(s), d, y)
<1> DEFINE z == Front(s)
<1>1. DOMAIN s = 1..n /\ n \in Nat /\ n # 0 /\ n \in DOMAIN s BY StackFacts
<1>2. /\ IsStack(z, all) /\ Len(z) = n - 1 /\ \A i \in 1..(n - 1) : z[i] = s[i]
      /\ Top(z) = n - 1
  BY DroppedStack
<1> HIDE DEF z
<1>3. DOMAIN z = 1..(n - 1) BY <1>2, StackFacts
<1>4. ASSUME NEW i \in 0..(n - 1) PROVE Level(z, d, i) = Level(s, d, i)
  <2>1. i \in Int /\ \A j \in 1..i : z[j].done = s[j].done BY <1>1, <1>2
  <2> QED BY <2>1, LevelSame
<1>5. y.work = Level(z, d, Top(z)) BY <1>1, <1>2, <1>4
<1>6. ASSUME NEW i \in 1..(n - 1)
      PROVE  Marked(y, z[i].sp, Level(z, d, i - 1)) /\ z[i].o.st = "active"
  <2>1. i \in DOMAIN s /\ i < n /\ i - 1 \in 0..(n - 1) BY <1>1
  <2>2. s[i].o.st = "active" BY <2>1 DEF IsStack
  <2>3. PICK k \in DOMAIN u.saves :
          u.saves[k].sp = s[i].sp /\ u.saves[k].work = Level(s, d, i - 1)
    BY <2>1, <2>2 DEF Agrees, Marked
  <2>4. s[i].sp < s[n].sp BY <1>1, <2>1 DEF IsStack, Sorted
  <2>5. k \in DOMAIN y.saves /\ y.saves[k] = u.saves[k] BY <2>3, <2>4 DEF Carries
  <2>6. Level(z, d, i - 1) = Level(s, d, i - 1) BY <1>4, <2>1
  <2> QED BY <1>2, <2>2, <2>3, <2>5, <2>6 DEF Marked
<1>7. \A i \in DOMAIN z :
        /\ z[i].o.st = "active" => Marked(y, z[i].sp, Level(z, d, i - 1))
        /\ z[i].o.st = "nascent" => \A k \in DOMAIN y.saves : y.saves[k].sp < z[i].sp
  BY <1>3, <1>6
<1> QED BY <1>5, <1>7 DEF Agrees, Carries, z

\* A subtransaction that is not active has nothing to undo.
LEMMA InactiveLevel ==
  ASSUME NEW s, NEW all, IsStack(s, all), s # <<>>, NEW d, NEW n, n = Len(s),
         NEW y, Agrees(s, d, y), s[n].o.st # "active"
  PROVE  y.work = Level(s, d, n - 1)
<1>1. n \in Nat /\ n # 0 /\ n \in DOMAIN s BY StackFacts
<1>2. CASE s[n].o.st = "aborted" BY <1>2 DEF Agrees, Top
<1>3. CASE s[n].o.st \in {"nascent", "committed"}
  <2>1. Top(s) = n BY <1>3 DEF Top
  <2>2. s[n].done = {} BY <1>1, <1>3 DEF IsStack
  <2>3. Level(s, d, n) = Level(s, d, n - 1) \cup s[n].done BY <1>1, LevelNext
  <2> QED BY <2>1, <2>2, <2>3 DEF Agrees
<1> QED BY <1>1, <1>2, <1>3 DEF IsStack

\* A new subtransaction, of a new name, in one that is active or in X itself.
LEMMA OpenedStack ==
  ASSUME NEW s, NEW all, IsStack(s, all), \A i \in DOMAIN s : s[i].o.st = "active",
         NEW d, NEW y, NEW o, IsTx(o), o.st = "nascent", NEW m \in Nat,
         \A i \in DOMAIN s : s[i].sp < m
  PROVE  LET z == Append(s, [o |-> o, sp |-> m, done |-> {}])
         IN /\ IsStack(z, all)
            /\ Agrees(s, d, y) /\ (\A k \in DOMAIN y.saves : y.saves[k].sp < m)
                 => Agrees(z, d, y)
<1> DEFINE e == [o |-> o, sp |-> m, done |-> {}]
           n == Len(s)
           z == Append(s, e)
<1>1. DOMAIN s = 1..n /\ n \in Nat BY StackFacts
<1>2. e.o = o /\ e.sp = m /\ e.done = {} /\ IsSub(e) BY DEF IsSub
<1> HIDE DEF e
<1>3. /\ Sorted(z) /\ DOMAIN z = 1..n + 1 /\ z[n + 1] = e
      /\ \A i \in DOMAIN s : z[i] = s[i] /\ i \in DOMAIN z
  BY <1>2, SortedMore DEF IsStack
<1> HIDE DEF z
<1>4. Len(z) = n + 1
  <2>1. DOMAIN z = 1..Len(z) /\ Len(z) \in Nat BY <1>3, SeqFacts DEF Sorted
  <2> HIDE DEF n
  <2> QED BY <1>1, <1>3, <2>1
<1>5. \A i \in DOMAIN z : i = n + 1 \/ i \in DOMAIN s BY <1>1, <1>3
<1>6. IsStack(z, all)
  <2> SUFFICES ASSUME NEW i \in DOMAIN z
               PROVE  /\ IsSub(z[i]) /\ IsTx(z[i].o) /\ z[i].done \subseteq all
                      /\ z[i].o.st \in {"nascent", "active", "aborted", "committed"}
                      /\ z[i].o.st \in {"nascent", "committed"} => z[i].done = {}
                      /\ i < Len(z) => z[i].o.st = "active"
    BY <1>3 DEF IsStack
  <2>1. CASE i = n + 1 BY <1>1, <1>2, <1>3, <1>4, <2>1
  <2>2. CASE i \in DOMAIN s
    <3>1. z[i] = s[i] /\ s[i].o.st = "active" BY <1>3, <2>2
    <3> QED BY <2>2, <3>1 DEF IsStack
  <2> QED BY <1>5, <2>1, <2>2
<1>7. ASSUME Agrees(s, d, y), \A k \in DOMAIN y.saves : y.saves[k].sp < m
      PROVE  Agrees(z, d, y)
  <2>1. Top(s) = n /\ Top(z) = n + 1
    <3>1. n # 0 => s[n].o.st = "active" BY <1>1
    <3>2. s = <<>> <=> n = 0 BY StackFacts
    <3>3. Top(s) = n BY <3>1, <3>2 DEF Top
    <3> QED BY <1>2, <1>3, <1>4, <3>3 DEF Top
  <2>2. ASSUME NEW i \in 0..n PROVE Level(z, d, i) = Level(s, d, i)
    <3>1. i \in Int /\ \A j \in 1..i : z[j].done = s[j].done BY <1>1, <1>3
    <3> QED BY <3>1, LevelSame
  <2>3. Level(z, d, n + 1) = Level(z, d, n)
    <3>1. n + 1 \in Nat /\ n + 1 # 0 /\ n + 1 - 1 = n BY <1>1
    <3>2. Level(z, d, n + 1) = Level(z, d, n + 1 - 1) \cup z[n + 1].done
      BY <3>1, LevelNext
    <3> QED BY <1>2, <1>3, <3>1, <3>2
  <2>4. y.work = Level(z, d, Top(z)) BY <1>1, <1>7, <2>1, <2>2, <2>3 DEF Agrees
  <2>5. ASSUME NEW i \in DOMAIN s PROVE Marked(y, z[i].sp, Level(z, d, i - 1))
    <3>1. Level(z, d, i - 1) = Level(s, d, i - 1) BY <1>1, <2>2
    <3> QED BY <1>3, <1>7, <3>1 DEF Agrees
  <2>6. \A i \in DOMAIN z :
          /\ z[i].o.st = "active" => Marked(y, z[i].sp, Level(z, d, i - 1))
          /\ z[i].o.st = "nascent" => \A k \in DOMAIN y.saves : y.saves[k].sp < z[i].sp
    BY <1>2, <1>3, <1>5, <1>7, <2>5
  <2> QED BY <1>7, <2>4, <2>6 DEF Agrees
<1> QED BY <1>6, <1>7 DEF z, e

\* The names in a sequence have a bound that is one of them, or 0.
LEMMA SortedBound ==
  ASSUME NEW q, Sorted(q)
  PROVE  \E m \in {0} \cup {q[i].sp : i \in DOMAIN q} :
           m \in Nat /\ \A i \in DOMAIN q : q[i].sp <= m
<1> DEFINE n == Len(q)
<1>1. DOMAIN q = 1..n /\ n \in Nat BY SeqFacts DEF Sorted
<1> HIDE DEF n
<1>2. CASE n = 0
  <2>1. DOMAIN q = {} BY <1>1, <1>2
  <2> QED BY <2>1
<1>3. CASE n # 0
  <2>1. n \in DOMAIN q BY <1>1, <1>3
  <2>2. ASSUME NEW i \in DOMAIN q PROVE q[i].sp <= q[n].sp
    <3>1. i = n \/ i < n BY <1>1
    <3>2. q[i].sp \in Nat /\ q[n].sp \in Nat BY <2>1 DEF Sorted
    <3>3. i < n => q[i].sp < q[n].sp BY <2>1 DEF Sorted
    <3> QED BY <3>1, <3>2, <3>3
  <2>3. q[n].sp \in Nat BY <2>1 DEF Sorted
  <2> QED BY <2>1, <2>2, <2>3
<1> QED BY <1>2, <1>3

\* adorn_name(): a number above all that are in use.
LEMMA FreshAbove ==
  ASSUME Sorted(w.saves), Sorted(subs)
  PROVE  /\ FreshName \in Nat
         /\ \A k \in DOMAIN w.saves : w.saves[k].sp < FreshName
         /\ \A i \in DOMAIN subs : subs[i].sp < FreshName
<1> DEFINE A == {w.saves[k].sp : k \in DOMAIN w.saves}
           B == {subs[i].sp : i \in DOMAIN subs}
           N == {0} \cup A \cup B
           m == Max(N)
<1>1. A \subseteq Nat /\ B \subseteq Nat BY DEF Sorted
<1>2. PICK a \in {0} \cup A : a \in Nat /\ \A k \in DOMAIN w.saves : w.saves[k].sp <= a
  BY SortedBound
<1>3. PICK b \in {0} \cup B : b \in Nat /\ \A i \in DOMAIN subs : subs[i].sp <= b
  BY SortedBound
<1>4. (\A k \in A : k <= a) /\ (\A k \in B : k <= b) BY <1>2, <1>3
<1>5. FreshName = 1 + m BY DEF FreshName
<1>6. N \subseteq Nat /\ a \in N /\ b \in N /\ A \subseteq N /\ B \subseteq N
      /\ \A k \in N : k <= a \/ k <= b
  BY <1>1, <1>2, <1>3, <1>4
<1>7. (\A k \in A : k \in N) /\ (\A k \in B : k \in N) BY <1>6
<1>8. /\ \A k \in DOMAIN w.saves : w.saves[k].sp \in N
      /\ \A i \in DOMAIN subs : subs[i].sp \in N
  OBVIOUS
<1> HIDE DEF N, A, B
<1>9. \E x \in N : \A y \in N : x >= y
  <2>1. a \in Nat /\ b \in Nat BY <1>2, <1>3
  <2>2. CASE a >= b BY <1>6, <2>1, <2>2
  <2>3. CASE b >= a BY <1>6, <2>1, <2>3
  <2> QED BY <2>1, <2>2, <2>3
<1>10. m \in N /\ \A y \in N : m >= y BY <1>9 DEF Max
<1> HIDE DEF m
<1>11. \A k \in N : k < 1 + m BY <1>6, <1>10
<1>12. m \in Nat BY <1>6, <1>10
<1>13. FreshName \in Nat BY <1>5, <1>12
<1>14. \A k \in N : k < FreshName BY <1>5, <1>11
<1> QED BY <1>8, <1>13, <1>14

\* A change of one of its fields.
LEMMA SubChange ==
  ASSUME NEW e, IsSub(e), NEW a
  PROVE  /\ [e EXCEPT !.o = a] = [o |-> a, sp |-> e.sp, done |-> e.done]
         /\ [e EXCEPT !.done = a] = [o |-> e.o, sp |-> e.sp, done |-> a]
<1>1. PICK p, q, r : e = [o |-> p, sp |-> q, done |-> r] BY DEF IsSub
<1>2. e.o = p /\ e.sp = q /\ e.done = r BY <1>1
<1>3. [e EXCEPT !.o = a] = [o |-> a, sp |-> q, done |-> r] BY <1>1
<1>4. [e EXCEPT !.done = a] = [o |-> p, sp |-> q, done |-> a] BY <1>1
<1> QED BY <1>2, <1>3, <1>4

\* What a call of the innermost subtransaction leaves is that.
LEMMA SubResultReshapes ==
  ASSUME NEW all, IsStack(subs, all), subs # <<>>, done = [t \in Tx |-> done[t]],
         perf.x \in Tx, NEW r, NEW eff, SubResult(r, eff)
  PROVE  Reshaped(subs, done[perf.x], subs', done'[perf.x], r.x.o,
                  subs[Len(subs)].done \cup (IF r.exc = "ok" THEN eff ELSE {}))
<1> DEFINE n == Len(subs)
           c == subs[n].done \cup (IF r.exc = "ok" THEN eff ELSE {})
           o == r.x.o
           up == o.st = "committed"
           b == IF up THEN {} ELSE c
           s2 == [subs EXCEPT ![n].o = o, ![n].done = b]
<1>1. DOMAIN subs = 1..n /\ n \in Nat /\ n # 0 /\ n \in DOMAIN subs BY StackFacts
<1>2. /\ subs' = IF up /\ n > 1 THEN [s2 EXCEPT ![n - 1].done = @ \cup c] ELSE s2
      /\ done' = [done EXCEPT ![perf.x] = IF up /\ n = 1 THEN done[perf.x] \cup c ELSE done[perf.x]]
  BY DEF SubResult, Depth
<1>3. done'[perf.x] = IF up /\ n = 1 THEN done[perf.x] \cup c ELSE done[perf.x]
  BY <1>2
<1>4. PICK S : subs \in Seq(S) BY DEF IsStack, Sorted
<1> DEFINE f == [o |-> o, sp |-> subs[n].sp, done |-> b]
<1> HIDE DEF n, c, o, b
<1>5. s2 = [subs EXCEPT ![n] = f]
  <2>1. PICK k : k = subs[n] OBVIOUS
  <2>2. k = [o |-> k.o, sp |-> k.sp, done |-> k.done] BY <1>1, <2>1 DEF IsStack, IsSub
  <2>3. s2 = [subs EXCEPT ![n] = [[k EXCEPT !.o = o] EXCEPT !.done = b]] BY <1>1, <2>1
  <2>4. PICK h : h = [o |-> o, sp |-> k.sp, done |-> k.done] OBVIOUS
  <2>5. [k EXCEPT !.o = o] = h BY <2>2, <2>4, SubChange DEF IsSub
  <2>6. IsSub(h) /\ h.o = o /\ h.sp = k.sp BY <2>4 DEF IsSub
  <2>7. [h EXCEPT !.done = b] = [o |-> o, sp |-> k.sp, done |-> b] BY <2>6, SubChange
  <2> QED BY <2>1, <2>3, <2>5, <2>7 DEF f
<1> HIDE DEF f, s2
<1>6. /\ s2 \in Seq(S \cup {f}) /\ Len(s2) = n /\ s2[n] = f
      /\ \A i \in 1..(n - 1) : s2[i] = subs[i]
  <2>1. subs \in Seq(S \cup {f}) BY <1>4, SeqMonotonic
  <2>2. /\ s2 \in Seq(S \cup {f}) /\ Len(s2) = n
        /\ \A i \in 1..n : s2[i] = IF i = n THEN f ELSE subs[i]
    BY <1>1, <1>5, <2>1, ExceptSeq DEF n
  <2> QED BY <1>1, <2>2
<1>7. CASE ~(up /\ n > 1)
  <2>1. subs' = s2 BY <1>2, <1>7
  <2>2. ASSUME NEW i \in 1..(n - 1)
        PROVE  subs'[i] = [o |-> subs[i].o, sp |-> subs[i].sp,
                  done |-> IF up /\ i = n - 1 THEN subs[i].done \cup c ELSE subs[i].done]
    <3>1. ~up /\ i \in DOMAIN subs BY <1>1, <1>7
    <3>2. subs'[i] = [o |-> subs[i].o, sp |-> subs[i].sp, done |-> subs[i].done]
      BY <1>6, <2>1, <3>1 DEF IsStack, IsSub
    <3> QED BY <3>1, <3>2
  <2>3. /\ (\E T : subs' \in Seq(T)) /\ Len(subs') = n
        /\ subs'[n] = [o |-> o, sp |-> subs[n].sp, done |-> IF up THEN {} ELSE c]
    BY <1>6, <2>1 DEF f, b
  <2> QED BY <1>3, <2>2, <2>3 DEF Reshaped, n, c, o
<1>8. CASE up /\ n > 1
  <2> DEFINE g == [o |-> subs[n - 1].o, sp |-> subs[n - 1].sp, done |-> subs[n - 1].done \cup c]
  <2>1. subs' = [s2 EXCEPT ![n - 1].done = @ \cup c] BY <1>2, <1>8
  <2>2. n - 1 \in DOMAIN subs /\ n - 1 \in 1..(n - 1) /\ n - 1 \in 1..n BY <1>1, <1>8
  <2>3. PICK k : k = s2[n - 1] OBVIOUS
  <2>4. k = subs[n - 1] BY <1>6, <2>2, <2>3
  <2>5. k = [o |-> k.o, sp |-> k.sp, done |-> k.done] BY <2>2, <2>4 DEF IsStack, IsSub
  <2>6. subs' = [s2 EXCEPT ![n - 1] = [k EXCEPT !.done = k.done \cup c]]
    BY <2>1, <2>3
  <2>7. [k EXCEPT !.done = k.done \cup c] = [o |-> k.o, sp |-> k.sp, done |-> k.done \cup c]
    BY <2>5, SubChange DEF IsSub
  <2>8. subs' = [s2 EXCEPT ![n - 1] = g] BY <2>4, <2>6, <2>7
  <2> HIDE DEF g
  <2>9. /\ subs' \in Seq(S \cup {f} \cup {g}) /\ Len(subs') = n
        /\ \A i \in 1..n : subs'[i] = IF i = n - 1 THEN g ELSE s2[i]
    <3>1. s2 \in Seq(S \cup {f} \cup {g}) BY <1>6, SeqMonotonic
    <3>2. n - 1 \in 1..Len(s2) BY <1>6, <2>2
    <3>3. PICK j : j = n - 1 OBVIOUS
    <3>4. PICK z : z = subs' OBVIOUS
    <3>5. z = [s2 EXCEPT ![j] = g] BY <2>8, <3>3, <3>4
    <3>6. /\ z \in Seq(S \cup {f} \cup {g}) /\ Len(z) = Len(s2)
          /\ \A i \in 1..Len(s2) : z[i] = IF i = j THEN g ELSE s2[i]
      BY <3>1, <3>2, <3>3, <3>5, ExceptSeq
    <3> QED BY <1>6, <3>3, <3>4, <3>6
  <2>10. /\ (\E T : subs' \in Seq(T)) /\ Len(subs') = n
         /\ subs'[n] = [o |-> o, sp |-> subs[n].sp, done |-> IF up THEN {} ELSE c]
    <3>1. n \in 1..n /\ n # n - 1 BY <1>1
    <3>2. subs'[n] = f BY <1>6, <2>9, <3>1
    <3> QED BY <2>9, <3>2 DEF f, b
  <2>11. ASSUME NEW i \in 1..(n - 1)
         PROVE  subs'[i] = [o |-> subs[i].o, sp |-> subs[i].sp,
                  done |-> IF up /\ i = n - 1 THEN subs[i].done \cup c ELSE subs[i].done]
    <3>1. i \in 1..n /\ i \in DOMAIN subs BY <1>1
    <3>2. CASE i = n - 1
      <4>1. subs'[i] = g BY <2>9, <3>1, <3>2
      <4> QED BY <1>8, <3>2, <4>1 DEF g
    <3>3. CASE i # n - 1
      <4>1. subs'[i] = subs[i] BY <1>6, <2>9, <3>1, <3>3
      <4>2. subs[i] = [o |-> subs[i].o, sp |-> subs[i].sp, done |-> subs[i].done]
        BY <3>1 DEF IsStack, IsSub
      <4> QED BY <3>3, <4>1, <4>2
    <3> QED BY <3>2, <3>3
  <2> QED BY <1>3, <2>10, <2>11 DEF Reshaped, n, c, o
<1> QED BY <1>7, <1>8

----------------------------------------------------------------------------
(* The invariant of the subtransactions.                                   *)

\* What counts as done was tried; an attempt that has not been made tried nothing.
Counted ==
  /\ done = [t \in Tx |-> done[t]]
  /\ \A t \in Tx : done[t] \subseteq tried[t] /\ (obj[t].st = "absent" => tried[t] = {})

\* In the body, as long as the session lives, the block is in step with the stack.
InStep ==
  perf.pc \in {"body", "handling"} /\ w.alive => Agrees(subs, done[perf.x], w)

SInv == Counted /\ IsStack(subs, tried[perf.x]) /\ InStep /\ NestedExact

\* A statement of t more is tried.
LEMMA TriedMore ==
  ASSUME Objects, NEW t \in Tx, NEW eff, tried' = [tried EXCEPT ![t] = tried[t] \cup eff]
  PROVE  tried'[t] = tried[t] \cup eff /\ \A u \in Tx \ {t} : tried'[u] = tried[u]
BY DEF Objects

\* As long as no outcome is decided, no commit() has returned.
LEMMA UndecidedExact ==
  ASSUME NoneDecided
  PROVE  NestedExact
BY DEF NoneDecided, Decided, NestedExact

\* What a call of the innermost subtransaction leaves, with c done in it.
Leaves(r, c) ==
  /\ IsTx(r.x.o) /\ r.x.o.st \in {"nascent", "active", "aborted", "committed"}
  /\ r.x.o.st = "nascent" => c = {}
  /\ r.x.w.alive =>
       Inner(w, r.x.w, Name, Level(subs, done[perf.x], Depth - 1), r.x.o.st, c)

\* The calls of the innermost subtransaction keep the block in step.
LEMMA SubCallExact ==
  ASSUME NInv, SInv, perf.pc = "body", subs # <<>>, NEW eff, NEW r,
         SubGoes(This2, r, tried[perf.x] \cup eff), SubResult(r, eff), NEW h,
         Flow(r.exc, h),
         Leaves(r, subs[Depth].done \cup (IF r.exc = "ok" THEN eff ELSE {}))
  PROVE  SInv'
<1> DEFINE c == subs[Depth].done \cup (IF r.exc = "ok" THEN eff ELSE {})
<1>1. PICK t \in Tx : t = perf.x BY DEF NInv, Stage, Block
<1>2. /\ Objects /\ Stage /\ NoneDecided /\ obj[t].st = "active"
      /\ IsStack(subs, tried[t]) /\ Counted
  BY <1>1 DEF NInv, Stage, SInv
<1>3. /\ World(r.x.w) /\ obj' = obj /\ tried' = [tried EXCEPT ![t] = tried[t] \cup eff]
      /\ \E m : done' = [done EXCEPT ![t] = m]
  BY <1>1 DEF SubResult
<1>4. tried'[t] = tried[t] \cup eff /\ \A u \in Tx \ {t} : tried'[u] = tried[u]
  BY <1>2, <1>3, TriedMore
<1>5. perf'.x = t BY <1>1, <1>2, FlowOnward, OnwardFacts
<1>6. Reshaped(subs, done[t], subs', done'[t], r.x.o, c)
  <2>1. Reshaped(subs, done[perf.x], subs', done'[perf.x], r.x.o,
                 subs[Len(subs)].done \cup (IF r.exc = "ok" THEN eff ELSE {}))
    BY <1>1, <1>2, SubResultReshapes DEF Counted
  <2> QED BY <1>1, <2>1 DEF Depth
<1>7. DOMAIN subs = 1..Depth /\ Depth \in Nat /\ Depth # 0 /\ Depth \in DOMAIN subs
  BY <1>2, StackFacts DEF Depth
<1>8. subs[Depth].done \subseteq tried[t] /\ c \subseteq tried'[t]
  BY <1>2, <1>4, <1>7 DEF IsStack
<1>9. PICK z, e, more, y, k :
        z = subs' /\ e = done'[t] /\ more = tried'[t] /\ y = w' /\ k = c
  OBVIOUS
<1> HIDE DEF c
<1>10. IsStack(z, more)
  <2>1. /\ Reshaped(subs, done[t], z, e, r.x.o, k) /\ k \subseteq more
        /\ tried[t] \subseteq more
    BY <1>4, <1>6, <1>8, <1>9
  <2>2. /\ IsTx(r.x.o) /\ r.x.o.st \in {"nascent", "active", "aborted", "committed"}
        /\ r.x.o.st = "nascent" => k = {}
    BY <1>9 DEF Leaves, c
  <2>3. PICK s, all, d, o : s = subs /\ all = tried[t] /\ d = done[t] /\ o = r.x.o
    OBVIOUS
  <2>4. /\ IsStack(s, all) /\ s # <<>> /\ Reshaped(s, d, z, e, o, k)
        /\ all \subseteq more /\ k \subseteq more
    BY <1>2, <2>1, <2>3
  <2>5. /\ IsTx(o) /\ o.st \in {"nascent", "active", "aborted", "committed"}
        /\ (o.st = "nascent" => k = {})
    BY <2>2, <2>3
  <2> QED BY <2>4, <2>5, ReshapedStack
<1>11. ASSUME perf'.pc \in {"body", "handling"}, y.alive PROVE Agrees(z, e, y)
  <2> DEFINE v == r.x.w
  <2>1. Goes(w, v, tried[perf.x] \cup eff) BY DEF SubGoes, This2
  <2>2. y = Settled(v) BY <1>3, <1>9 DEF World, Settled
  <2>3. y.alive = v.alive /\ y.tx = v.tx /\ (y.tx # "idle" => y = v)
    BY <2>1, <2>2, SettledFacts DEF Goes
  <2>4. v.alive /\ w.alive BY <1>11, <2>1, <2>3 DEF Goes
  <2>5. Agrees(subs, done[t], w) BY <1>1, <2>4 DEF SInv, InStep
  <2>6. Inner(w, v, subs[Depth].sp, Level(subs, done[t], Depth - 1), r.x.o.st, k)
    BY <1>1, <1>9, <2>4 DEF Leaves, c, Name
  <2>7. Reshaped(subs, done[t], z, e, r.x.o, k) BY <1>6, <1>9
  <2>8. Agrees(z, e, v) BY <1>2, <1>10, <2>5, <2>6, <2>7, ReshapedAgrees DEF Depth
  <2> QED BY <2>3, <2>8 DEF Agrees
<1>12. Counted'
  <2>1. /\ done' = [u \in Tx |-> done'[u]]
        /\ \A u \in Tx \ {t} : done'[u] = done[u]
    BY <1>2, <1>3 DEF Counted
  <2>2. done'[t] \subseteq done[t] \cup c BY <1>6 DEF Reshaped
  <2>3. done[t] \subseteq tried[t] BY <1>2 DEF Counted
  <2>4. done'[t] \subseteq tried'[t] BY <1>4, <1>8, <2>2, <2>3
  <2>5. \A u \in Tx : obj'[u].st = "absent" => tried'[u] = {}
    BY <1>2, <1>3, <1>4 DEF Counted
  <2>6. \A u \in Tx : done'[u] \subseteq tried'[u] BY <1>2, <1>4, <2>1, <2>4 DEF Counted
  <2> QED BY <2>1, <2>5, <2>6 DEF Counted
<1>13. NestedExact'
  <2>1. \A u \in Tx : obj'[u].st # "committed" BY <1>2, <1>3 DEF NoneDecided, Decided
  <2> QED BY <2>1 DEF NestedExact
<1>14. IsStack(subs', tried'[perf'.x]) BY <1>5, <1>9, <1>10
<1>15. InStep' BY <1>5, <1>9, <1>11 DEF InStep
<1> QED BY <1>12, <1>13, <1>14, <1>15 DEF SInv

\* What the innermost subtransaction's calls start from.
LEMMA SubStart ==
  ASSUME NInv, SInv, subs # <<>>, NEW s, tried[perf.x] \subseteq s, w.handle # "none"
  PROVE  /\ Called(This2, s) /\ This2.w = w /\ This2.o = subs[Depth].o /\ Name \in Nat
         /\ perf.pc \in {"body", "handling"} /\ w.alive
              /\ subs[Depth].o.st \in {"nascent", "active"} =>
              Inner(w, w, Name, Level(subs, done[perf.x], Depth - 1), subs[Depth].o.st,
                    subs[Depth].done)
         /\ subs[Depth].o.st = "nascent" => subs[Depth].done = {}
<1>1. IsStack(subs, tried[perf.x]) BY DEF SInv
<1>2. DOMAIN subs = 1..Depth /\ Depth \in DOMAIN subs BY <1>1, StackFacts DEF Depth
<1>3. IsX(This2) /\ This2.w = w /\ This2.o = subs[Depth].o BY DEF This2, IsX
<1>4. /\ IsTx(subs[Depth].o) /\ subs[Depth].sp \in Nat
      /\ subs[Depth].o.st = "nascent" => subs[Depth].done = {}
  BY <1>1, <1>2 DEF IsStack, Sorted
<1>5. Sane(w) /\ w.inhibit /\ Holds(w, tried[perf.x]) BY DEF NInv, Block
<1>6. Holds(w, s) BY <1>5, HoldsMore
<1>7. ASSUME perf.pc \in {"body", "handling"}, w.alive,
             subs[Depth].o.st \in {"nascent", "active"}
      PROVE  Inner(w, w, Name, Level(subs, done[perf.x], Depth - 1), subs[Depth].o.st,
                   subs[Depth].done)
  <2>1. Agrees(subs, done[perf.x], w) BY <1>7 DEF SInv, InStep
  <2> QED BY <1>1, <1>7, <2>1, AgreesInner DEF Name, Depth
<1> QED BY <1>3, <1>4, <1>5, <1>6, <1>7 DEF Called, Name

\* A statement in the innermost subtransaction.
LEMMA SubExecKeeps ==
  ASSUME Rejects = {}, NInv, SInv, SubExec
  PROVE  SInv'
<1>1. PICK e : e = {Statement2(perf.x)} OBVIOUS
<1>2. PICK r : r \in sub_exec(This2, Name, e) /\ SubResult(r, e) /\ Flow(r.exc, TRUE)
  BY <1>1 DEF SubExec
<1>3. /\ perf.pc = "body" /\ subs # <<>> /\ subs[Depth].o.st \in {"nascent", "active"}
  BY DEF SubExec, SubUsable, InBody
<1>4. w.handle # "none" /\ (w.alive => w.tx # "idle") BY <1>3 DEF NInv, Stage
<1>5. PICK s, x, sp, before, d :
        /\ s = tried[perf.x] \cup e /\ x = This2 /\ sp = Name
        /\ before = Level(subs, done[perf.x], Depth - 1) /\ d = subs[Depth].done
  OBVIOUS
<1>6. e \subseteq s /\ tried[perf.x] \subseteq s BY <1>5
<1>7. /\ Called(x, s) /\ x.w = w /\ x.o = subs[Depth].o /\ sp \in Nat
      /\ w.alive => Inner(w, w, sp, before, subs[Depth].o.st, d)
      /\ subs[Depth].o.st = "nascent" => d = {}
  BY <1>3, <1>4, <1>5, <1>6, SubStart
<1>8. SubGoes(x, r, s)
  <2>1. IsX(x) /\ Sane(x.w) /\ x.w.inhibit /\ Holds(x.w, s) BY <1>7 DEF Called
  <2> QED BY <1>2, <1>4, <1>5, <1>6, <1>7, <2>1, SubExecFacts
<1>9. Executed(w, x, sp, before, d, e, r)
  <2>1. /\ x.o.st \in {"nascent", "active"} /\ r \in sub_exec(x, sp, e)
        /\ x.w.alive => Inner(w, x.w, sp, before, x.o.st, d)
    BY <1>2, <1>3, <1>5, <1>7
  <2> QED BY <1>6, <1>7, <2>1, SubExecExact
<1>10. Leaves(r, subs[Depth].done \cup (IF r.exc = "ok" THEN e ELSE {}))
  BY <1>5, <1>7, <1>9 DEF Leaves, Executed
<1> QED BY <1>2, <1>3, <1>5, <1>8, <1>10, SubCallExact

\* commit() of the innermost subtransaction.
LEMMA SubCommitKeeps ==
  ASSUME Rejects = {}, NInv, SInv, SubCommit
  PROVE  SInv'
<1>1. PICK e : e = {} OBVIOUS
<1>2. PICK r : r \in sub_commit(This2, Name) /\ SubResult(r, e) /\ Flow(r.exc, TRUE)
  BY <1>1 DEF SubCommit
<1>3. /\ perf.pc = "body" /\ subs # <<>> /\ subs[Depth].o.st \in {"nascent", "active"}
  BY DEF SubCommit, SubUsable, InBody
<1>4. w.handle # "none" BY <1>3 DEF NInv, Stage
<1>5. PICK s, x, sp, before, d :
        /\ s = tried[perf.x] \cup e /\ x = This2 /\ sp = Name
        /\ before = Level(subs, done[perf.x], Depth - 1) /\ d = subs[Depth].done
  OBVIOUS
<1>6. tried[perf.x] \subseteq s BY <1>5
<1>7. /\ Called(x, s) /\ x.w = w /\ x.o = subs[Depth].o /\ sp \in Nat
      /\ w.alive => Inner(w, w, sp, before, subs[Depth].o.st, d)
      /\ subs[Depth].o.st = "nascent" => d = {}
  BY <1>3, <1>4, <1>5, <1>6, SubStart
<1>8. SubGoes(x, r, s)
  <2>1. IsX(x) /\ Sane(x.w) /\ x.w.inhibit /\ Holds(x.w, s) BY <1>7 DEF Called
  <2> QED BY <1>2, <1>5, <2>1, SubCommitFacts
<1>9. /\ IsTx(r.x.o) /\ r.x.o.st \in {"nascent", "active", "aborted", "committed"}
      /\ r.x.o.st = "nascent" => x.o.st = "nascent"
      /\ r.x.w.alive => Inner(w, r.x.w, sp, before, r.x.o.st, d)
  <2>1. /\ x.o.st \in {"nascent", "active"} /\ r \in sub_commit(x, sp)
        /\ x.w.alive => Inner(w, x.w, sp, before, x.o.st, d)
    BY <1>2, <1>3, <1>5, <1>7
  <2> QED BY <1>7, <2>1, SubCommitExact
<1>10. Leaves(r, subs[Depth].done \cup (IF r.exc = "ok" THEN e ELSE {}))
  <2>1. subs[Depth].done \cup (IF r.exc = "ok" THEN e ELSE {}) = d BY <1>1, <1>5
  <2> QED BY <1>5, <1>7, <1>9, <2>1 DEF Leaves
<1> QED BY <1>2, <1>3, <1>5, <1>8, <1>10, SubCallExact

\* abort() of one that is nascent: nothing was begun, nothing is undone.
LEMMA SubAbortNascent ==
  ASSUME NEW s, NEW x, Called(x, s), x.o.st = "nascent", NEW u, NEW sp, NEW before, NEW d,
         x.w.alive => Inner(u, x.w, sp, before, "nascent", d), NEW r \in sub_abort(x, sp)
  PROVE  /\ IsTx(r.x.o) /\ r.x.o.st = "aborted"
         /\ r.x.w.alive => x.w.alive /\ Inner(u, r.x.w, sp, before, "aborted", d)
<1>1. r = Ret(SetStatus(x, "aborted"), "ok") BY DEF sub_abort
<1>2. r.x = SetStatus(x, "aborted") BY <1>1 DEF Ret
<1>3. IsTx(r.x.o) /\ r.x.o.st = "aborted" /\ r.x.w = x.w
  BY <1>2, SetStatusFacts DEF Called, Status
<1> QED BY <1>3 DEF Inner

\* abort() of the innermost subtransaction.
LEMMA SubAbortKeeps ==
  ASSUME Rejects = {}, NInv, SInv, SubAbort
  PROVE  SInv'
<1>1. PICK e : e = {} OBVIOUS
<1>2. PICK r : r \in sub_abort(This2, Name) /\ SubResult(r, e) /\ Flow(r.exc, TRUE)
  BY <1>1 DEF SubAbort
<1>3. /\ perf.pc = "body" /\ subs # <<>> /\ subs[Depth].o.st \in {"nascent", "active"}
  BY DEF SubAbort, SubUsable, InBody
<1>4. w.handle # "none" BY <1>3 DEF NInv, Stage
<1>5. PICK s, x, sp, before, d :
        /\ s = tried[perf.x] \cup e /\ x = This2 /\ sp = Name
        /\ before = Level(subs, done[perf.x], Depth - 1) /\ d = subs[Depth].done
  OBVIOUS
<1>6. tried[perf.x] \subseteq s BY <1>5
<1>7. /\ Called(x, s) /\ x.w = w /\ x.o = subs[Depth].o /\ sp \in Nat
      /\ w.alive => Inner(w, w, sp, before, subs[Depth].o.st, d)
      /\ subs[Depth].o.st = "nascent" => d = {}
  BY <1>3, <1>4, <1>5, <1>6, SubStart
<1>8. SubGoes(x, r, s)
  <2>1. IsX(x) /\ Sane(x.w) /\ x.w.inhibit /\ Holds(x.w, s) BY <1>7 DEF Called
  <2> QED BY <1>2, <1>5, <2>1, SubAbortFacts
<1>9. /\ IsTx(r.x.o) /\ r.x.o.st = "aborted"
      /\ r.x.w.alive => x.w.alive /\ Inner(w, r.x.w, sp, before, "aborted", d)
  <2>1. /\ x.o.st \in {"nascent", "active"} /\ r \in sub_abort(x, sp)
        /\ x.w.alive => Inner(w, x.w, sp, before, x.o.st, d)
    BY <1>2, <1>3, <1>5, <1>7
  <2>2. CASE x.o.st = "nascent" BY <1>7, <2>1, <2>2, SubAbortNascent
  <2>3. CASE x.o.st = "active"
    <3>1. x.w.alive => x.w.tx # "idle" /\ Carries(w, x.w, sp) /\ Marked(x.w, sp, before)
      BY <2>1, <2>3 DEF Inner
    <3> QED BY <1>7, <2>1, <2>3, <3>1, SubAbortExact
  <2> QED BY <2>1, <2>2, <2>3
<1>10. Leaves(r, subs[Depth].done \cup (IF r.exc = "ok" THEN e ELSE {}))
  <2>1. subs[Depth].done \cup (IF r.exc = "ok" THEN e ELSE {}) = d BY <1>1, <1>5
  <2> QED BY <1>5, <1>7, <1>9, <2>1 DEF Leaves
<1> QED BY <1>2, <1>3, <1>5, <1>8, <1>10, SubCallExact

\* The innermost subtransaction's scope ends: one that is active is rolled back.
LEMMA SubDestroyKeeps ==
  ASSUME Rejects = {}, NInv, SInv, SubDestroy
  PROVE  SInv'
<1>1. PICK r : r \in sub_End(This2, Name) /\ World(r.x.w) BY DEF SubDestroy
<1>2. /\ subs # <<>> /\ obj' = obj /\ tried' = tried /\ done' = done /\ subs' = Front(subs)
      /\ perf' = [perf EXCEPT !.pc = IF perf.pc = "handling" THEN "body" ELSE perf.pc]
  BY DEF SubDestroy
<1>3. /\ perf'.x = perf.x
      /\ perf'.pc \in {"body", "handling"} => perf.pc \in {"body", "handling"}
  BY <1>2 DEF NInv, Stage
<1>4. /\ Sane(w) /\ w.inhibit /\ Holds(w, tried[perf.x]) /\ IsStack(subs, tried[perf.x])
  BY <1>2 DEF NInv, Block, SInv
<1>5. IsX(This2) /\ This2.w = w /\ This2.o = subs[Depth].o BY DEF This2, IsX
<1> DEFINE v == r.x.w
<1>6. Goes(w, v, tried[perf.x]) BY <1>1, <1>4, <1>5, SubAbortFacts DEF SubGoes
<1>7. w' = Settled(v) BY <1>1 DEF World, Settled
<1>8. /\ w'.alive = v.alive /\ w'.tx = v.tx /\ w'.db = w.db /\ (w'.tx # "idle" => w' = v)
  BY <1>6, <1>7, SettledFacts DEF Goes
<1>9. IsStack(subs', tried'[perf'.x]) BY <1>2, <1>3, <1>4, DroppedStack
<1>10. Counted' /\ NestedExact'
  <2>1. Counted' BY <1>2 DEF SInv, Counted
  <2> QED BY <1>2, <1>8, <2>1 DEF SInv, NestedExact
<1>11. ASSUME perf'.pc \in {"body", "handling"}, w'.alive
       PROVE  Agrees(subs', done'[perf'.x], w')
  <2>1. perf.pc \in {"body", "handling"} /\ v.alive /\ w.alive
    BY <1>3, <1>6, <1>8, <1>11 DEF Goes
  <2>2. w.handle # "none" BY <2>1 DEF NInv, Stage
  <2> DEFINE before == Level(subs, done[perf.x], Depth - 1)
  <2>3. Agrees(subs, done[perf.x], w) BY <2>1 DEF SInv, InStep
  <2>4. v.tx = "open" /\ Carries(w, v, Name) /\ v.work = before
    <3>1. CASE subs[Depth].o.st = "active"
      <4>1. r \in sub_abort(This2, Name) BY <1>1, <1>5, <3>1 DEF sub_End
      <4>2. PICK s, x, sp, d :
              s = tried[perf.x] /\ x = This2 /\ sp = Name /\ d = subs[Depth].done
        OBVIOUS
      <4>3. /\ Called(x, s) /\ x.w = w /\ x.o = subs[Depth].o /\ sp \in Nat
            /\ Inner(w, w, sp, before, "active", d)
        BY <1>2, <2>1, <2>2, <3>1, <4>2, SubStart
      <4> HIDE DEF before
      <4>4. x.w.alive => x.w.tx # "idle" /\ Carries(w, x.w, sp) /\ Marked(x.w, sp, before)
        BY <4>3 DEF Inner
      <4>5. /\ IsTx(r.x.o) /\ r.x.o.st = "aborted"
            /\ r.x.w.alive => x.w.alive /\ Inner(w, r.x.w, sp, before, "aborted", d)
        BY <3>1, <4>1, <4>2, <4>3, <4>4, SubAbortExact, ZenonT(60)
      <4> QED BY <2>1, <4>2, <4>5 DEF Inner
    <3>2. CASE subs[Depth].o.st # "active"
      <4>1. r = Ret(This2, "ok") BY <1>1, <1>5, <3>2 DEF sub_End
      <4>2. v = w BY <1>5, <4>1 DEF Ret
      <4>3. w.work = before BY <1>2, <1>4, <2>3, <3>2, InactiveLevel DEF Depth
      <4> QED BY <2>3, <4>2, <4>3 DEF Agrees, Carries
    <3> QED BY <3>1, <3>2
  <2>5. Agrees(Front(subs), done[perf.x], v)
    BY <1>2, <1>4, <2>3, <2>4, DroppedAgrees DEF Depth, Name
  <2> QED BY <1>2, <1>3, <1>8, <2>4, <2>5
<1> QED BY <1>9, <1>10, <1>11 DEF SInv, InStep

\* A subtransaction is opened in one that is active, under a name of its own.
LEMMA SubOpenKeeps ==
  ASSUME Liberties = {}, NInv, SInv, SubOpen
  PROVE  SInv'
<1>1. /\ perf.pc = "body" /\ w' = w /\ obj' = obj /\ tried' = tried /\ done' = done
      /\ perf' = [perf EXCEPT !.opened = perf.opened + 1]
      /\ Depth > 0 => subs[Depth].o.st = "active"
      /\ subs' = Append(subs, [o |-> [Absent EXCEPT !.live = TRUE, !.st = "nascent"],
                               sp |-> FreshName, done |-> {}])
  BY DEF SubOpen, InBody
<1>2. perf'.pc = perf.pc /\ perf'.x = perf.x BY <1>1 DEF NInv, Stage
<1>3. IsStack(subs, tried[perf.x]) /\ Sorted(subs) BY DEF SInv, IsStack
<1>4. \A i \in DOMAIN subs : subs[i].o.st = "active"
  <2>1. DOMAIN subs = 1..Depth /\ Depth \in Nat BY <1>3, StackFacts DEF Depth
  <2> SUFFICES ASSUME NEW i \in DOMAIN subs PROVE subs[i].o.st = "active" OBVIOUS
  <2>2. i = Depth \/ i < Depth BY <2>1
  <2>3. i < Depth => subs[i].o.st = "active" BY <1>3 DEF IsStack, Depth
  <2>4. Depth > 0 BY <2>1
  <2> QED BY <1>1, <2>2, <2>3, <2>4
<1>5. PICK o : o = [Absent EXCEPT !.live = TRUE, !.st = "nascent"] OBVIOUS
<1>6. IsTx(o) /\ o.st = "nascent" BY <1>5 DEF IsTx, Absent, ObjType, Status
<1>7. Sorted(w.saves)
  <2>1. (\E S : w.saves \in Seq(S)) BY <1>1 DEF NInv, Stage, Block, Holds
  <2>2. CASE w.alive BY <1>1, <2>2 DEF SInv, InStep, Agrees
  <2>3. CASE ~w.alive
    <3>1. w.saves = <<>> BY <2>3 DEF NInv, Block, Sane
    <3>2. DOMAIN <<>> = {} /\ <<>> \in Seq({}) OBVIOUS
    <3> QED BY <3>1, <3>2 DEF Sorted
  <2> QED BY <2>2, <2>3
<1>8. PICK m : m = FreshName OBVIOUS
<1>9. /\ m \in Nat /\ \A k \in DOMAIN w.saves : w.saves[k].sp < m
      /\ \A i \in DOMAIN subs : subs[i].sp < m
  BY <1>3, <1>7, <1>8, FreshAbove
<1>10. subs' = Append(subs, [o |-> o, sp |-> m, done |-> {}]) BY <1>1, <1>5, <1>8
<1>11. PICK s, all, d, y, z :
         /\ s = subs /\ all = tried[perf.x] /\ d = done[perf.x] /\ y = w
         /\ z = Append(s, [o |-> o, sp |-> m, done |-> {}])
  OBVIOUS
<1>12. /\ IsStack(z, all)
       /\ Agrees(s, d, y) /\ (\A k \in DOMAIN y.saves : y.saves[k].sp < m)
            => Agrees(z, d, y)
  <2>1. /\ IsStack(s, all) /\ \A i \in DOMAIN s : s[i].o.st = "active"
        /\ \A i \in DOMAIN s : s[i].sp < m
    BY <1>3, <1>4, <1>9, <1>11
  <2>2. LET q == Append(s, [o |-> o, sp |-> m, done |-> {}])
        IN /\ IsStack(q, all)
           /\ Agrees(s, d, y) /\ (\A k \in DOMAIN y.saves : y.saves[k].sp < m)
                => Agrees(q, d, y)
    BY <1>6, <1>9, <2>1, OpenedStack
  <2> QED BY <1>11, <2>2
<1>13. IsStack(subs', tried'[perf'.x]) BY <1>1, <1>2, <1>10, <1>11, <1>12
<1>14. InStep'
  <2>1. w.alive => Agrees(s, d, y) BY <1>1, <1>11 DEF SInv, InStep
  <2> QED BY <1>1, <1>2, <1>9, <1>10, <1>11, <1>12, <2>1 DEF InStep
<1>15. Counted' /\ NestedExact' BY <1>1 DEF SInv, Counted, NestedExact
<1> QED BY <1>13, <1>14, <1>15 DEF SInv

\* No subtransaction: the block holds what X did.
LEMMA EmptyStack ==
  ASSUME NEW all, NEW d, NEW y
  PROVE  /\ IsStack(<<>>, all)
         /\ Agrees(<<>>, d, y) <=> y.tx = "open" /\ Sorted(y.saves) /\ y.work = d
<1>1. <<>> \in Seq({}) /\ DOMAIN <<>> = {} /\ Len(<<>>) = 0 OBVIOUS
<1>2. IsStack(<<>>, all) BY <1>1 DEF IsStack, Sorted
<1>3. Top(<<>>) = 0 BY <1>1 DEF Top
<1>4. Level(<<>>, d, 0) = d BY LevelNone
<1> QED BY <1>1, <1>2, <1>3, <1>4 DEF Agrees

\* exec() of X: if it succeeds, the effect is in the block.
LEMMA XExecExact ==
  ASSUME NEW x, IsX(x), Sane(x.w), IsTx(x.o), x.o.st = "active",
         x.w.handle # "none", x.w.alive => x.w.tx = "open", NEW eff,
         NEW r \in exec(x, "transaction", "SQL", eff), r.exc = "ok"
  PROVE  x.w.alive /\ Left(r.x.w, x.w.work \cup eff, x.w.saves)
<1>1. PICK q \in DirectExec(x, "SQL", eff) :
        r \in IF q.exc = "ok" THEN {q} ELSE {Ret(a.x, q.exc) : a \in abort(q.x, "transaction")}
  <2>1. CheckPendingError(x).exc = "ok" BY DEF CheckPendingError, Ret, IsTx
  <2>2. r \in do_exec(x, "transaction", "SQL", eff) BY <2>1 DEF exec, IsTx
  <2> QED BY <2>2 DEF do_exec
<1>2. PICK o \in Exec(x.w, "SQL", eff) : q.x.w = o.w /\ q.exc = o.exc
  BY DirectFacts DEF IsTx
<1>3. q.exc = "ok" /\ r = q BY <1>1 DEF Ret
<1>4. \/ o.exc # "ok" /\ ~o.w.alive
      \/ x.w.alive /\ o.exc = "ok" /\ Left(o.w, x.w.work \cup eff, x.w.saves)
      \/ x.w.alive /\ o.exc # "ok" /\ o.w.tx = "failed" /\ o.w.saves = x.w.saves
  BY SqlExact
<1> QED BY <1>2, <1>3, <1>4

\* A statement in X itself.
LEMMA BodyExecKeeps ==
  ASSUME NInv, SInv, BodyExec
  PROVE  SInv'
<1>1. /\ perf.pc = "body" /\ subs = <<>> /\ Objects /\ Stage /\ Block /\ Counted
      /\ NoneDecided
  BY DEF NInv, BodyExec, InBody, SInv, Stage
<1>2. PICK t \in Tx : t = perf.x BY <1>1 DEF Stage, Block
<1> DEFINE x == This(t)
<1>3. PICK e : e = {Statement2(t)} OBVIOUS
<1>4. PICK r : /\ r \in exec(x, "transaction", "SQL", e) /\ XResult(r, e)
               /\ Flow(r.exc, FALSE)
  BY <1>2, <1>3 DEF BodyExec
<1>5. IsX(x) /\ x.w = w /\ x.o = obj[t] BY DEF This, IsX
<1>6. /\ Sane(x.w) /\ IsTx(x.o) /\ x.o.st = "active" /\ x.w.handle # "none"
      /\ (x.w.alive => x.w.tx # "idle") /\ Holds(x.w, tried[t])
  BY <1>1, <1>2, <1>5 DEF Stage, Block, Objects
<1>7. x.w.alive => x.w.tx = "open" /\ Sorted(w.saves) /\ w.work = done[t]
  BY <1>1, <1>2, <1>5, EmptyStack DEF SInv, InStep
<1>8. PICK s : s = tried[t] \cup e OBVIOUS
<1>9. Holds(x.w, s) /\ e \subseteq s BY <1>6, <1>8, HoldsMore
<1> HIDE DEF x
<1>10. /\ r.exc = "ok" => r.x.o = x.o /\ Goes(x.w, r.x.w, s) /\ r.x.w.handle # "none"
       /\ r.exc # "ok" => Ended(x, r)
  BY <1>4, <1>5, <1>6, <1>9, XExecFacts
<1>11. /\ World(r.x.w) /\ obj' = [obj EXCEPT ![t] = r.x.o] /\ subs' = <<>>
       /\ tried' = [tried EXCEPT ![t] = tried[t] \cup e]
       /\ done' = [done EXCEPT ![t] = IF r.exc = "ok" THEN done[t] \cup e ELSE done[t]]
  BY <1>1, <1>2, <1>4 DEF XResult
<1>12. tried'[t] = tried[t] \cup e /\ \A u \in Tx \ {t} : tried'[u] = tried[u]
  BY <1>1, <1>11, TriedMore
<1>13. /\ done' = [u \in Tx |-> done'[u]] /\ \A u \in Tx \ {t} : done'[u] = done[u]
       /\ done'[t] = IF r.exc = "ok" THEN done[t] \cup e ELSE done[t]
  BY <1>1, <1>11 DEF Counted
<1>14. /\ obj'[t] = r.x.o /\ \A u \in Tx \ {t} : obj'[u] = obj[u] BY <1>1, <1>11 DEF Objects
<1>15. r.x.o.st \in {"active", "aborted"} BY <1>6, <1>10 DEF Ended
<1>16. perf'.x = t BY <1>1, <1>2, <1>4, FlowOnward, OnwardFacts
<1>17. Counted'
  <2>1. \A u \in Tx : obj'[u].st = "absent" => tried'[u] = {}
    BY <1>1, <1>12, <1>14, <1>15 DEF Counted
  <2>2. \A u \in Tx : done'[u] \subseteq tried'[u] BY <1>1, <1>12, <1>13 DEF Counted
  <2> QED BY <1>13, <2>1, <2>2 DEF Counted
<1>18. NestedExact'
  <2>1. \A u \in Tx : obj'[u].st # "committed"
    BY <1>1, <1>14, <1>15 DEF NoneDecided, Decided
  <2> QED BY <2>1 DEF NestedExact
<1>19. IsStack(subs', tried'[perf'.x]) BY <1>11, EmptyStack
<1>20. ASSUME perf'.pc \in {"body", "handling"}, w'.alive
       PROVE  Agrees(<<>>, done'[t], w')
  <2>1. r.exc = "ok"
    <3> SUFFICES ASSUME r.exc # "ok" PROVE FALSE OBVIOUS
    <3>1. perf' = [perf EXCEPT !.pc = "throwing", !.exc = r.exc] BY <1>4 DEF Flow
    <3>2. perf'.pc = "throwing" BY <1>1, <3>1 DEF Stage
    <3> QED BY <1>20, <3>2
  <2>2. x.w.alive /\ Left(r.x.w, x.w.work \cup e, x.w.saves)
    BY <1>4, <1>5, <1>6, <1>7, <2>1, XExecExact
  <2>3. /\ r.x.w.tx = "open" /\ r.x.w.work = done[t] \cup e /\ Sorted(r.x.w.saves)
    BY <1>5, <1>7, <2>2 DEF Left
  <2>4. w' = r.x.w BY <1>11, <2>3 DEF World
  <2>5. done'[t] = done[t] \cup e BY <1>13, <2>1
  <2>6. PICK d, y : d = done'[t] /\ y = w' OBVIOUS
  <2>7. Agrees(<<>>, d, y) BY <2>3, <2>4, <2>5, <2>6, EmptyStack
  <2> QED BY <2>6, <2>7
<1>21. InStep' BY <1>11, <1>16, <1>20 DEF InStep
<1> QED BY <1>17, <1>18, <1>19, <1>21 DEF SInv

\* What Attempt makes of X, constructed as r.
Began(t, r) ==
  IF r.exc = "ok"
  THEN /\ World(r.x.w)
       /\ obj' = [obj EXCEPT ![t] = SetStatus(r.x, "active").o]
       /\ perf' = [perf EXCEPT !.pc = "body", !.x = t, !.left = perf.left - 1, !.opened = 0]
  ELSE /\ World(Unregister(r.x).w)
       /\ perf' = [perf EXCEPT !.pc = "throwing", !.exc = r.exc, !.left = perf.left - 1]
       /\ UNCHANGED obj

\* An attempt starts with an empty block and nothing done.
LEMMA AttemptKeeps ==
  ASSUME NInv, SInv, Attempt
  PROVE  SInv'
<1>1. /\ Objects /\ Stage /\ Block /\ Counted /\ IsPerf(perf) /\ perf.pc = "loop"
      /\ tried' = tried /\ subs' = subs /\ done' = done
  BY DEF NInv, Stage, IsPerf, Attempt, SInv
<1>2. /\ perf.x = NoTrans /\ w.tx = "idle" /\ Sane(w) /\ w.saves = <<>> /\ NoneDecided
      /\ subs = <<>>
  BY <1>1 DEF Stage, Block
<1>t. PICK t \in Tx :
        /\ obj[t].st = "absent"
        /\ \E n \in Lift(Constructed(t), get_notifs(Constructed(t).w)) :
           \E r \in (IF n.exc = "ok" THEN do_begin(n.x, "transaction") ELSE {n}) :
             Began(t, r)
  BY DEF Attempt, Constructed, Began
<1>n. PICK n \in Lift(Constructed(t), get_notifs(Constructed(t).w)) :
        \E r \in (IF n.exc = "ok" THEN do_begin(n.x, "transaction") ELSE {n}) : Began(t, r)
  BY <1>t
<1>r. PICK r \in (IF n.exc = "ok" THEN do_begin(n.x, "transaction") ELSE {n}) : Began(t, r)
  BY <1>n
<1>3. obj[t].st = "absent" BY <1>t
<1>4. tried[t] = {} /\ done[t] = {} BY <1>1, <1>3 DEF Counted
<1>5. IsStack(subs', tried'[perf'.x]) BY <1>1, <1>2, EmptyStack
<1>6. CASE r.exc # "ok"
  <2>1. /\ obj' = obj
        /\ perf' = [perf EXCEPT !.pc = "throwing", !.exc = r.exc, !.left = perf.left - 1]
    BY <1>r, <1>6 DEF Began
  <2>2. perf'.pc = "throwing" BY <1>1, <2>1 DEF IsPerf
  <2>3. Counted' BY <1>1, <2>1 DEF Counted
  <2>4. NestedExact'
    <3>1. \A u \in Tx : obj'[u].st # "committed" BY <1>2, <2>1 DEF NoneDecided, Decided
    <3> QED BY <3>1 DEF NestedExact
  <2> QED BY <1>5, <2>2, <2>3, <2>4 DEF SInv, InStep
<1>7. CASE r.exc = "ok"
  <2>1. PICK o : o = SetStatus(r.x, "active").o OBVIOUS
  <2>2. /\ o.st = "active" /\ r.x.w.tx = "open" /\ r.x.w.work = {}
        /\ r.x.w.saves = <<>> /\ World(r.x.w)
    BY <1>2, <1>n, <1>r, <1>7, <2>1, ConstructFacts DEF Began
  <2>3. /\ obj' = [obj EXCEPT ![t] = o]
        /\ perf' = [perf EXCEPT !.pc = "body", !.x = t, !.left = perf.left - 1, !.opened = 0]
    BY <1>r, <1>7, <2>1 DEF Began
  <2>4. obj'[t] = o /\ \A u \in Tx \ {t} : obj'[u] = obj[u] BY <1>1, <2>3 DEF Objects
  <2>5. perf'.x = t
    <3> DEFINE k == perf.left - 1
    <3>1. perf' = [perf EXCEPT !.pc = "body", !.x = t, !.left = k, !.opened = 0] BY <2>3
    <3> HIDE DEF k
    <3> QED BY <1>1, <3>1 DEF IsPerf
  <2>6. Counted' BY <1>1, <2>2, <2>4 DEF Counted
  <2>7. NestedExact'
    <3>1. \A u \in Tx : obj'[u].st # "committed" BY <1>2, <2>2, <2>4 DEF NoneDecided, Decided
    <3> QED BY <3>1 DEF NestedExact
  <2>8. w' = r.x.w BY <2>2 DEF World
  <2>9. Sorted(<<>>)
    <3>1. <<>> \in Seq({}) /\ DOMAIN <<>> = {} OBVIOUS
    <3> QED BY <3>1 DEF Sorted
  <2>10. PICK d, y : d = done'[t] /\ y = w' OBVIOUS
  <2>11. Agrees(<<>>, d, y) BY <1>1, <1>4, <2>2, <2>8, <2>9, <2>10, EmptyStack
  <2>12. InStep' BY <1>1, <1>2, <2>5, <2>10, <2>11 DEF InStep
  <2> QED BY <1>5, <2>6, <2>7, <2>12 DEF SInv
<1> QED BY <1>6, <1>7

\* X.commit(): what is then in the database is what X and its committed
\* subtransactions did.
LEMMA PerformCommitKeeps ==
  ASSUME Liberties = {}, NInv, SInv, PerformCommit
  PROVE  SInv'
<1>1. /\ perf.pc = "body" /\ subs = <<>> /\ Objects /\ Stage /\ Block /\ Landed /\ Counted
      /\ NoneDecided
  BY DEF NInv, PerformCommit, InBody, SInv, Stage
<1>2. PICK t \in Tx : t = perf.x BY <1>1 DEF Stage, Block
<1> DEFINE x == This(t)
<1>3. PICK r : /\ r \in commit(x, "transaction") /\ XResult(r, {})
               /\ perf' = [perf EXCEPT !.pc = IF r.exc = "ok" THEN "committed" ELSE "throwing",
                                       !.exc = r.exc]
  BY <1>2 DEF PerformCommit
<1>4. IsX(x) /\ x.w = w /\ x.o = obj[t] BY DEF This, IsX
<1>5. Sane(x.w) /\ IsTx(x.o) /\ x.o.st = "active" BY <1>1, <1>2, <1>4 DEF Stage, Block, Objects
<1> HIDE DEF x
<1>6. /\ Sane(r.x.w)
      /\ r.exc # "ok" => r.x.o.st # "committed"
      /\ r.exc = "ok" => w.alive /\ r.x.w.db = w.db \cup w.work
      /\ r.x.o.st # "absent"
  BY <1>3, <1>4, <1>5, XCommitFacts
<1>7. PICK none : none = {} OBVIOUS
<1>8. /\ World(r.x.w) /\ obj' = [obj EXCEPT ![t] = r.x.o] /\ subs' = <<>>
      /\ tried' = [tried EXCEPT ![t] = tried[t] \cup none]
      /\ done' = [done EXCEPT ![t] = IF r.exc = "ok" THEN done[t] \cup none ELSE done[t]]
  BY <1>1, <1>2, <1>3, <1>7 DEF XResult
<1>9. tried'[t] = tried[t] /\ \A u \in Tx \ {t} : tried'[u] = tried[u]
  <2>1. tried'[t] = tried[t] \cup none /\ \A u \in Tx \ {t} : tried'[u] = tried[u]
    BY <1>1, <1>8, TriedMore
  <2> QED BY <1>7, <2>1
<1>10. /\ done' = [u \in Tx |-> done'[u]] /\ \A u \in Tx : done'[u] = done[u]
  BY <1>1, <1>7, <1>8 DEF Counted
<1>11. obj'[t] = r.x.o /\ \A u \in Tx \ {t} : obj'[u] = obj[u] BY <1>1, <1>8 DEF Objects
<1>12. perf'.pc \notin {"body", "handling"}
  <2>1. perf'.pc = IF r.exc = "ok" THEN "committed" ELSE "throwing"
    BY <1>1, <1>3 DEF Stage
  <2> QED BY <2>1
<1>13. Counted' BY <1>1, <1>6, <1>9, <1>10, <1>11 DEF Counted
<1>14. IsStack(subs', tried'[perf'.x]) BY <1>8, EmptyStack
<1>15. ASSUME NEW u \in Tx, obj'[u].st = "committed" PROVE w'.db \cap tried'[u] = done'[u]
  <2>1. u = t /\ r.exc = "ok" BY <1>1, <1>6, <1>11, <1>15 DEF NoneDecided, Decided
  <2>2. w.alive /\ r.x.w.db = w.db \cup w.work BY <1>6, <2>1
  <2>3. w.db = {} BY <1>1 DEF Landed, NoneDecided
  <2>4. w.work = done[t] BY <1>1, <1>2, <2>2, EmptyStack DEF SInv, InStep
  <2>5. w'.db = r.x.w.db
    <3>1. w' = Settled(r.x.w) BY <1>8 DEF World, Settled
    <3> QED BY <1>6, <3>1, SettledFacts
  <2>6. done[t] \subseteq tried[t] BY <1>1 DEF Counted
  <2> QED BY <1>9, <1>10, <2>1, <2>2, <2>3, <2>4, <2>5, <2>6
<1>16. NestedExact' BY <1>15 DEF NestedExact
<1> QED BY <1>12, <1>13, <1>14, <1>16 DEF SInv, InStep

\* ~X changes nothing that is decided.
LEMMA PerformDestroyKeeps ==
  ASSUME NInv, SInv, PerformDestroy
  PROVE  SInv'
<1>1. /\ perf.pc \in {"committed", "throwing"} /\ subs = <<>> /\ perf.x # NoTrans
      /\ perf' = [perf EXCEPT !.x = NoTrans]
      /\ Objects /\ Stage /\ Block /\ Counted
  BY DEF NInv, PerformDestroy, SInv
<1>2. PICK t \in Tx : t = perf.x BY <1>1 DEF Block
<1> DEFINE x == This(t)
<1>3. PICK r : /\ r \in End(x, "transaction") /\ XResult([r EXCEPT !.x.o.live = FALSE], {})
  BY <1>2 DEF PerformDestroy
<1>4. /\ IsX(x) /\ x.w = w /\ x.o = obj[t] BY DEF This, IsX
<1>5. Sane(x.w) /\ IsTx(x.o) /\ (x.w.tx # "idle" => x.o.st = "active")
  BY <1>1, <1>2, <1>4 DEF Block, Objects
<1> HIDE DEF x
<1>6. /\ IsX(r.x) /\ IsTx(r.x.o) /\ Idle(w, r.x.w) /\ r = [x |-> r.x, exc |-> r.exc]
      /\ r.x.o.st = IF obj[t].st = "active" THEN "aborted" ELSE obj[t].st
  BY <1>3, <1>4, <1>5, EndFacts
<1> DEFINE q == [r EXCEPT !.x.o.live = FALSE]
           y == [r.x EXCEPT !.o.live = FALSE]
           z == [r.x.o EXCEPT !.live = FALSE]
<1>7. y = [r.x EXCEPT !.o = z] /\ q = [r EXCEPT !.x = y] OBVIOUS
<1>8. XResult(q, {}) BY <1>3
<1> HIDE DEF q, y, z
<1>9. q.x.w = r.x.w /\ q.x.o.st = r.x.o.st
  <2>1. y.w = r.x.w /\ y.o = z BY <1>6, <1>7 DEF IsX
  <2>2. q.x = y BY <1>6, <1>7
  <2>3. z.st = r.x.o.st BY <1>6 DEF z, IsTx, ObjType
  <2> QED BY <2>1, <2>2, <2>3
<1>10. PICK o, none, same :
         o = q.x.o /\ none = {} /\ same = IF q.exc = "ok" THEN done[t] \cup {} ELSE done[t]
  OBVIOUS
<1>11. /\ World(r.x.w) /\ obj' = [obj EXCEPT ![t] = o] /\ subs' = <<>>
       /\ tried' = [tried EXCEPT ![t] = tried[t] \cup none]
       /\ done' = [done EXCEPT ![t] = same] /\ same = done[t]
  BY <1>1, <1>2, <1>8, <1>9, <1>10 DEF XResult
<1>12. tried'[t] = tried[t] /\ \A u \in Tx \ {t} : tried'[u] = tried[u]
  <2>1. tried'[t] = tried[t] \cup none /\ \A u \in Tx \ {t} : tried'[u] = tried[u]
    BY <1>1, <1>11, TriedMore
  <2> QED BY <1>10, <2>1
<1>13. done' = [u \in Tx |-> done'[u]] /\ \A u \in Tx : done'[u] = done[u]
  BY <1>1, <1>11 DEF Counted
<1>14. obj'[t] = o /\ \A u \in Tx \ {t} : obj'[u] = obj[u] BY <1>1, <1>11 DEF Objects
<1>15. /\ o.st = "absent" => obj[t].st = "absent"
       /\ o.st = "committed" => obj[t].st = "committed"
  BY <1>6, <1>9, <1>10
<1>16. w'.db = w.db
  <2>1. w' = Settled(r.x.w) BY <1>11 DEF World, Settled
  <2> QED BY <1>6, <2>1, SettledFacts DEF Idle
<1>17. perf'.pc \notin {"body", "handling"} BY <1>1 DEF Stage
<1>18. Counted' BY <1>1, <1>12, <1>13, <1>14, <1>15 DEF Counted
<1>19. NestedExact' BY <1>12, <1>13, <1>14, <1>15, <1>16 DEF SInv, NestedExact
<1>20. IsStack(subs', tried'[perf'.x]) BY <1>11, EmptyStack
<1> QED BY <1>17, <1>18, <1>19, <1>20 DEF SInv, InStep

\* Steps that call nothing.
LEMMA PerformQuietKeeps ==
  ASSUME NInv, SInv,
         \/ PerformCatch \/ PerformReturn \/ \E exc \in {"std", "unknown"} : BodyThrow(exc)
  PROVE  SInv'
<1>1. /\ w' = w /\ obj' = obj /\ tried' = tried /\ done' = done /\ subs' = subs /\ subs = <<>>
  <2>1. CASE PerformCatch BY <2>1 DEF PerformCatch
  <2>2. CASE PerformReturn
    <3>1. perf.x = NoTrans BY <2>2 DEF PerformReturn
    <3>2. subs = <<>> BY <3>1 DEF NInv, Block
    <3> QED BY <2>2, <3>2 DEF PerformReturn
  <2>3. CASE \E exc \in {"std", "unknown"} : BodyThrow(exc) BY <2>3 DEF BodyThrow
  <2> QED BY <2>1, <2>2, <2>3
<1>2. Stage /\ IsPerf(perf) BY DEF NInv, Stage, IsPerf
<1>3. perf'.pc \notin {"body", "handling"}
  <2>1. CASE PerformCatch
    <3>1. PICK k, m : /\ k = perf.on_abort + 1 /\ m = perf.on_doubt + 1 OBVIOUS
    <3>2. \/ perf' = [perf EXCEPT !.pc = "threw", !.on_doubt = m]
          \/ perf' = [perf EXCEPT !.pc = "threw", !.on_abort = k]
          \/ perf' = [perf EXCEPT !.pc = "loop", !.on_abort = k]
      BY <2>1, <3>1 DEF PerformCatch
    <3> QED BY <1>2, <3>2 DEF IsPerf
  <2>2. CASE PerformReturn
    <3>1. PICK k : perf' = [perf EXCEPT !.pc = "returned", !.on_commit = k]
      BY <2>2 DEF PerformReturn
    <3> QED BY <1>2, <3>1 DEF IsPerf
  <2>3. CASE \E exc \in {"std", "unknown"} : BodyThrow(exc)
    <3>1. PICK exc : perf' = [perf EXCEPT !.pc = "throwing", !.exc = exc]
      BY <2>3 DEF BodyThrow
    <3> QED BY <1>2, <3>1 DEF IsPerf
  <2> QED BY <2>1, <2>2, <2>3
<1>4. IsStack(subs', tried'[perf'.x]) BY <1>1, EmptyStack
<1>5. Counted' /\ NestedExact' BY <1>1 DEF SInv, Counted, NestedExact
<1> QED BY <1>3, <1>4, <1>5 DEF SInv, InStep

\* A session that is gone need not be in step.
LEMMA LinkLostKeeps ==
  ASSUME NInv, SInv, NestedLinkLost
  PROVE  SInv'
<1>1. /\ World(Gone(w)) /\ obj' = obj /\ tried' = tried /\ done' = done /\ subs' = subs
      /\ perf' = perf
  BY DEF NestedLinkLost
<1> DEFINE v == Gone(w)
<1>2. v = [w EXCEPT !.alive = FALSE, !.tx = "idle", !.work = {}] BY DEF Gone
<1>3. World(v) BY <1>1
<1> HIDE DEF v
<1>4. v.alive = FALSE /\ v.db = w.db /\ IsWorld(v) BY <1>2 DEF NInv, Block, Sane, IsWorld
<1>5. w' = v \/ w' = [v EXCEPT !.saves = <<>>] BY <1>3 DEF World
<1>6. w'.alive = FALSE /\ w'.db = w.db BY <1>4, <1>5 DEF IsWorld
<1>7. Counted' /\ NestedExact' BY <1>1, <1>6 DEF SInv, Counted, NestedExact
<1> QED BY <1>1, <1>6, <1>7 DEF SInv, InStep

\* The invariant holds at first.
LEMMA SInvInit ==
  ASSUME NestedInit
  PROVE  SInv
<1>1. PICK k : perf = [pc |-> "loop", x |-> NoTrans, left |-> k, opened |-> 0, exc |-> "ok",
                       on_abort |-> 0, on_commit |-> 0, on_doubt |-> 0]
  BY DEF NestedInit
<1>2. perf.pc = "loop" BY <1>1
<1>3. /\ obj = [t \in Tx |-> Absent] /\ tried = [t \in Tx |-> {}] /\ done = [t \in Tx |-> {}]
      /\ subs = <<>>
  BY DEF NestedInit
<1>4. Counted BY <1>3 DEF Counted
<1>5. IsStack(subs, tried[perf.x]) BY <1>3, EmptyStack
<1>6. NestedExact BY <1>3 DEF NestedExact, Absent
<1> QED BY <1>2, <1>4, <1>5, <1>6 DEF SInv, InStep

\* Every step preserves the invariant.
LEMMA SInvNext ==
  ASSUME Liberties = {}, Rejects = {}, NInv, SInv, [NestedNext]_nvars
  PROVE  SInv'
<1>1. CASE UNCHANGED nvars
  <2>1. /\ w' = w /\ obj' = obj /\ tried' = tried /\ done' = done /\ subs' = subs
        /\ perf' = perf
    BY <1>1 DEF nvars
  <2> QED BY <2>1 DEF SInv, Counted, InStep, NestedExact
<1>2. CASE Attempt BY <1>2, AttemptKeeps
<1>3. CASE BodyExec BY <1>3, BodyExecKeeps
<1>4. CASE PerformCatch \/ PerformReturn \/ \E exc \in {"std", "unknown"} : BodyThrow(exc)
  BY <1>4, PerformQuietKeeps
<1>5. CASE SubOpen BY <1>5, SubOpenKeeps
<1>6. CASE SubExec BY <1>6, SubExecKeeps
<1>7. CASE SubCommit BY <1>7, SubCommitKeeps
<1>8. CASE SubAbort BY <1>8, SubAbortKeeps
<1>9. CASE SubDestroy BY <1>9, SubDestroyKeeps
<1>10. CASE PerformCommit BY <1>10, PerformCommitKeeps
<1>11. CASE PerformDestroy BY <1>11, PerformDestroyKeeps
<1>12. CASE NestedLinkLost BY <1>12, LinkLostKeeps
<1> QED BY <1>1, <1>2, <1>3, <1>4, <1>5, <1>6, <1>7, <1>8, <1>9, <1>10, <1>11, <1>12
        DEF NestedNext, Program

\* It is what the run checks, and more.
LEMMA SInvExact ==
  ASSUME NInv, SInv
  PROVE  SavepointsExact
<1>1. /\ Objects /\ Block /\ Landed /\ Stage /\ Counted /\ InStep /\ NestedExact
      /\ IsStack(subs, tried[perf.x])
  BY DEF NInv, SInv
<1>2. w.db \subseteq Effect BY <1>1 DEF Landed, Objects, IsWork
<1>3. NestedTypeOK
  <2>1. \A t \in Tx : obj[t] \in ObjType /\ done[t] \subseteq tried[t]
    BY <1>1 DEF Objects, IsTx, Counted
  <2> QED BY <1>1, <1>2, <2>1 DEF NestedTypeOK, Block, Stage, Sane
<1>4. BlockInStep
  <2> SUFFICES ASSUME InBody, w.alive, \A i \in DOMAIN subs : subs[i].o.st # "aborted"
               PROVE  /\ w.tx = "open"
                      /\ w.work = done[perf.x] \cup UNION {subs[i].done : i \in DOMAIN subs}
                      /\ \A i \in DOMAIN subs :
                           subs[i].o.st = "active" => Find(w, subs[i].sp) # {}
    BY DEF BlockInStep
  <2>1. Agrees(subs, done[perf.x], w) BY <1>1 DEF InStep, InBody
  <2>2. DOMAIN subs = 1..Depth /\ (subs # <<>> => Depth \in DOMAIN subs)
    BY <1>1, StackFacts DEF Depth
  <2>3. Top(subs) = Depth BY <2>2 DEF Top, Depth
  <2>4. w.work = done[perf.x] \cup UNION {subs[i].done : i \in DOMAIN subs}
    BY <2>1, <2>2, <2>3 DEF Agrees, Level
  <2>5. \A i \in DOMAIN subs : subs[i].o.st = "active" => Find(w, subs[i].sp) # {}
    BY <2>1 DEF Agrees, Marked, Find
  <2> QED BY <2>1, <2>4, <2>5 DEF Agrees
<1> QED BY <1>1, <1>3, <1>4 DEF SavepointsExact

\* subtransaction: nested to any depth and in any number, in an attempt that runs
\* any number of statements and wherever the connection is lost, the savepoints in
\* the backend are those of the subtransactions that are open, and rolling back to
\* one undoes the work that was done in it and no other; a commit() that returns
\* leaves in the database what X and its committed subtransactions did.  The body
\* opens subtransactions inside active ones, with reactivation inhibited, and has
\* none open when it commits; the backend refuses no SAVEPOINT and no RELEASE.
THEOREM SavepointsExactHolds ==
  ASSUME Liberties = {}, Rejects = {}
  PROVE  NestedSpec => []SavepointsExact
<1>1. NestedInit => NInv /\ SInv BY NInvInit, SInvInit
<1>2. NInv /\ SInv /\ [NestedNext]_nvars => NInv' /\ SInv'
  <2>1. "uninhibited" \notin Liberties OBVIOUS
  <2> QED BY <2>1, NInvNext, SInvNext
<1>3. NInv /\ SInv => SavepointsExact BY SInvExact
<1> QED BY <1>1, <1>2, <1>3, PTL DEF NestedSpec
=============================================================================
