----------------------------- MODULE Connection -----------------------------
(***************************************************************************)
(* connection_base: recovery of the physical connection and execution of   *)
(* statements on it (src/connection_base.cxx).                             *)
(*                                                                         *)
(* Each member function is an operator from a world to the set of its      *)
(* outcomes [w, exc]: the world it leaves and how it ended, "ok" for a     *)
(* normal return or the class of the exception thrown.  A world extends    *)
(* Backend's record with                                                   *)
(*   inhibit  m_inhibit_reactivation                                       *)
(*   avoid    m_reactivation_avoidance                                     *)
(*   trans    m_Trans, the registered transaction, or NoTrans              *)
(* m_Completed is folded into handle: for the direct policy the two differ *)
(* only inside activate().                                                 *)
(***************************************************************************)
EXTENDS Backend, Integers

CONSTANT NoTrans

Out(w, exc) == [w |-> w, exc |-> exc]

\* Run F after the outcomes that returned normally; the others propagate.
Then(os, F(_)) == UNION {IF o.exc = "ok" THEN F(o.w) ELSE {o} : o \in os}

is_open(w) == w.handle = "ok"

disconnect(w) == [Gone(w) EXCEPT !.handle = "none", !.copy = FALSE]

\* Mutant: inhibit_reactivation() is not looked at.
activate_Uninhibited(w) ==
  IF is_open(w) \/ w.avoid # 0 THEN {Out(w, "ok")}
  ELSE {Out(disconnect(w), "broken")}
         \cup (IF w.handle = "none" THEN {Out(Fresh(w), "ok")} ELSE {})

\* A handle that is BAD is never replaced at once: do_startconnect() returns
\* it as it is, the is_open() check fails and the handle is dropped.  Only the
\* next call finds a null handle and connects.
activate(w) ==
  IF is_open(w) THEN {Out(w, "ok")}
  ELSE IF w.inhibit THEN {Out(w, "broken")}
  ELSE IF w.avoid # 0 THEN {Out(w, "ok")}
  ELSE {Out(disconnect(w), "broken")}
         \cup (IF w.handle = "none" THEN {Out(Fresh(w), "ok")} ELSE {})

\* make_result() asks for the encoding, and encoding_code() activates.
make_result(w) == activate(w)

check_result(w, res) ==
  IF ~is_open(w) THEN Out(w, "broken")
  ELSE IF res = "none" THEN Out(w, "failure")
  ELSE IF res = "error" THEN Out(w, "sql")
  ELSE Out(w, "ok")

\* Delivery to receivers changes nothing here.
get_notifs(w) ==
  IF ~is_open(w) THEN {Out(w, "ok")}
  ELSE {Out(r.w, IF r.ok THEN "ok" ELSE "broken") : r \in PQconsumeInput(w)}

\* One libpq call, the result made from it, and its status checked.
Query(w, op, eff) ==
  UNION {Then(make_result(r.w), LAMBDA v : {check_result(v, r.res)}) :
         r \in PQexec(w, op, eff)}

\* Exec(): the retry loop is left out because its body cannot change anything.
\* It runs only if no result came and the connection is not open; make_result()
\* has returned normally by then, so activate() has seen avoid # 0, and then
\* Reset() returns at once.
Exec(w, op, eff) ==
  Then(activate(w), LAMBDA v : Then(Query(v, op, eff), get_notifs))

\* register_prepared() prepares the statement in this session on first use.
\* Without a connection protocol_version() is 0, which is refused.
register_prepared(w) ==
  Then(activate(w),
       LAMBDA v : IF ~is_open(v) THEN {Out(v, "feature_not_supported")}
                  ELSE {Out(v, "ok")} \cup Query(v, "PREPARE", {}))

prepared_exec(w, eff) ==
  Then(register_prepared(w), LAMBDA v : Exec(v, "SQL", eff))

\* No activate() before the statement is sent.
parameterized_exec(w, eff) == Then(Query(w, "SQL", eff), get_notifs)

EndCopyWrite(w, eff) ==
  UNION {IF ~w.copy \/ ~is_open(w) THEN {Out(w, "failure")}
         ELSE Then(make_result(r.w), LAMBDA v : {check_result(v, r.res)}) :
         r \in PQendCopy(w, eff)}

\* PQputCopyData fails when the link or the COPY is gone.
WriteCopyLine(w) ==
  IF ~is_open(w) THEN {Out(w, "internal")}
  ELSE IF ~w.copy THEN {Out(w, "failure")}
  ELSE {Out(w, "ok"), Out(Lost(w), "failure")}

deactivate(w) ==
  IF w.handle = "none" THEN {Out(w, "ok")}
  ELSE IF w.trans # NoTrans THEN {Out(w, "usage")}
  ELSE IF w.avoid # 0 THEN {Out(w, "ok")}
  ELSE {Out(disconnect(w), "ok")}

simulate_failure(w) ==
  IF w.handle = "none" THEN w ELSE [disconnect(w) EXCEPT !.inhibit = TRUE]
=============================================================================
