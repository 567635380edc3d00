----------------------------- MODULE SqlErrors -----------------------------
(***************************************************************************)
(* The exceptions of except.hxx, and how a result that carries an error    *)
(* becomes one of them: result.cxx, connection_base::check_result().       *)
(*                                                                         *)
(* An SQLSTATE is <<class, condition>>, its first two and last three       *)
(* characters; NoCode is an error libpq made up itself, which has none.    *)
(***************************************************************************)
EXTENDS Integers, TLC

NoCode == <<"", "">>

\* The direct bases of every exception class.
StandardBases ==
     "runtime_error" :> {"exception"} @@ "logic_error" :> {"exception"}
  @@ "invalid_argument" :> {"logic_error"} @@ "domain_error" :> {"logic_error"}
  @@ "out_of_range" :> {"logic_error"} @@ "exception" :> {} @@ "pqxx_exception" :> {}

GeneralBases ==
     "failure" :> {"pqxx_exception", "runtime_error"}
  @@ "broken_connection" :> {"failure"} @@ "sql_error" :> {"failure"}
  @@ "in_doubt_error" :> {"failure"}
  @@ "internal_error" :> {"pqxx_exception", "logic_error"}
  @@ "usage_error" :> {"pqxx_exception", "logic_error"}
  @@ "argument_error" :> {"pqxx_exception", "invalid_argument"}
  @@ "conversion_error" :> {"pqxx_exception", "domain_error"}
  @@ "range_error" :> {"pqxx_exception", "out_of_range"}

ConstraintBases ==
     "feature_not_supported" :> {"sql_error"} @@ "data_exception" :> {"sql_error"}
  @@ "integrity_constraint_violation" :> {"sql_error"}
  @@ [c \in {"restrict_violation", "not_null_violation", "foreign_key_violation",
             "unique_violation", "check_violation"}
        |-> {"integrity_constraint_violation"}]

StatementBases ==
     [c \in {"invalid_cursor_state", "invalid_sql_statement_name",
             "invalid_cursor_name", "syntax_error", "insufficient_privilege"}
        |-> {"sql_error"}]
  @@ [c \in {"undefined_column", "undefined_function", "undefined_table"}
        |-> {"syntax_error"}]

ServerBases ==
     "insufficient_resources" :> {"sql_error"} @@ "plpgsql_error" :> {"sql_error"}
  @@ [c \in {"disk_full", "out_of_memory"} |-> {"insufficient_resources"}]
  @@ "too_many_connections" :> {"broken_connection"}
  @@ [c \in {"plpgsql_raise", "plpgsql_no_data_found", "plpgsql_too_many_rows"}
        |-> {"plpgsql_error"}]

Bases == StandardBases @@ GeneralBases @@ ConstraintBases @@ StatementBases @@ ServerBases

\* The types a handler may name to catch an exception of class c.
CaughtAs[c \in DOMAIN Bases] == {c} \cup UNION {CaughtAs[b] : b \in Bases[c]}

(***************************************************************************)
(* result::ThrowSQLError().                                                *)
(***************************************************************************)
Specific ==
     <<"23", "001">> :> "restrict_violation" @@ <<"23", "502">> :> "not_null_violation"
  @@ <<"23", "503">> :> "foreign_key_violation" @@ <<"23", "505">> :> "unique_violation"
  @@ <<"23", "514">> :> "check_violation" @@ <<"42", "501">> :> "insufficient_privilege"
  @@ <<"42", "601">> :> "syntax_error" @@ <<"42", "703">> :> "undefined_column"
  @@ <<"42", "883">> :> "undefined_function" @@ <<"42", "P01">> :> "undefined_table"
  @@ <<"53", "100">> :> "disk_full" @@ <<"53", "200">> :> "out_of_memory"
  @@ <<"53", "300">> :> "too_many_connections" @@ <<"P0", "001">> :> "plpgsql_raise"
  @@ <<"P0", "002">> :> "plpgsql_no_data_found" @@ <<"P0", "003">> :> "plpgsql_too_many_rows"

General ==
     "08" :> "broken_connection" @@ "0A" :> "feature_not_supported"
  @@ "22" :> "data_exception" @@ "23" :> "integrity_constraint_violation"
  @@ "24" :> "invalid_cursor_state" @@ "26" :> "invalid_sql_statement_name"
  @@ "34" :> "invalid_cursor_name" @@ "53" :> "insufficient_resources"
  @@ "P0" :> "plpgsql_error"

\* result::errorposition(): -1 if the server did not say.
errorposition(pos) == IF pos = 0 THEN -1 ELSE pos

\* An exception: its class, whether it carries the query, and the position.
Exception(c, query, pos) == [class |-> c, query |-> query, position |-> pos]

ThrowSQLError(code, pos) ==
  LET c == IF code \in DOMAIN Specific THEN Specific[code]
           ELSE IF code[1] \in DOMAIN General THEN General[code[1]]
           ELSE "sql_error"
  IN Exception(c, "broken_connection" \notin CaughtAs[c],
               IF c = "syntax_error" THEN errorposition(pos) ELSE -1)

NoException == Exception("none", FALSE, -1)

\* result::StatusError(): the statuses that are errors; all others but the
\* unknown ones are fine.
ErrorStatus == {"BAD_RESPONSE", "NONFATAL_ERROR", "FATAL_ERROR"}
FineStatus == {"EMPTY_QUERY", "COMMAND_OK", "TUPLES_OK", "COPY_OUT", "COPY_IN"}

\* result::CheckStatus(): an error is known by its text; one without a text
\* passes.
CheckStatus(res) ==
  CASE res.status \in ErrorStatus /\ res.message -> ThrowSQLError(res.code, res.pos)
    [] res.status \in ErrorStatus /\ ~res.message -> NoException
    [] res.status \in FineStatus -> NoException
    [] OTHER -> Exception("internal_error", FALSE, -1)

\* libpq returned no PGresult.
NoResult == [status |-> "none"]

\* Mutant: the result is looked at before the connection.
check_result_ResultFirst(open, res) ==
  IF res = NoResult THEN Exception("failure", FALSE, -1)
  ELSE IF CheckStatus(res) # NoException \/ open THEN CheckStatus(res)
  ELSE Exception("broken_connection", FALSE, -1)

\* connection_base::check_result(): res is what libpq returned, or NoResult.
check_result(open, res) ==
  IF ~open THEN Exception("broken_connection", FALSE, -1)
  ELSE IF res = NoResult THEN Exception("failure", FALSE, -1)
  ELSE CheckStatus(res)
=============================================================================
