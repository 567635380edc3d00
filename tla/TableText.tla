----------------------------- MODULE TableText -----------------------------
(***************************************************************************)
(* The text that tablewriter and tablereader exchange with the backend in  *)
(* a COPY: Escape() and generate() (src/tablewriter.cxx, tablewriter.hxx), *)
(* extract_field() and tokenize() (src/tablereader.cxx, tablereader.hxx),  *)
(* and what the backend makes of the same lines.                           *)
(*                                                                         *)
(* A text is a sequence of characters, "bs" being the backslash.  A        *)
(* character stands for its class: "tab" and "nl" also for the others with *)
(* a letter of their own (backspace, vertical tab, form feed, carriage     *)
(* return), "ctl" for what unprintable() holds of, and "other" for a byte  *)
(* outside this alphabet.                                                  *)
(* Positions count from 1.                                                 *)
(***************************************************************************)
EXTENDS Integers, Sequences, SequencesExt

CONSTANT NULL   \* a field without a value, in the backend

Digit == {"0", "1"}

\* The letter that escapechar() answers for a character that has one.
escapechar == [c \in {"tab", "nl", "bs"} |->
                 CASE c = "tab" -> "t" [] c = "nl" -> "n" [] c = "bs" -> "bs"]

Letter == [c \in {"t", "n"} |-> IF c = "t" THEN "tab" ELSE "nl"]

unprintable(c) == c = "ctl"

\* The three octal digits of "ctl", and the character that three digits stand for.
octal == <<"0", "0", "1">>

FromOctal(digits) == IF digits = octal THEN "ctl" ELSE "other"

----------------------------------------------------------------------------
(* The writer.                                                             *)

\* Mutant: a backslash needs no escape.
EscapeOne_NoBackslash(c) ==
  IF c \in {"tab", "nl"} THEN <<"bs", escapechar[c]>> ELSE <<c>>

\* Two backslashes before an octal number, as the code has it.
EscapeOne(c) ==
  IF c \in DOMAIN escapechar THEN <<"bs", escapechar[c]>>
  ELSE IF unprintable(c) THEN <<"bs", "bs">> \o octal
  ELSE <<c>>

Escape(s, null) ==
  IF s = null THEN <<"bs", "N">>
  ELSE FlattenSeq([i \in DOMAIN s |-> EscapeOne(s[i])])

Separated(fields) ==
  FlattenSeq([i \in DOMAIN fields |->
                IF i = 1 THEN fields[i] ELSE <<"tab">> \o fields[i]])

generate(row, null) == Separated([i \in DOMAIN row |-> Escape(row[i], null)])

\* A newline at the end of the line is dropped; WriteCopyLine() adds its own.
write_raw_line(line) ==
  IF line # <<>> /\ Last(line) = "nl" THEN Front(line) ELSE line

----------------------------------------------------------------------------
(* The backend.  A token is a character of a field, the end of a field, or  *)
(* the mark of a field without a value.                                     *)

\* How many characters a backslash at the start of line takes with it: up to
\* three digits, or one character.
EscapeLength(line) ==
  IF Len(line) < 2 \/ line[2] \notin Digit THEN 1
  ELSE IF Len(line) < 3 \/ line[3] \notin Digit THEN 1
  ELSE IF Len(line) < 4 \/ line[4] \notin Digit THEN 2 ELSE 3

RECURSIVE Tokens(_)
Tokens(line) ==
  IF line = <<>> THEN <<>>
  ELSE IF Head(line) = "tab" THEN <<"END">> \o Tokens(Tail(line))
  ELSE IF Head(line) # "bs" \/ Len(line) = 1
  THEN <<Head(line)>> \o Tokens(Tail(line))
  ELSE LET n == EscapeLength(line)
           c == line[2]
           t == IF c \in Digit THEN FromOctal(SubSeq(line, 2, n + 1))
                ELSE IF c \in DOMAIN Letter THEN Letter[c]
                ELSE IF c = "N" THEN "NULL" ELSE c
       IN <<t>> \o Tokens(SubSeq(line, n + 2, Len(line)))

RECURSIVE Fields(_)
Fields(tokens) ==
  LET ends == {i \in DOMAIN tokens : tokens[i] = "END"} IN
  IF ends = {} THEN <<tokens>>
  ELSE LET e == CHOOSE i \in ends : \A j \in ends : i <= j
       IN <<SubSeq(tokens, 1, e - 1)>> \o Fields(SubSeq(tokens, e + 1, Len(tokens)))

\* The row that the backend takes a line for.  Only a field of its own is NULL.
RowOf(line) ==
  LET fs == Fields(Tokens(line)) IN
  [i \in DOMAIN fs |-> IF fs[i] = <<"NULL">> THEN NULL
                       ELSE [k \in DOMAIN fs[i] |->
                               IF fs[i][k] = "NULL" THEN "N" ELSE fs[i][k]]]

\* The line that it sends for a row; it does not escape what is only unprintable.
LineOf(row) ==
  Separated([i \in DOMAIN row |->
               IF row[i] = NULL THEN <<"bs", "N">>
               ELSE FlattenSeq([k \in DOMAIN row[i] |->
                      IF row[i][k] \in DOMAIN escapechar
                      THEN <<"bs", escapechar[row[i][k]]>> ELSE <<row[i][k]>>])])

----------------------------------------------------------------------------
(* The reader.  x is the state of the loop in extract_field():             *)
(*   i       where it is in the line                                       *)
(*   R       the field so far                                              *)
(*   isnull  it has met a null sequence                                    *)
(*   stop    the tab it takes for the end of the field                     *)
(*   exc     what it throws, or "ok"                                       *)

findtab(line, start) ==
  LET tabs == {i \in start..Len(line) : line[i] = "tab"} IN
  IF tabs = {} THEN Len(line) + 1 ELSE CHOOSE i \in tabs : \A j \in tabs : i <= j

Thrown(x, exc) == [x EXCEPT !.exc = exc]

Got(x, c, to) == [x EXCEPT !.R = Append(@, c), !.i = to]

\* A self-escaped character may be the tab that was taken for the end.
SelfEscaped(line, x, j) ==
  IF j # x.stop THEN Got(x, line[j], j + 1)
  ELSE IF j + 1 > Len(line) THEN Thrown(x, "internal")
  ELSE [Got(x, line[j], j + 1) EXCEPT !.stop = findtab(line, j + 1)]

\* The escape sequence whose backslash is before position j.
Unescaped(line, x, j, null) ==
  IF j > Len(line) THEN Thrown(x, "failure")
  ELSE IF line[j] = "N"
  THEN IF x.R # <<>> THEN Thrown(x, "failure")
       ELSE [x EXCEPT !.R = null, !.isnull = TRUE, !.i = j + 1]
  ELSE IF line[j] \in Digit
  THEN IF j + 2 > Len(line) \/ line[j + 1] \notin Digit \/ line[j + 2] \notin Digit
       THEN Thrown(x, "failure")
       ELSE Got(x, FromOctal(SubSeq(line, j, j + 2)), j + 3)
  ELSE IF line[j] \in DOMAIN Letter THEN Got(x, Letter[line[j]], j + 1)
  ELSE SelfEscaped(line, x, j)

RECURSIVE Scan(_, _, _)
Scan(line, x, null) ==
  IF x.exc # "ok" \/ x.i >= x.stop THEN x
  ELSE IF line[x.i] = "nl" THEN [x EXCEPT !.i = x.stop + 1]
  ELSE Scan(line, IF line[x.i] = "bs" THEN Unescaped(line, x, x.i + 1, null)
                  ELSE Got(x, line[x.i], x.i + 1), null)

\* The field that begins at i, and where the next one does.
extract_field(line, i, null) ==
  LET x == Scan(line, [i |-> i, R |-> <<>>, isnull |-> FALSE,
                       stop |-> findtab(line, i), exc |-> "ok"], null)
  IN IF x.exc = "ok" /\ x.isnull /\ Len(x.R) # Len(null)
     THEN Thrown(x, "failure") ELSE [x EXCEPT !.i = @ + 1]

\* The fields from position i on.
RECURSIVE FieldsFrom(_, _, _)
FieldsFrom(line, i, null) ==
  IF i > Len(line) THEN [row |-> <<>>, exc |-> "ok"]
  ELSE LET x == extract_field(line, i, null) IN
       IF x.exc # "ok" THEN [row |-> <<>>, exc |-> x.exc]
       ELSE LET rest == FieldsFrom(line, x.i, null) IN
            [rest EXCEPT !.row = <<x.R>> \o @]

tokenize(line, null) == FieldsFrom(line, 1, null)
=============================================================================
