------------------------------- MODULE Values -------------------------------
(***************************************************************************)
(* How values get in and out of a query: result, row, field and their      *)
(* iterators (result.cxx, row.cxx, field.cxx and headers), binarystring,   *)
(* and the parameters of a prepared statement (statement_parameters.cxx,   *)
(* prepared_statement.cxx).                                                *)
(*                                                                         *)
(* A client has result variables and binarystring variables.  Both are     *)
(* reference-counted pointers with a shortcut beside the pointer: a result *)
(* keeps m_data, a binarystring keeps m_size.  A row is a position in a    *)
(* result VARIABLE; it owns nothing.                                       *)
(***************************************************************************)
EXTENDS PQAlloc, StrConv, SqlErrors, FiniteSets, TLC

CONSTANTS ResultVar,    \* the client's result variables
          BinVar,       \* its binarystring variables
          Grid,         \* [names, rows] of every result set the server can
                        \*   return; a cell is a text or Null
          Buffer,       \* the buffers binarystrings may allocate
          Text,         \* texts a conversion may be asked to read
          MaxParams,    \* parameters per invocation
          IndexBits     \* width of the index types

VARIABLES ptr,          \* the pointers inside results and binarystrings
          live,         \* the variables that exist
          m_data,       \* result::m_data
          m_size,       \* binarystring::m_size
          bytes,        \* what each buffer holds
          row,          \* the row the client works with
          it,           \* the iterator the client works with
          params,       \* the statement_parameters being filled
          given,        \* what the client passed, in order
          call          \* the last conversion or marshalling, and its outcome

vars == <<ptr, live, m_data, m_size, bytes, row, it, params, given, call>>

ResultSet == DOMAIN Grid

NoRow == [home |-> Null]
NoIt == [lo |-> 0]
NoCall == [fn |-> "none"]
NoParams == [m_values |-> <<>>, m_nonnull |-> <<>>, m_binary |-> <<>>]

ASSUME ValuesAssumption ==
  /\ Handle = ResultVar \cup BinVar \cup {Tmp}
  /\ Data = ResultSet \cup Buffer
  /\ \A d \in ResultSet : Len(Grid[d].rows) < 2^IndexBits - 1

Init ==
  /\ ptr = NoPointers
  /\ live = {}
  /\ m_data = [h \in ResultVar |-> Null]
  /\ m_size = [b \in BinVar |-> 0]
  /\ bytes = [d \in Buffer |-> <<>>]
  /\ row = NoRow
  /\ it = NoIt
  /\ params = NoParams /\ given = <<>>
  /\ call = NoCall

(***************************************************************************)
(* result: what it shows of its m_data.                                    *)
(***************************************************************************)
size(h) == IF m_data[h] = Null THEN 0 ELSE Len(Grid[m_data[h]].rows)

columns(h) == IF m_data[h] = Null THEN 0 ELSE Len(Grid[m_data[h]].names)

column_name(h, n) == Grid[m_data[h]].names[n + 1]

\* PQfnumber(): the first column of that name; -1 is reported by throwing.
Columns(h, name) ==
  IF m_data[h] = Null THEN {}
  ELSE {n \in 0..columns(h) - 1 : column_name(h, n) = name}

result_column_number(h, name) ==
  IF Columns(h, name) = {} THEN Throws ELSE Yields(Min(Columns(h, name)))

\* The objects as a client reaches them keep to one rule: it never touches a
\* variable that it has destroyed, and starts over with rows and iterators
\* when it changes a variable they may come from.
Settle(v) ==
  /\ row' = IF row.home = v THEN NoRow ELSE row
  /\ it' = NoIt
  /\ call' = NoCall
  /\ UNCHANGED <<params, given>>

\* The shortcut the pointer implies.
Shortcut(p, h) == p.obj[h]

\* Bounds on the client: it does one thing at a time.  It works with several
\* results, or makes binarystrings from the fields of one.
Reading == call = NoCall /\ live \cap BinVar = {}
Making == call = NoCall /\ it = NoIt /\ Cardinality(live \cap ResultVar) = 1

\* A query returns a fresh result set d, into a new variable or an old one.
Exec(h, d) ==
  /\ given = <<>> /\ Reading
  /\ d \notin {ptr.obj[g] : g \in Handle} /\ ptr.frees[d] = 0
  /\ live' = live \cup {h}
  /\ ptr' = assume_ownership(ptr, h, d)
  /\ m_data' = [m_data EXCEPT ![h] = d]
  /\ Settle(h) /\ UNCHANGED <<m_size, bytes>>

\* result(), and result(const result &).
Default(h) ==
  /\ given = <<>> /\ Reading /\ h \notin live
  /\ live' = live \cup {h}
  /\ m_data' = [m_data EXCEPT ![h] = Null]
  /\ Settle(h) /\ UNCHANGED <<ptr, m_size, bytes>>

Copy(h, g) ==
  /\ Reading /\ h \notin live /\ g \in live
  /\ live' = live \cup {h}
  /\ ptr' = makeref(ptr, h, g)
  /\ m_data' = [m_data EXCEPT ![h] = m_data[g]]
  /\ Settle(h) /\ UNCHANGED <<m_size, bytes>>

AssignResult(h, g) ==
  /\ {h, g} \subseteq live
  /\ ptr' = redoref(ptr, h, g)
  /\ m_data' = [m_data EXCEPT ![h] = m_data[g]]
  /\ Settle(h) /\ UNCHANGED <<live, m_size, bytes>>

SwapResults(h, g) ==
  /\ {h, g} \subseteq live
  /\ ptr' = swap(ptr, h, g)
  /\ m_data' = [m_data EXCEPT ![h] = Shortcut(ptr', h), ![g] = Shortcut(ptr', g)]
  /\ row' = NoRow /\ it' = NoIt /\ call' = NoCall
  /\ UNCHANGED <<live, m_size, bytes, params, given>>

Clear(h) ==
  /\ h \in live
  /\ ptr' = loseref(ptr, h)
  /\ m_data' = [m_data EXCEPT ![h] = Null]
  /\ Settle(h) /\ UNCHANGED <<live, m_size, bytes>>

Destroy(h) ==
  /\ h \in live
  /\ live' = live \ {h}
  /\ ptr' = loseref(ptr, h)
  /\ m_data' = [m_data EXCEPT ![h] = Null]
  /\ Settle(h) /\ UNCHANGED <<m_size, bytes>>

(***************************************************************************)
(* row: a position in a result variable, and a range of its columns.       *)
(***************************************************************************)
Row(h, i) == [home |-> h, m_Index |-> i, m_Begin |-> 0, m_End |-> columns(h)]

row_size(r) == r.m_End - r.m_Begin

\* Mutant: the position is the one in the whole row.
column_number_Absolute(r, name) ==
  LET n    == result_column_number(r.home, name)
      hits == {i \in r.m_Begin..r.m_End - 1 : ~n.throws /\ column_name(r.home, i) = name}
  IN IF hits = {} THEN Throws ELSE Yields(Min(hits))

\* row::column_number(): PQfnumber() knows nothing of slices, so a hit to the
\* left of the slice starts a search by name inside it.
column_number(r, name) ==
  LET n    == result_column_number(r.home, name)
      hits == {i \in r.m_Begin..r.m_End - 1 :
                 column_name(r.home, i) = column_name(r.home, n.value)}
  IN CASE n.throws -> Throws
       [] ~n.throws /\ n.value >= r.m_End -> Throws
       [] ~n.throws /\ n.value >= r.m_Begin /\ n.value < r.m_End ->
            Yields(n.value - r.m_Begin)
       [] OTHER -> IF hits = {} THEN Throws ELSE Yields(Min(hits) - r.m_Begin)

\* result::at(): throws when there is no such row.
At(h, i) ==
  /\ h \in live /\ i < size(h)
  /\ row' = Row(h, i)
  /\ it' = NoIt /\ call' = NoCall
  /\ UNCHANGED <<ptr, live, m_data, m_size, bytes, params, given>>

slice(Begin, End) ==
  /\ row # NoRow
  /\ Begin <= End /\ End <= row_size(row)
  /\ row' = [row EXCEPT !.m_Begin = row.m_Begin + Begin, !.m_End = row.m_Begin + End]
  /\ it' = NoIt /\ call' = NoCall
  /\ UNCHANGED <<ptr, live, m_data, m_size, bytes, params, given>>

(***************************************************************************)
(* field: one cell.  libpq gives a null as an empty text and a flag.       *)
(***************************************************************************)
Cell(r, i) == Grid[m_data[r.home]].rows[r.m_Index + 1][r.m_Begin + i + 1]

c_str(r, i) == IF Cell(r, i) = Null THEN <<>> ELSE Cell(r, i)

is_null(r, i) == Cell(r, i) = Null

\* field::to(): returns whether there was a value, and the value.
to(r, i, t) ==
  IF c_str(r, i) = <<>> /\ is_null(r, i)
  THEN [notnull |-> FALSE, throws |-> FALSE]
  ELSE [notnull |-> TRUE] @@ from_string(t, c_str(r, i))

\* as<T>(): a null must be one of T's own, or it is an error.
As(i, t) ==
  /\ row # NoRow /\ it = NoIt /\ i < row_size(row) /\ Reading
  /\ LET v == to(row, i, t)
     IN call' = [fn |-> "as", cell |-> Cell(row, i), type |-> t,
                 out |-> IF v.notnull THEN [throws |-> v.throws, value |-> v.value]
                         ELSE IF has_null(t) THEN Yields(Null) ELSE Throws]
  /\ UNCHANGED <<ptr, live, m_data, m_size, bytes, row, it, params, given>>

(***************************************************************************)
(* Iterators: over the rows of a result and over the fields of a row, both *)
(* ways.  The reverse ones are stored one place to the left of where they  *)
(* stand, in an unsigned index.  steps counts how far the client has gone. *)
(***************************************************************************)
Index(n) == n % 2^IndexBits

\* begin(), or rbegin() made from end().
Start(lo, hi, dir) == IF dir = 1 THEN lo ELSE Index(hi - 1)

\* end(), or rend() made from begin().
Finish(lo, hi, dir) == IF dir = 1 THEN hi ELSE Index(lo - 1)

base(pos) == Index(pos + 1)

\* Where ++, --, +=, -= and operator+ may take an iterator of each class.  The
\* operator+ of a reverse iterator makes a new one from base().
const_result_iterator(m_Index, n) == {Index(m_Index + n)}

const_reverse_result_iterator(m_Index, n) ==
  {Index(m_Index - n), Index(Index(base(m_Index) - n) - 1)}

const_row_iterator(m_col, n) == {Index(m_col + n)}

const_reverse_row_iterator(m_col, n) ==
  {Index(m_col - n), Index(Index(base(m_col) - n) - 1)}

\* operator< of an iterator, and of a reverse iterator.
less(pos, other) == pos < other

reverse_less(pos, other) == less(other, pos)

Iterator(class, lo, hi, dir) ==
  [class |-> class, lo |-> lo, hi |-> hi, dir |-> dir, steps |-> 0,
   pos |-> Start(lo, hi, dir)]

IterateRows(h, dir) ==
  /\ h \in live /\ row = NoRow /\ Reading
  /\ it' = Iterator("rows", 0, size(h), dir)
  /\ UNCHANGED <<ptr, live, m_data, m_size, bytes, row, params, given, call>>

IterateFields(dir) ==
  /\ row # NoRow /\ Reading
  /\ it' = Iterator("fields", row.m_Begin, row.m_End, dir)
  /\ UNCHANGED <<ptr, live, m_data, m_size, bytes, row, params, given, call>>

Advance(n) ==
  /\ it # NoIt /\ it.steps + n \in 0..it.hi - it.lo
  /\ \E pos \in CASE it.class = "rows" /\ it.dir = 1 -> const_result_iterator(it.pos, n)
                   [] it.class = "rows" /\ it.dir = -1 -> const_reverse_result_iterator(it.pos, n)
                   [] it.class = "fields" /\ it.dir = 1 -> const_row_iterator(it.pos, n)
                   [] OTHER -> const_reverse_row_iterator(it.pos, n) :
       it' = [it EXCEPT !.pos = pos, !.steps = it.steps + n]
  /\ UNCHANGED <<ptr, live, m_data, m_size, bytes, row, params, given, call>>

(***************************************************************************)
(* binarystring.                                                           *)
(***************************************************************************)
\* PQunescapeBytea(): here a backslash and a character stand
\* for the zero byte.
RECURSIVE Unescape(_)
Unescape(s) ==
  IF s = <<>> THEN <<>>
  ELSE IF s[1] = "\\" /\ Len(s) > 1
       THEN <<"nul">> \o Unescape(SubSeq(s, 3, Len(s)))
       ELSE <<s[1]>> \o Unescape(Tail(s))

\* A freed buffer holds nothing.
Kept(p) == [d \in Buffer |-> IF p.frees[d] > 0 THEN <<>> ELSE bytes[d]]

\* binarystring(const field &).
FromField(b, d, i) ==
  /\ b \notin live /\ row # NoRow /\ i < row_size(row) /\ Making
  /\ d \notin {ptr.obj[g] : g \in Handle} /\ ptr.frees[d] = 0
  /\ live' = live \cup {b}
  /\ bytes' = [bytes EXCEPT ![d] = Unescape(c_str(row, i))]
  /\ ptr' = assume_ownership(ptr, b, d)
  /\ m_size' = [m_size EXCEPT ![b] = Len(bytes'[d])]
  /\ row' = NoRow
  /\ UNCHANGED <<m_data, it, params, given, call>>

\* binarystring(const std::string &), and from memory: as many bytes as given,
\* zero bytes among them.
FromBytes(b, d, data) ==
  /\ b \notin live /\ row = NoRow /\ Making
  /\ d \notin {ptr.obj[g] : g \in Handle} /\ ptr.frees[d] = 0
  /\ live' = live \cup {b}
  /\ bytes' = [bytes EXCEPT ![d] = data]
  /\ ptr' = assume_ownership(ptr, b, d)
  /\ m_size' = [m_size EXCEPT ![b] = Len(data)]
  /\ UNCHANGED <<m_data, row, it, params, given, call>>

CopyBinary(b, c) ==
  /\ row = NoRow /\ call = NoCall /\ b \notin live /\ c \in live
  /\ live' = live \cup {b}
  /\ ptr' = makeref(ptr, b, c)
  /\ m_size' = [m_size EXCEPT ![b] = m_size[c]]
  /\ UNCHANGED <<m_data, bytes, row, it, params, given, call>>

AssignBinary(b, c) ==
  /\ row = NoRow /\ call = NoCall /\ {b, c} \subseteq live
  /\ ptr' = redoref(ptr, b, c)
  /\ m_size' = [m_size EXCEPT ![b] = m_size[c]]
  /\ bytes' = Kept(ptr')
  /\ UNCHANGED <<live, m_data, row, it, params, given, call>>

SwapBinary(b, c) ==
  /\ row = NoRow /\ call = NoCall /\ {b, c} \subseteq live
  /\ ptr' = swap(ptr, b, c)
  /\ m_size' = [m_size EXCEPT ![b] = m_size[c], ![c] = m_size[b]]
  /\ bytes' = Kept(ptr')
  /\ UNCHANGED <<live, m_data, row, it, params, given, call>>

DestroyBinary(b) ==
  /\ row = NoRow /\ call = NoCall /\ b \in live
  /\ live' = live \ {b}
  /\ ptr' = loseref(ptr, b)
  /\ m_size' = [m_size EXCEPT ![b] = 0]
  /\ bytes' = Kept(ptr')
  /\ UNCHANGED <<m_data, row, it, params, given, call>>

(***************************************************************************)
(* statement_parameters: nulls are kept in m_nonnull only, so the values   *)
(* have to be walked separately when they are put side by side again.      *)
(***************************************************************************)
add_checked_param(v, nonnull, binary) ==
  params' = [m_values |-> IF nonnull THEN Append(params.m_values, v) ELSE params.m_values,
             m_nonnull |-> Append(params.m_nonnull, nonnull),
             m_binary |-> Append(params.m_binary, binary)]

Pass(v, nonnull, binary) ==
  /\ live = {} /\ call = NoCall /\ Len(given) < MaxParams
  /\ add_checked_param(v, nonnull, binary)
  /\ given' = Append(given, [v |-> IF nonnull THEN v ELSE Null, binary |-> binary])
  /\ UNCHANGED <<ptr, live, m_data, m_size, bytes, row, it, call>>

marshall(p) ==
  [i \in DOMAIN p.m_nonnull |->
     LET v == Cardinality({j \in 1..i : p.m_nonnull[j]})
     IN [v |-> IF p.m_nonnull[i] THEN p.m_values[v] ELSE Null,
         length |-> IF p.m_nonnull[i] THEN Len(p.m_values[v]) ELSE 0,
         binary |-> p.m_binary[i]]]

\* invocation::exec().
Invoke ==
  /\ given # <<>> /\ call = NoCall
  /\ call' = [fn |-> "exec", out |-> marshall(params)]
  /\ UNCHANGED <<ptr, live, m_data, m_size, bytes, row, it, params, given>>

(***************************************************************************)
(* Conversions on their own.                                               *)
(***************************************************************************)
Idle == live = {} /\ given = <<>> /\ call = NoCall

Parse(t, s) ==
  /\ Idle
  /\ call' = [fn |-> "parse", type |-> t, text |-> s, out |-> from_string(t, s)]
  /\ UNCHANGED <<ptr, live, m_data, m_size, bytes, row, it, params, given>>

\* The values of a type.
Value(t) ==
  CASE t \in {"short", "ushort"} -> limits(t).min..limits(t).max
    [] t \in FloatTypes -> {<<"nan", 0>>, <<"inf", 1>>, <<"inf", -1>>}
                             \cup {<<"num", n>> : n \in Finite(t)}
    [] t = "bool" -> BOOLEAN
    [] OTHER -> Text

Format(t, v) ==
  /\ Idle
  /\ call' = [fn |-> "format", type |-> t, value |-> v, text |-> to_string(t, v)]
  /\ UNCHANGED <<ptr, live, m_data, m_size, bytes, row, it, params, given>>

(***************************************************************************)
(* Every query ends in check_result(): what the server may have answered.  *)
(***************************************************************************)
Code == DOMAIN Specific \cup {<<c, "000">> : c \in DOMAIN General \cup {"42", "57"}}
          \cup {NoCode}

Answer == [status : ErrorStatus \cup FineStatus \cup {"unknown"}, code : Code,
           message : BOOLEAN, pos : {0, 7}]
            \cup {NoResult}

Check(open, res) ==
  /\ Idle
  /\ call' = [fn |-> "check", open |-> open, res |-> res, out |-> check_result(open, res)]
  /\ UNCHANGED <<ptr, live, m_data, m_size, bytes, row, it, params, given>>

Next ==
  \/ \E h \in ResultVar :
       \/ Default(h) \/ Clear(h) \/ Destroy(h)
       \/ \E d \in ResultSet : Exec(h, d)
       \/ \E g \in ResultVar : Copy(h, g) \/ AssignResult(h, g) \/ SwapResults(h, g)
       \/ \E i \in 0..size(h) - 1 : At(h, i)
       \/ \E dir \in {1, -1} : IterateRows(h, dir)
  \/ \E b \in BinVar :
       \/ DestroyBinary(b)
       \/ \E d \in Buffer, i \in 0..2 : FromField(b, d, i)
       \/ \E d \in Buffer : FromBytes(b, d, <<"nul">>)
       \/ \E c \in BinVar : CopyBinary(b, c) \/ AssignBinary(b, c) \/ SwapBinary(b, c)
  \/ \E b, e \in 0..2 : slice(b, e)
  \/ \E i \in 0..2, t \in Types : As(i, t)
  \/ \E dir \in {1, -1} : IterateFields(dir)
  \/ \E n \in {-1, 1, 2} : Advance(n)
  \/ \E v \in {<<"1">>, <<"1", "2">>}, nonnull, binary \in BOOLEAN : Pass(v, nonnull, binary)
  \/ Invoke
  \/ /\ Idle
     /\ \E t \in Types :
          \/ \E s \in Text : Parse(t, s)
          \/ \E v \in Value(t) : Format(t, v)
  \/ /\ Idle
     /\ \E open \in BOOLEAN, res \in Answer : Check(open, res)

Spec == Init /\ [][Next]_vars

(***************************************************************************)
(* Properties.                                                             *)
(***************************************************************************)

\* Type invariant: no variable that does not exist points anywhere, the
\* shortcuts have their types, and rows lie within the result set they were
\* taken from.
TypeOK ==
  /\ live \subseteq ResultVar \cup BinVar
  /\ \A h \in Handle \ live : ptr.obj[h] = Null /\ ptr.l[h] = h
  /\ m_data \in [ResultVar -> ResultSet \cup {Null}]
  /\ m_size \in [BinVar -> Nat]
  /\ row # NoRow =>
       /\ row.home \in live /\ row.m_Index < size(row.home)
       /\ row.m_Begin \in 0..row.m_End /\ row.m_End <= columns(row.home)

\* The ring keeps the promise of a counted pointer: an object is freed when
\* the last pointer to it goes, then and only then (util.hxx, the build
\* without shared_ptr does what the build with it does).
Shared == INSTANCE SharedPtr
            WITH owns <- ptr.obj, freed <- {d \in Data : ptr.frees[d] > 0}
ImplementsSharedPtr == Shared!Spec

\* What a variable shows is what it owns: after any sequence of copies,
\* assignments, swaps and clears, the shortcut beside a pointer belongs to the
\* object the pointer holds, and that object has not been freed, nor twice.
ShortcutsInStep ==
  /\ \A h \in ResultVar \cap live : m_data[h] = ptr.obj[h]
  /\ \A b \in BinVar \cap live : m_size[b] = Len(bytes[ptr.obj[b]])
  /\ \A h \in live : ptr.obj[h] # Null => ptr.frees[ptr.obj[h]] = 0
  /\ \A d \in Data : ptr.frees[d] <= 1

\* Looking a column up by name in a slice, or in a slice of a slice, finds the
\* first column of the slice that has the name, and fails only if none has.
NamesInSlice ==
  row # NoRow =>
    \A name \in Range(Grid[m_data[row.home]].names) :
      LET in == {i \in 0..row_size(row) - 1 :
                   column_name(row.home, row.m_Begin + i) = name}
      IN column_number(row, name) = IF in = {} THEN Throws ELSE Yields(Min(in))

\* A null is never read as a value and a value never as a null: as<T>() of a
\* null throws unless T has a null of its own, and an empty text is a value.
NullsKept ==
  call.fn = "as" =>
    IF call.cell = Null
    THEN call.out = IF call.type = "cstring" THEN Yields(Null) ELSE Throws
    ELSE call.out = from_string(call.type, call.cell)

\* An iterator that has gone n places stands on the n-th row or field, counted
\* from the end it started at; it equals end() or rend() exactly when it has
\* gone all the way, also in an empty range, where rbegin() is not an index.
\* It is before the end until then, with one exception: nothing is before an
\* rend() that stands to the left of place 0.
IteratorsAgree ==
  it # NoIt =>
    LET end == Finish(it.lo, it.hi, it.dir)
        before == IF it.dir = 1 THEN less(it.pos, end) ELSE reverse_less(it.pos, end)
        there == it.steps = it.hi - it.lo
    IN /\ (it.pos = end) <=> there
       /\ before <=> ~there /\ (it.dir = 1 \/ it.lo > 0)
       /\ ~there => it.pos = IF it.dir = 1 THEN it.lo + it.steps ELSE it.hi - 1 - it.steps
       /\ it.dir = -1 => base(it.pos) = it.hi - it.steps

\* libpq gets, for every parameter, what the client passed in that place.
ParametersInPlace ==
  call.fn = "exec" =>
    /\ Len(call.out) = Len(given)
    /\ \A i \in DOMAIN given :
         /\ call.out[i].v = given[i].v /\ call.out[i].binary = given[i].binary
         /\ call.out[i].length = IF given[i].v = Null THEN 0 ELSE Len(given[i].v)

\* Reading an integer gives the number the text denotes or throws, and throws
\* on everything that is no number of the type, with two exceptions: a number
\* out of range by its last digit, and a lone minus sign.
ParsedIsDenoted ==
  call.fn = "parse" /\ call.type \in {"short", "ushort"} =>
    \/ call.out.throws /\ ~(/\ IsNumeral(call.type, call.text)
                            /\ InRange(call.type, Denotes(call.text)))
    \/ /\ ~call.out.throws /\ IsNumeral(call.type, call.text)
       /\ call.out.value = Denotes(call.text)
    \/ LastDigitOverflow(call.type, call.text)
    \/ call.type = "short" /\ call.text = <<"-">> /\ call.out = Yields(0)

\* What to_string() writes, from_string() reads back, the smallest number, the
\* infinities and every double included.  A finite float or long double is
\* printed in one digit less than tells its neighbours apart: it may come back
\* as another number, but then as one of the two next to it, and never as an
\* error.
RoundTrip ==
  call.fn = "format" =>
    LET back == from_string(call.type, call.text)
    IN \/ back = Yields(call.value)
       \/ /\ call.type = "float" /\ call.value[1] = "num"
          /\ ~back.throws /\ back.value[1] = "num"
          /\ \A n \in Finite("float") :
               ~(\/ call.value[2] < n /\ n < back.value[2]
                 \/ back.value[2] < n /\ n < call.value[2])

\* check_result(): a lost connection is reported as one whatever the result
\* says; a refused statement never passes, and is caught either as a broken
\* connection or as an sql_error that names the query.  A handler for the
\* general exception of an SQLSTATE class catches every condition of the
\* class, with the one documented exception of too_many_connections.  An error
\* without a text is the only one that passes.
ErrorsReported ==
  call.fn = "check" =>
    LET x      == call.out
        caught == IF x = NoException THEN {} ELSE CaughtAs[x.class]
        code   == IF call.res = NoResult THEN NoCode ELSE call.res.code
    IN /\ ~call.open <=> x.class = "broken_connection" /\ ~(call.open /\ code[1] = "08")
       /\ x = NoException => \/ call.res.status \in FineStatus
                             \/ call.res.status \in ErrorStatus /\ ~call.res.message
       /\ call.open /\ call.res.status \in ErrorStatus /\ call.res.message =>
            /\ ("sql_error" \in caught) <=> ("broken_connection" \notin caught)
            /\ x.query <=> "sql_error" \in caught
            /\ "in_doubt_error" \notin caught /\ "exception" \in caught
            /\ code[1] \in DOMAIN General /\ code # <<"53", "300">> =>
                 General[code[1]] \in caught

\* A row, a slice or an iterator, over whatever variable it was made from, leads
\* to the cell it names.
CellsInPlace == TypeOK /\ ShortcutsInStep /\ NamesInSlice /\ IteratorsAgree

\* A value is the same on both sides of the wire: nulls, parameters, and numbers
\* at the limits of their type, but for the last bit of a float or long double.
ValuesKept == NullsKept /\ ParametersInPlace /\ ParsedIsDenoted /\ RoundTrip
==============================================================================
