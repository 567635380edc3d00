# A verification project for libpqxx

libpqxx is the C++ client library for PostgreSQL. It is a layer of objects
(connection, transactions, cursors, streams, pipelines) over libpq, and its own
logic is about one thing: keeping what these objects say in agreement with a
backend session that may vanish at any moment, be replaced by a new one, refuse a
statement, or have done what it was asked without being able to say so.

The TLA+ modules here model that logic. TLC checks them on small instances
(the `.cfg` files), and TLAPS proves the properties that matter most for every
value of the constants (the eight modules whose names end in `Proofs`). Paths below
are relative to `src/`, the repository.

## 1. Inventory

The library is sequential: one thread per connection, no locks, no callbacks
except notification receivers and error handlers, which may call the connection
again from inside. What makes it hard is the other side. Every call
that talks to the backend can end in at least four ways: done; refused; not done
and the link lost; done and the link lost. And the client need not notice the loss
at once.

| Component | State | Operations | Hard behaviours | What makes it correct |
|---|---|---|---|---|
| `connection_base` (`src/connection_base.cxx`) | `m_Conn` (none, BAD, OK), `m_Trans`, `m_inhibit_reactivation`, `m_reactivation_avoidance` | `activate`, `deactivate`, `disconnect`, `Exec`, `get_notifs` | implicit reconnection; loss noticed late | never reconnects behind the back of a transaction; can always be restored otherwise |
| session state of `connection_base` | `m_prepared`, `m_Vars`, `m_receivers` | `prepare`, `unprepare`, `set_variable`, `add_receiver`, `SetupState` | restoring in a new session; rollback of part of it | what the object remembers is what the session has |
| `transaction_base`, `dbtransaction`, `transaction<>`, `nontransaction` | `m_Status`, `m_Registered`, `m_Focus`, `m_PendingError` | construct, `exec`, `prepared`, `commit`, `abort`, destroy | failure in mid-transaction, lost COMMIT, blocks left behind | all or nothing; the outcome reported is the outcome in the database |
| `robusttransaction` (`src/robusttransaction.cxx`) | `m_record_id`, `m_xid`; the log table | `do_begin`, `do_commit`, `do_abort` | the old backend still at work while the client asks for the outcome | "committed" and "aborted" are true and stay true |
| `pipeline` (`src/pipeline.cxx`) | `m_queries`, `m_issuedrange`, `m_num_waiting`, `m_error`, `m_dummy_pending` | `insert`, `complete`, `flush`, `cancel`, `retain`, `retrieve` | several results in transit; a refused batch replayed | each query run at most once, in order, and given its own result |
| `sql_cursor`, `stateless_cursor` (`src/cursor.cxx`) | `m_pos`, `m_at_end`, `m_endpos` | `fetch`, `move`, `retrieve`, `close` | off-by-one at either end; adopted cursors | the position is the true one; the rows are those asked for |
| `icursorstream`, `icursor_iterator` (`src/cursor.cxx`) | `m_realpos`, `m_reqpos`, the iterators | `get`, `ignore`, `++`, `*` | several iterators on one forward-only stream | each shows the block at its position |
| `tablewriter`, `tablereader` | `m_Finished`, `m_Done`, focus, the COPY in progress | write, close, destroy | an error in a destructor; escaping | round trip of every line; no COPY left open |
| `subtransaction`, `transactor` | savepoints; a retry loop | begin, commit, abort; `perform` | savepoints set late; a retry after a commit in doubt | nested all-or-nothing; no work done twice; the retries end |
| connection policies (`src/connection.cxx`) | `m_Conn`, `m_connecting`, `m_Completed` | `do_startconnect`, `do_completeconnect`, `do_dropconnect`, `do_disconnect` | an attempt that fails at any stage | a handle that is usable or none; every handle finished |
| `notification_receiver`, `errorhandler` | `m_receivers` (a multimap), `m_errorhandlers` (a list), each object's pointer home | register, remove, `get_notifs`, `process_notice`, `close` | callbacks that change the container being walked, or start another walk | each one there throughout is called once; none that is gone is |
| `result`, `row`, `field`, iterators | a shared `PGresult`, `m_data` beside it; positions | copy, assign, swap, clear; `at`, `slice`, `column_number`, `as` | shortcuts out of step; slices; unsigned indices below zero | a position leads to its cell; a null is a null |
| `PQAlloc`, `refcount` (`util.hxx`) | a ring of owners | `makeref`, `loseref`, `swap` | self-assignment, the last one out | the object is freed with its last owner, once |
| `largeobject`, `largeobjectaccess`, lostreams | `m_fd`; put and get areas | open, read, write, seek; `overflow`, `underflow`, `sync` | data in a buffer at the commit; descriptors used again | what is written is stored, what is read was written |
| `strconv`, `binarystring`, `statement_parameters` | none; a shared buffer; parallel lists | conversions, `marshall` | limits of integer types, nulls between values | conversions are inverse; each parameter in its place |
| `except`, `result::CheckStatus` | none | `ThrowSQLError` | an error of one kind reported as another | the handler for a class of errors catches all of them |

Components interact by calls only: a transaction object works on the connection it
is registered with (`m_Trans`), a stream, cursor or pipeline on the transaction
whose focus it may hold; all of them share the one backend session.

## 2. Modules

| Module | Models | Built on |
|---|---|---|
| `Backend` | a PostgreSQL session as libpq shows it: the handle, the transaction block, a COPY in progress, the database (external) | |
| `Connection` | `connection_base`: activating, executing, deactivating | `Backend` |
| `Transaction` | transaction objects on one connection | `Connection` |
| `MCTransaction` | instances of `Transaction` | |
| `TransactionProofs` | theorems about `Transaction` | |
| `Pipeline`, `MCPipeline` | `pipeline` | `Connection` |
| `RobustTransaction`, `MCRobustTransaction` | `robusttransaction`, with old backends as processes | |
| `RobustTransactionProofs` | theorems about `RobustTransaction` | |
| `Session`, `MCSession` | what `connection_base` restores after a reconnection | |
| `SessionProofs` | theorems about `Session` | |
| `SqlCursor` | `sql_cursor`'s bookkeeping, without variables | |
| `Cursor` | the life of an `sql_cursor`, and `stateless_cursor` | `SqlCursor` |
| `CursorProofs` | theorems about `Cursor` | |
| `CursorStream`, `MCCursorStream` | `icursorstream` and its iterators | `SqlCursor` |
| `CursorStreamProofs` | theorems about `CursorStream` | |
| `TableText` | the text of COPY lines: `Escape()` and `extract_field()`, and the backend's reading and writing of the same lines (external); recursive operators, for TLC only | |
| `TableStream`, `MCTableStream` | `tablewriter` and `tablereader` in one transaction | `TableText` |
| `AtomicCommit` | abstract: what a `transaction<>` promises, without connections or blocks | |
| `Nested`, `MCNested` | `subtransaction` and `connection_base::perform()` with its transactor | `Transaction` |
| `NestedProofs` | theorems about `Nested` | |
| `ConnectionPolicy` | the four connection policies and what `connection_base` does with them, without variables | |
| `Observers`, `MCObservers` | receivers, error handlers, `get_notifs()`, `await_notification()`, `process_notice()`, `close()` | `ConnectionPolicy` |
| `ObserversProofs` | theorems about `Observers` and `ConnectionPolicy` | |
| `LargeObject`, `MCLargeObject` | large objects, their accesses and stream buffers; the backend's `lo_` functions (external) | |
| `LargeObjectProofs` | theorems about `LargeObject` | |
| `StrConv` | conversions between texts and numbers, truth values and floats | |
| `SqlErrors` | the exception hierarchy, and the exception a result turns into | |
| `SharedPtr` | abstract: a counted pointer (the build with `shared_ptr`) | |
| `PQAlloc` | the ring of `refcount`s that replaces it | |
| `Values`, `MCValues` | results, rows, fields, iterators, binarystrings and parameters | `PQAlloc`, `StrConv`, `SqlErrors` |

**How code becomes TLA+.** A member function that talks to the backend is an
operator from a state to the *set of its outcomes*, each with the new state and
"ok" or the exception thrown (`exec(x, ...)`, `activate(w)`). C++ control flow is
composition of these sets: a sequence is `Then` or a union over the first call's
outcomes, a `catch` rewrites the outcomes that are not "ok". An action is one call
of the client into the library with all it does, or one step of the environment
(`LinkLost`). In `RobustTransaction`, where the race is *inside* a call, a step is
one exchange with the backend, and `at` is the program counter; in `CursorStream` the
loop of `service_iterators()` takes a step for each of its commands, and `serving` is
what it still has to do.

**State.** In `Transaction`, `w` is the connection and its session, `obj[t]` the
members of transaction object `t`; `tried[t]` and `done[t]` are history: the
effects of the statements the client asked for and of those that returned
normally. An effect stands for whatever a statement does to the database. In
`Pipeline`, `s.queries` is `m_queries`, `s.first`/`s.second` are `m_issuedrange`,
`s.ran` is the history of what the backend executed. In `Session`, `s.srv` is the
backend's side and `s.defs`, `s.vars`, `s.recs` the object's. In `Cursor`, `sql` is
where the cursor really stands and `cur` what the object believes. In
`CursorStream`, rows are their numbers, so that a block can be recognised. In
`TableStream`, `wire` is what the COPY under way has in transit, `given` and `shown`
are the rows written and read, `told` records that some call has thrown, and `anew` that
a query has made the session again in mid-transaction. In
`Observers`, `c` is the connection with its policy, its handle of libpq and its
containers; `c.stack` holds a frame for every call that is waiting for a callback,
with the loop's iterator (`at`), its bound (`stop`) and, as history, those that were
there when the loop began and those it has called; `c.over` says that a commit has failed,
after which the transaction stays registered until its destructor. In `Nested`, `subs` is the stack of
open subtransactions and `perf` the state of the retry loop. In `LargeObject`, `acc[h]`
is an access with its put and get areas, `b` the backend, and `ideal` what the objects
would hold without buffers. In `Values`, `ptr` is the ring of owners, `call` the last
conversion with its outcome. A floating-point number is an integer `m * 2^e` with
`Mantissa[t]` bits in `m`, printed in `digits10 + 2` significant digits and rounded
again when it is read.

**Refinements.** `Transaction!ImplementsAtomicCommit`: the mapping takes the effects of
statements that returned normally for a transaction's work, the status of the object
for the client's knowledge, and those effects in the database that some bracketed
transaction tried for the durable ones; every call of the library is then one step of
`AtomicCommit` or none, however many exchanges, reconnections and rollbacks it consists
of. `Values!ImplementsSharedPtr`: who owns what is read off the pointers, and an object
is freed when the abstract count would reach zero; the ring is an implementation.

**Abstractions.** SQL text, results' contents, names, quoting, notices, error
messages, isolation levels, tracing and protocol versions before 9.0 (which
`read_capabilities()` refuses) are left out. A statement is an effect. Where a
condition on the client's behaviour decides whether a property can hold, it is a
constant (`Calls`, `Careless`, `Uses`, `ReadBefore`, `Liberties`, `Faults`,
`Rejects`), so that both sides can be run.

## 3. Runs

All runs pass, and check for deadlock unless said otherwise.

| Run | Instance | Result |
|---|---|---|
| `TransactionExec` | two transactions and a nontransaction, three effects; client uses `exec`, `commit`, `abort`, destruction, `inhibit_reactivation` | `TypeOK`, `OutcomeTruthful`, `SessionClean`, `NontransactionImmediate` hold, and `Transaction` implements `AtomicCommit` |
| `TransactionInhibited` | two transactions, all entry points, reactivation inhibited | `NoHalfWork` holds: with reactivation inhibited, the calls that bypass `exec()` do no harm |
| `Pipeline` | three queries of three kinds, retention up to 2; a link that holds on a nontransaction, a lossy one in a transaction | queries run once and in order, results are their own, refused queries were not run, and `BookkeepingTrue` |
| `RobustOutcome` | two robusttransactions, two rounds of waiting, fair | outcomes are true and final, records tell them, calls return |
| `Nested` | `perform()` with up to two attempts, three subtransactions up to two deep, three statements, fair | `SavepointsExact`, `PerformExactlyOnce`, and `perform()` ends |
| `Session` | one named statement and the nameless one, two definitions; a variable with two good values and a bad one; three receivers on two channels | `PreparedInSync`, `RestoredInFull`: the session is what the object says |
| `Observers` | each policy; three receivers on two channels, three error handlers, two notifications, callbacks two deep, two handles of libpq; fair | `CallbacksSafe`, `DeliveredOnce`, `ConnectionSound`, `DeliveryProper`, `CallsEnd` |
| `Cursor` | up to three rows, movements up to five or ALL, either way | position true, no contradiction, rows exact |
| `CursorStream` | up to four rows, stride up to two, three interchangeable iterators; the session may be lost between any two commands | `LookIsExact`, `StreamInStep`: each iterator shows its block |
| `TableStream` | up to two rows of two fields; in the first row every text of up to two and one characters out of a backslash, tab, newline, `n`, `N`, a digit, a letter; the null text empty or `N` | rows arrive, are read back as they were written, and no COPY outlives its stream (`WrittenIsCommitted`, `ReadFaithfully`, `StreamsInStep`) |
| `LargeObject` | two accesses, of a stream and of a plain class, buffers of two characters, in transactions that commit, abort or are lost | `OwnDescriptor`, `WritesTrue`, `ReadsTrue` |
| `Values` | three results, two binarystrings, two result sets with a repeated name, a null and no rows; integers of 5 bits, floating-point numbers of 4 and 6 bits times up to 2^5, every text of up to three of eight characters; up to three parameters; every combination of status, SQLSTATE and state of the link | `CellsInPlace`, `ValuesKept`, `ErrorsReported`, and `PQAlloc` implements `SharedPtr` |

`CHECK_DEADLOCK FALSE` is set where the client can be finished: when both
robusttransactions are over, `perform()` has returned, the connection is closed, or
the objects have been used up that the bounds allow. Several properties are
conjunctions of named parts, each of which is stated and explained in its module.

**Why the bounds suffice.** Three transactions are one more than the two that a
leftover block involves, and one is of the other class; three effects let one
transaction have work before and after a failure while the next has some too.
Three queries are one before, one at and one after a failure, with retention of up
to two a batch of one, two or three; and three iterators are one behind, one at and
one ahead of the position read. A field of two characters has every pair of an
escape and what follows it, and next to it a separator or the end of the line; the
second row is there to be mixed up with the first. Three rows have a first, a middle and a last one;
movements of up to five go beyond either end from anywhere. Two
levels of callbacks are one inside another's loop; three receivers put two on the
channel being delivered and one behind it, which is the loop's bound. Buffers of two
characters are full, half full and empty. An integer of 5 bits has limits of two
digits, so that a third can overflow it, and its smallest value has no opposite; the
code is one template for all widths. `digits10 + 2` digits are two for a mantissa of 4
bits, where three are needed to tell all neighbours apart, and three for one of 6 bits,
where three are enough: the case of `float` and `long double`, and that of `double`.
The proofs of section 4
show that for `Transaction` (exec-only clients), `Cursor`, `CursorStream`, `Session`,
`Nested`, `Observers`, `LargeObject` and the safety of `RobustTransaction` the bounds hide
nothing.

`MaxHold = 2` stands for the twenty rounds of `CheckTransactionRecord()`: one in
which the old backend is still there and one that is the last. `QidLimit` is kept
above the number of queries inserted; `MaxAvoid` bounds the avoidance count,
`MaxPos` the position requested of a stream, `MaxOps` in `Observers` what one callback
does, `MaxSent` the notifications, `MaxDepth` the nesting (a handler called in a callback's
`commit()` makes no calls of its own in the run; the theorems are about any depth). `Watched` names the policies
whose connections get receivers and handlers: their delivery does not depend on the
policy.

**Fairness.** `RobustOutcome`: the steps of a call under way are weakly fair (the
thread runs on), and so is the end of an old backend's session: the server notices the
lost client or finishes its COMMIT. `Nested`: the client's thread runs on
(`WF(Program)`); the link may fail at every exchange of every attempt, and `perform()`
ends nevertheless, because attempts are counted. `Observers`: the library's steps and the
callbacks' returns are weakly fair, and a callback that opened a transaction gives it up
in the end; nothing is assumed of the network, of the server or of the client.

**Mutants.** Next to each definition that a property depends on there is a mutated
form of it (`abort_NoRollback`, `adjust_AlwaysSteps`, ...), a plausible bug with
which TLC finds the property violated.

## 4. Proofs

`TransactionProofs` proves, for any sets of transactions and effects,

    Calls \subseteq ExecOnlyCalls  =>  (Spec => []P)

for `TypeOK`, `NoHalfWork`, `OutcomeTruthful`, `SessionClean` and
`NontransactionImmediate`, where `ExecOnlyCalls` are the entry points that pass
through `transaction_base::exec()`. The restriction is needed: with `prepared()`
the properties are false (section 5). None of them is
inductive. That a transaction's work is not half in the database depends on what
the session holds, which no property mentions; so the inductive invariant `ExecInv`
adds: the block of the session belongs to the active transaction of class
`transaction`, or there is none (`BlockMatches`); what is in the block is work that
this transaction tried, and contains all it has done; work that is not in the block
is durable only for a transaction that is committed or in doubt; nothing is tried by
two transactions; and no stream, pending error or held cursor exists (`Plain`). The
heart of the induction is a lemma for each operator about *all its outcomes*: an
`Exec` either leaves the session as the statement says or leaves no block at all.

It also proves that the detailed specification implements the abstract one,
`Spec => ImplementsAtomicCommit`, for the same clients. The initial state maps to
`AtomicCommit`'s, and a call that changes a `transaction<>` is one of two things
(`AtomicSound`): it leaves outcome and database alone and adds at most one statement to
the transaction's work, or it is the call that answers, and then the database has all
of that work, none of it, or, in doubt, either. That the mapped database changes by
exactly this needs `ExecInv`: effects belong to one transaction each, and what a
committed block holds is exactly what was done.

`CursorProofs` proves `TypeOK`, `PositionTrue`, `NeverInconsistent` and
`RetrieveExact` for result sets of any size and movements of any distance, from
`MaxRows \in Nat` and `All > MaxRows + 1`. `PositionTrue` is not inductive because
`adjust()` decides by `m_at_end` whether a short move made the extra step off the
end. `Tracks` relates the two: a known position is the true one; `m_at_end` at an
end implies that the cursor is there, and, if the position is known, the converse;
a known end implies a known position. It does not mention whether the SQL cursor is
still alive: without it nothing moves. The rows of `retrieve()` follow from the
position after its three movements.

`RobustTransactionProofs` proves `RobustOutcome`, `RecordsTrue` and the action property
`DecidedForGood` for any set of robusttransactions, any number of rounds of waiting,
with and without reconnection. What the client is told is read off the log table, and
the table off the block in which the record was deleted, so the inductive invariant
`RobustInv` ties three things to the place in the code: the status of the transaction
(`Stages`), the block of the session (`Blocks`: wherever a COMMIT can be sent, the block
has deleted the record), and for each transaction (`TxSound`): a backend that is still
committing belongs to a transaction the client has not been told about, and a record
that was visible stands until its transaction is in the database. One lemma about
`DirectExec()` gives everything an exchange can leave on the server.

`SessionProofs` proves `PreparedInSync` for every client, `Careless` or not, and
`RestoredInFull` for `Careless = {}`; section 5 has the cases without. `RestoredInFull` is
not inductive for three reasons. A rollback brings old variables back, so the invariant
says what the session has saved (`SetUp`) as well as what it has. The batch of
`SetupState()` succeeds as a whole or not at all, so every value remembered must have been
accepted once (`Accepted`). And what an open transaction has set must still be in its
session (`Whole`), which a call that threw may leave untrue.

`CursorStreamProofs` proves `StreamInStep` and `LookIsExact` for any number of iterators,
any stride and any result set, if no iterator is created behind what was read
(`ReadBefore = FALSE`, section 5). That reading for one iterator leaves another with the
right rows depends on what neither property mentions: that iterators and the
requested position are whole strides apart, so that the blocks do not overlap (`Spaced`);
that the `sql_cursor` below counts truly (`Tracks`, a weaker form of `Cursor`'s that
suffices to go forward); and that an iterator which is not on the list of a
`service_iterators()` under way is not between the stream and its goal (`UnderWay`). An
exception in the middle leaves the rest of the list unserved and not passed, which is
why no property has to except it.

`LargeObjectProofs` proves `OwnDescriptor` for any number of accesses and objects and
buffers of any size, if the client destroys its accesses before their transaction ends
("outlive" is not in `Careless`). Three things are needed that it does not say
(`DescriptorInv`): until a failure is reported the session has its block, since a call
that fails rolls the block's descriptors back and must be told; the descriptors are
finitely many and numbered from zero, so that the one `lo_open()` gives is new
(`NextFd`); and no access is left over between transactions, whose descriptor a later
transaction could be given for another object. What the objects contain plays no part.

The same module proves `WritesTrue` and `ReadsTrue`, for objects of any contents and
length, for a client that does nothing that `Careless` lists (section 5 has what happens
otherwise). A buffer is right if its two areas, the place of its descriptor and the
object stored agree, of which neither property says enough. `ContentsInv` has four parts:

* `PartsInOrder`: each part of the state by itself. An area holds no more than its size,
  and a stream has something to write only when all that was read ahead is taken;
* `IdleInOrder`: between transactions nobody has an access;
* `AccessesApart`: in an open block each access has an object and a descriptor of its own,
  and its place is within the object;
* `ContentsKnown`: as long as nothing has failed, an object with the put area laid over it
  at the descriptor's place (`Whole`) is the object as it would be without a buffer; the
  place there would be is the descriptor's, moved forward by the put area and back by what
  is read ahead; and what is read ahead is the text in between (`Matches`).

The proof goes from the calls of the backend (`WriteCall`, `ReadCall`, `SeekCall`) over the
stream buffer (`OverflowWorks`, `SyncWorks`, `PutWorks`, `UnderflowWorks`, `BumpWorks`,
`SeekWorks`) to the actions, all by lemmas on texts laid over texts (`Place`). Two
arguments are common to the actions: a step of one access leaves the others alone
(`StepContents`), and opening and closing change only what the access has (`ChangeContents`).
A destructor does not report a call that is refused, but the call has failed the block,
and nothing that the destructor does afterwards opens it again: an open block that commits
has lost nothing (`silent` implies that the block is not open).

`ObserversProofs` proves every safety property of `Observers`, for any number of receivers
and handlers, callbacks nested to any depth and any number of notifications.
`ConnectionSound` is proved from `Faults = {}` (the two failures of section 5 after which
a handle is left behind or kept) and a libpq that can have a connection at all
(`Handle # {}`), for callbacks of every kind. The invariant `HandleInv` says that the handle in
`m_Conn` is the only one in use, and that without a live object there is none. It is
carried through by a lemma for each operator of `ConnectionPolicy` about all its outcomes;
the heart is `ActivateFacts`: `activate()` ends with an open connection, or with no handle
and no attempt under way. From that every policy but the null one can connect
(`RetrySucceeds`), which is `Recovers`. Callbacks may call the connection again at any
depth: what they do to the containers does not touch the handle (`Keeps`), and the
library's own loops make no connection (`Quiet`), so that none appears after `close()`.

`DeliveredOnce` and the action property `DeliveryProper` are proved from `Liberties = {}`,
and `CallbacksSafe` from `Faults = {}` as well. They say what the innermost loop has
called and when; but that loop runs while others wait for their callbacks, and what one
callback creates or destroys moves the ground under all of them. So the invariant
`CallsInv` is about every call on the stack (`Serves`, `Sits`), and says where its two
iterators stand: a delivery owes a call to exactly the receivers from `at` up to `stop`,
and has made one to all that were due before `at` (`Delivers`); the same, backwards, for a
message among the handlers (`Reports`), whose bound is the oldest handler. A receiver that
comes or goes elsewhere keeps that true because it leaves the order of the others alone
(`DeliversKept`, `ReportsKept`); that it comes elsewhere is because `m_receivers` is
sorted by channel, and is what the liberties take away. That no receiver is called in a
transaction depends on whose transaction is open: who opened it ends it, so that `trans`
and a call's place in the stack tell whether it was there before the call (`Sits`). All
calls but the innermost are in a callback, and what is nested in a delivery is nested in a
receiver (`Stacked`). What only concerns the handle leaves all this as it was (`Same`), so
connecting and losing the link are done with in a few lines. Underneath are the facts
about the containers: searching, the place of an iterator, its successor, `insert()`,
`erase()` and `lower_bound()`. They hold for sequences of any length without an induction
over them (that a search finds the first place is that numbers are well-founded): a
sequence that lists each element once is determined by who stands before whom
(`SameOrder`).

`NestedProofs` proves two theorems. The first is `PerformExactlyOnce`, for any number of
attempts, statements and subtransactions, nested to any depth, whatever the body leaves
open when X commits, and a backend that may refuse savepoints (every value of `Rejects`),
if subtransactions are used with reactivation inhibited ("uninhibited" is not in
`Liberties`): otherwise a savepoint command can open a new session in the middle of X,
whose statements are then durable at once (section 5). The property counts what has landed
in the database; the invariant `NInv` says why. What is durable is of a transaction whose
outcome is decided (`Landed`); at most one is, and where `perform()` stands tells whether
one is (`Stage`); the block of the session, if there is one, is that of X, which is
active, and all work in it or in its savepoints, which a ROLLBACK TO could bring back, is
X's (`Block`). Two relations carry the induction: `Goes`, what every savepoint command and
every statement does to a block (it goes on with X's work, or is lost with its session),
and `Idle`, what ROLLBACK and a failed BEGIN leave. COMMIT is the one command that
satisfies neither, and the one action after which an outcome is decided.

The second is `SavepointsExact`, of a body without liberties and a backend that refuses no
savepoint command for reasons of its own (`Liberties = {}`, `Rejects = {}`): each liberty
and each refusal alone breaks it (section 5). `NInv` does not know which savepoint is
whose, so a second invariant, `SInv`, says so. The subtransactions in scope are a stack
(`IsStack`): each is opened in one that is active, under a name above all that are in use
(`FreshAbove`). While the session lives the block agrees with it (`Agrees`): it holds the
work of X and of every subtransaction that has not been rolled back (`Level`, `Top`), and
the savepoint of each active one holds the work below it in the stack. Savepoints are
sorted by name, so `ROLLBACK TO` and `RELEASE` find just one (`FindOne`), and those around
it stay (`Carries`). So a call of the innermost subtransaction is about its own savepoint
only (`Inner`, one lemma per call), and the rest of the stack follows (`ReshapedAgrees`,
`DroppedAgrees`, `OpenedStack`). The link and the statements may fail anywhere.

Assumptions are the named `ASSUME`s on constants; TLC evaluates them in the runs. Each
inductive invariant was checked by TLC on the run's instance before it was proved.

**Only model-checked:**

* liveness (`CallsReturn`, `PerformEnds`, `CallsEnd`), which is out of the prover's reach;
* `TableStream` and `Values`: what the recursive operators of `TableText`, `StrConv` and
  `Values` compute for every input is induction over data, also out of reach, and so is
  the ring of `refcount`s behind `ImplementsSharedPtr` (reachability along pointers);
* `Pipeline`: its loops over queries and results, and the replay of a batch, are folds
  inside one action, and a fact about a fold is an induction too.

## 5. Disagreements met while modelling

What the code does and a comment or a document denies. The properties of the runs
exclude these cases, by a constant named here or by a condition in the property; with
the constant set otherwise TLC shows the case.

**Transactions, pipelines, cursors, streams.**

* `connection_base::activate()` does not look at `m_Trans`
  (`src/connection_base.cxx:182`). If a prepared statement inside a transaction fails
  with the link, the handle is dropped and the transaction stays active; its next call
  reconnects and runs outside any block, so that part of the work is committed at once
  (`Calls` with "prepared", `Inhibited = FALSE`: `NoHalfWork` fails). `dbtransaction.hxx:44`:
  "In no case will it leave half-finished work behind in the database.";
  `connection_base.hxx:199`: connections are restored "for reasons of integrity, never
  inside a transaction".
* If the log record cannot be created outside the transaction (at the first use there
  is no log table), `do_begin()` creates it inside, where it is never visible to
  anybody (`src/robusttransaction.cxx:60`). A COMMIT lost and rolled back is then
  reported as successful. The comment at line 130: "If the transaction record still
  exists, the transaction failed. If not, it succeeded." `RobustOutcome` is stated for
  records that were visible (`visible`).
* The constructor of an owned WITH HOLD cursor raises the reactivation avoidance count
  and `close()` does not lower it; an adopted owned cursor lowers it twice
  (`src/cursor.cxx:152`). The connection can then not be deactivated or restored, though no
  cursor exists; `cursor.hxx:94` says that this is so "As long as any "loose" cursor
  exists".
* `transaction_base::prepared()` (`src/transaction_base.cxx:293`) does not abort
  the transaction when the statement fails. The block is doomed, and `commit()`
  returns normally though the backend rolls back.
* A pending error registered by `~tablewriter` makes `DirectExec()` throw, so the
  `abort()` that follows sends no ROLLBACK (`src/transaction_base.cxx:406`), and
  the next transaction inherits the block. `dbtransaction.hxx:98` says "Executes a
  ROLLBACK statement".
* `pipeline::flush()` does not reset `m_error` (`src/pipeline.cxx:123`). A batch of
  a pipeline is one implicit transaction, so that in a nontransaction a query whose
  result was retrieved may still be rolled back. If `PQcancel()` fails, results of
  cancelled queries go to later ones. The query with id `qid_limit()` is refused as
  if an earlier one had failed.
* `basic_robusttransaction`: the advice in the warning (`src/robusttransaction.cxx:149`)
  is the reverse of the comment at line 130. The user name is not quoted in the query
  for the record (line 323; constant `UserParses`). A ROLLBACK that fails leaves the
  record. The branch for servers up to 8.3 is dead.
* `unprepare()` reads `registered` before `Exec()` reconnects; the DEALLOCATE is
  then refused (`src/connection_base.cxx:768`).
* `SetupState()` ignores the result of the restoring batch (line 360): a rejected
  value set while disconnected costs all LISTENs and SETs
  (`Careless = {"set_unchecked"}`).
* A receiver created in a transaction that aborts is not listened for
  (`Careless = {"receiver_in_tx"}`).
* `retrieve(size(), e)` in descending order returns row `e` as well
  (`src/cursor.cxx:300`), which `cursor.hxx:313` excludes: the start would have to be
  two positions after the last row, where an SQL cursor cannot stand. `RetrieveExact`
  excludes the case.
* `Escape()` puts two backslashes before an octal number (`src/tablewriter.cxx:158`),
  so that an unprintable character arrives as a backslash and three digits; `NEWS:84`
  says "Fixed broken escaping of binary values in tablewriter". `tokenize()` stops at
  the end of the line and loses a last field that is empty but not null
  (`include/pqxx/tablereader.hxx:93`); `NEWS:324` says "Fixed tablereader handling of
  lines ending in empty fields". `Portable` excludes both kinds of rows; without it
  `RowsReadBack` fails.
* `reader_close()` does not throw when the connection is lost while the rest of the
  table is read, unless `PQgetCopyData()` has come to its end: it is a `failure`, and
  becomes the pending error of the next call (`src/tablereader.cxx:102`).
* A query after a link that a stream has lost makes the session again
  (`src/connection_base.cxx:718`): the rows of the lost block are gone, and a stream opened
  then writes outside any block. A call has thrown by then (`anew => told` in `TypeOK`), and
  `RowsReadBack` is about the session the transaction began in.
* An `icursor_iterator` created on a stream that has been read from starts behind
  what was read and sees nothing (`ReadBefore = TRUE`).
* A transaction's constructor that fails after BEGIN does not roll back
  (`src/transaction_base.cxx:341`).
* `perform()` retries on any `std::exception` (`include/pqxx/transactor.hxx:163`);
  `connection_base.hxx:650` says that only a broken connection is retried.

**Subtransactions** (`Nested`, constants `Liberties` and `Rejects`).

* The SAVEPOINT is sent with the first statement. A subtransaction opened inside one
  that has executed nothing sets its savepoint first; once it has committed, its work
  survives the abort of the outer one ("open_in_nascent").
* A subtransaction does not take its parent's focus: the parent's `commit()` is not
  refused while it is open ("open_at_commit").
* `abort()` swallows the loss of the connection in ROLLBACK TO; the parent goes on in a
  new session, outside any block ("uninhibited").
* A RELEASE that is refused leaves the block doomed, and the parent's `commit()`
  returns normally (`Rejects = {"RELEASE"}`).

**Callbacks and connecting** (`Observers`, constants `Liberties` and `Faults`).

* A receiver or handler that destroys itself in its call leaves the loop's iterator
  dangling, or makes the next handler be skipped ("destroy_current",
  `src/connection_base.cxx:623`, 402). So does one that destroys the first receiver of the
  next channel, or a neighbour in the list of handlers ("destroy_bound").
* A receiver created in a callback for the next channel is put before the loop's
  bound and is called for a notification on another channel; a handler created in the
  call of the newest makes that one be called again ("add_within"). `notification.hxx`
  speaks of receivers "of the same name".
* A callback that returns with its transaction open has further notifications
  delivered inside it ("leave_open"); `notification.hxx`: "Notifications never arrive
  inside a transaction".
* A transaction's constructor registers before its `get_notifs()`, so that the comment
  "Better handle any pending notifications before we begin" does not come true; `End()`
  unregisters before its ROLLBACK, so that notifications are delivered in a destructor. A
  callback that runs a query may be given the second notification before the first.
* `transaction<>::do_commit()` tells of a link lost at COMMIT in two notices, and the
  transaction is still registered while their handlers run (`src/transaction.cxx:49`); so
  it is after any `commit()` that failed, until the destructor.
* `PQconnectStart()` that fails at once: the handle is forgotten and not finished
  (`src/connection.cxx:121`, "start_fails"). A server that is too old makes the constructor
  throw without `close()` ("old_server"). The branch `makenew` of
  `connect_async::do_completeconnect()` reads a handle it has finished, but `activate()`
  cannot reach it.

**Large objects** (`LargeObject`).

* `underflow()` returns `*eb` as a plain `char`: a byte 0xFF at the start of a load
  looks like the end of the file (`include/pqxx/largeobject.hxx:443`), as does a read that
  failed. `sync()` puts the get area back to its start and always fails for an
  `ilostream` (line 397); `seekoff()` ignores both areas (line 406); `overflow()` empties the put
  area also when the write failed (line 425).
* The destructors ignore a `sync()` that fails (line 583); the COMMIT of the doomed block
  then returns normally. An access that outlives its transaction closes whatever has its
  descriptor by then (`src/largeobject.cxx:297`).

**Values** (`Values`, `StrConv`, `SqlErrors`).

* `absorb_digit()` adds the last digit unchecked (`src/strconv.cxx:101`; `safe_add_digit()`
  is not used): "32768" reads as -32768. `strconv.hxx:178`: "Overflows ... are also treated
  as errors". A lone minus sign reads as 0. Floats are read with trailing text.
* `to_string_fallback()` asks for `digits10 + 2` significant digits (`src/strconv.cxx:238`).
  For `double` these 17 are enough. For `float` they are 8 where 9 are needed, for an 80-bit
  `long double` 20 where 21 are: `to_string(1000.00006103515625f)` is "1000.0001", which
  reads back as another `float`. The comment above it (line 235): "so we try not to make
  him lose those last few bits". `RoundTrip` therefore claims the same value back for every
  type but these, and for these a neighbour at worst; of the run's 111 floats, two are lost
  (104 and -104).
* Nothing is less than an `rend()` that stands to the left of index 0
  (`include/pqxx/result.hxx:410`).
* `table_column()` tests `ColNum > columns()` (`src/result.cxx:323`), one too far.
* An error result without a text passes for success (`src/result.cxx:201`). Only
  `syntax_error` gets the position the server reported; its derived classes have -1, which
  `except.hxx` explains as "unknown".

## 6. Not modelled

Escaping and quoting, client encodings, tracing, error verbosity, notices' texts,
isolation levels, column types and origins, comparison of results, field streams,
imports of files into large objects, and the build system: they keep no state that
survives a call, their behaviour is libpq's, or they only change the text of a
statement. Of the finite floating-point numbers, fractions, subnormal numbers and
negative zero are left out: `StrConv` has the rounding and the precision of what a stream
prints and reads, but not where it puts the decimal point.
Threads do not occur: a connection and all that hangs on it belong to one.

## 7. Plan

Done: `Connection`, `Transaction` with proofs and its refinement of `AtomicCommit`, proved
too; `Pipeline`; `RobustTransaction` with proofs; `Session` with proofs; `SqlCursor`,
`Cursor` and `CursorStream` with proofs; `TableText`, `TableStream`; `Nested`,
`ConnectionPolicy`, `Observers` and `LargeObject` with proofs of all their safety
properties; `StrConv`, `SqlErrors`, `PQAlloc` with its
refinement of `SharedPtr`, `Values`.

What could still be proved is `Pipeline`, whose loops would first have to become steps.

`TableStream` and `Values` stay with TLC, for the reasons given in section 4.
