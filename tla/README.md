# ct-sql: models and proofs

TLA+ models of [ct-sql](../src), a header-only C++20 client for MySQL/MariaDB:
what its connection object, statement cache and retry loops do when the server
drops the session at any moment, what the retry decision computes for every
query text, what its rows read, and which of that is proved for every size of the
system.

## The system

One process, no threads of its own. A `MySqlConnection` is used by one thread;
what runs concurrently with it is the server and the network. All state is in
memory, nothing is persisted.

| component | state | operations | interacts with |
|---|---|---|---|
| `MySqlConnection` (connection.h) | the `MYSQL` handle, two statement caches, credentials and `db_`, `allow_reconnects_` | make, connect, reconnect, ping, execute, prepared(_uncached), close_statement, destructor | calls the MySQL client library; returns results in a `CtResult` |
| session state (connection.h) | `db_`; on the server: autocommit, open transaction, current database | use_database, start/commit/rollback_transaction, get_timeout | all through execute, so through its reconnects |
| retry safety (connection.h, query_parsing.h) | none | is_safe_retry_query, starts_with_any_case | decides one of the retries of execute |
| parameter binding (connection.h) | MYSQL_BIND array, a vector of string copies | bind_params_recursive | statement execution reads the buffers |
| query parsing (query_parsing.h) | none (compile time) | column extraction, keyword search, counting `?` | fixes column names and indexes of result sets |
| result sets (mysql/result_set) | text: `MYSQL_RES`, current row; binary: `MYSQL_STMT` shared with the cache, metadata, one row buffer | next, row counts, move | rows read through their result set |
| rows (mysql/row) | references into their result set | get, get_opt, copy_to by name or index | result sets |
| CtResult, StringLiteral, proxies (common.h) | a result and an error | tests, conversions | every call |
| CtSqlException (exception.h) | message, code | accessors | thrown by binary rows, for what is no time point or no decimal |

What is hard here, with the line where it bites, is the list `hazards` of
PROJECT.json: a session dropped between any two library calls, two nested retry
loops, an answer lost after the query ran, statement handles that die with
their session while a cache still holds them, errors read from a handle whose
code is older than the failure, error paths that must give back what they
allocated, results that are views of shared buffers, and index arithmetic over
query texts.

What makes each component correct:

- connection: a cached statement belongs to the session in use; a call runs the
  text it was given, a bounded number of times, returns, and reports success
  only for an answered query; handles are given back on every path;
- session state: what a transaction function returns agrees with the
  transaction's state; statements of one transaction run in one session;
- retry safety: exactly the queries that modify nothing are judged safe;
- parsing: the columns found are the columns the server will return, in order;
- result sets and rows: a row shows the record it was fetched for until its
  owner moves on; a name and an index read the column they mean, whatever type
  it has and whatever was read before, and a copy fits its target.

## Modules

| module | what it is |
|---|---|
| `RetrySafety` | `is_safe_retry_query`, `starts_with_any_case`, `to_lower` as operators over sequences of bytes, with a reference definition |
| `MCRetrySafety` | enumerates texts, one per state; the properties of `RetrySafety` |
| `RetrySafetyProofs` | no text is safe to retry |
| `QueryCall` | the contract of one query call: how often it may run, what a success means. Knows nothing of statements and sessions |
| `Connection` | `MySqlConnection`: handle, caches, `execute` and `prepared`, step by step; implements `QueryCall` |
| `MCConnection` | instances of `Connection` |
| `Session` | transactions, autocommit and the current database, on top of `Connection` |
| `MCSession` | an instance of `Session` |
| `QueryParsing` | column names and indexes, as read from the text of a query, as operators |
| `ColumnAccess` | wildcards, column maps, lookups by name and by index, proxies, the count of parameters: operators over what `QueryParsing` finds and what the server returns |
| `MCQueryParsing` | enumerates select lists, one per state, with the names the server would give; the properties of `QueryParsing` and `ColumnAccess` |
| `ParamBinding` | the arguments of a prepared query, their copies and their bind records; run as it is |
| `ParamBindingProofs` | the invariant of `ParamBinding` for any number of arguments |
| `ResultCursor` | result sets of the four kinds, their rows, and who owns what they read |
| `RecordCursor` | abstract: what `next()` promises of the records of a result; implemented by `ResultCursor` |
| `MCResultCursor` | instances of `ResultCursor` |
| `RowValues` | conversion of column values to the types asked for, their lengths and copies, over bytes |
| `MCRowValues` | an instance of `RowValues` |
| `ConnectionProofs` | the inductive invariant of `Connection`, its proof, and what follows; the retry loops: how often a call reconnects, when never, and what a success without an answer means; `Connection` implements `QueryCall` |
| `SessionProofs` | the safety properties of `Session` |
| `ResultCursorProofs` | the types of `ResultCursor`, who owns what was allocated, what a current row reads, what makes a use undefined, and that `ResultCursor` implements `RecordCursor` |
| `NumberInduction` | induction on numbers, and functions defined by recursion |
| `RowValuesProofs` | numbers in bytes, and the properties of `RowValues` for bytes, widths and buffers of any size |
| `QueryParsingProofs` | the layout of a query, and the eight properties of `QueryParsing` and `ColumnAccess` for lists of any length and any words |

### Connection

| variable | code |
|---|---|
| `link`, `errno` | `handle_`: whether its socket is open as far as the client knows, and `mysql_errno`: none, lost (`CR_SERVER_LOST`, `CR_SERVER_GONE_ERROR`) or other |
| `alive` | whether the server still holds the session (external) |
| `stmts` | the heap of `MYSQL_STMT`: free, init, prepared on this session, stale, and the text prepared |
| `cache` | `cache_` and `cache_strs_` as one function: `PtrKeys` are the addresses, `StrKeys` the string contents |
| `text` | the characters behind a key; the caller may overwrite those of `ReusedBuffers` |
| `pc`, `call`, `stmt`, `attempts`, `prepare_attempts` | the place in `base_text_query`, `base_prepared_query`, `base_prepared_query_inner`, `get_prepared_statement`, with their parameters and locals |
| `ret` | what the call returned, as the `error.empty()` tests of `execute` and `prepared` see it |
| `runs`, `answered`, `silent`, `reconnects`, `uncached` | history, read by no action's guard |

Each call into the client library is one step, because the server may drop the
session (`ServerDrop`) between any two of them; code between two library calls
belongs to the step before it. A trip to the server (`Exchange`) is answered,
rejected, lost before the server ran it, or lost after. `execute` is `TextQuery`,
`TextStore`, `TextReconnect`; `prepared` is the cache lookup (`CacheHit`,
`CacheMiss`, `NoHandle`), `StmtPrepared`/`PrepareFailed`/`PrepareLocalError`/
`PrepareReconnect` (the loop of `get_prepared_statement`), `WrongArguments`/`StmtExecute`/
`StmtLocalError`/`StoreResult` (`base_prepared_query_inner`) and
`PreparedReconnect` (the outer loop). The two overloads of
`get_prepared_statement`, and the compile-time and run-time variants of
`execute` and `prepared`, differ in types only and share their actions.

A call that gives up returns the text of `mysql_error`, and its caller takes an
empty text for success: `ErrorMessage` is "success" exactly when no error is
set. So a call whose last reconnect worked reports success although its query
was not answered; for a prepared query the result then holds a null statement.
There is a second way to the empty text. When `mysql_stmt_prepare`, `_bind_param`,
`_execute` or `_store_result` fails in the client library alone, the error is set on the
statement; the code asks the handle (422, 430, 436, 461), which has the error of before.
If that is none, the call gives up at once and returns an empty text (390, after a prepare
473): a success whose query may not have run, with reconnects or without. `PrepareLocalError` and `StmtLocalError` are
these failures, and `silent` is the history of their having met a handle without an error.

The client library is modelled by what the code can tell apart, following the
MySQL client library: a lost connection closes the socket, `mysql_real_connect`
fails on a handle whose socket is open, a new session knows no statement of the
old one, `mysql_stmt_close` on a dead link may be what discovers the loss, a
statement call may fail with an error on the statement only (`FailsLocally`).

### Session

`Session` extends `Connection`: each of `use_database`, `start_transaction`,
`commit_transaction`, `rollback_transaction` and `get_timeout` is a sequence of
`execute` calls, and a function sends its next statement when the call before
has returned (`fn`, `at`: the function and the statement it is at; `fret`: its
value). Every step of a call is a step of `Connection` and, in the same step,
what it means for the server (external): a run of the query changes the mode, the
open transaction, the current database or the durable writes (`SessionAfter`,
`DurableAfter`), the end of a session rolls back, a new one selects `db_` (`db`).
`mysql_commit` is a trip of its own, without retries. Between the functions the
user may write (`Write`), connect, switch reconnects, make and destroy the object
(`Manage`, `Make`, `Unmake`).
`last`, `began`, `promised`, `replaced`, `doubt` are history; `issued` is, too,
and bounds the writes: each is sent once.

`get_timeout` dereferences what `execute` returned without testing it. After an
error that is a null pointer; the behaviour is undefined and the function goes no
further (`TimeoutUndefined`).

### QueryParsing

`find_keyword`, `trim_bounds`, `extract_column_name`, `parse_select_columns`,
and `column_index` keep their names and take a sequence of
characters, with positions from 0 as in the code. A loop that looks for the first
or the last position is the minimum or maximum of the positions that qualify. The
code lowers each letter it compares, so a letter stands for both cases. The loop over the
positions of the list is `ReadColumns`, a recursive function of the position: a comma or
the end ends a column, which began behind the comma before it (`StartOfColumn`). Columns
go into an array whose size is counted from the commas of the whole text; `add_column`
drops what has no place there, and `FindsTheColumns` shows that nothing is dropped.

The reference is the other direction: `MCQueryParsing` writes a query from items
(table, column or expression, alias, space), whose names are known. Its constants are the
characters and the words, and `QueryAssumption` says what words are: names and aliases
without white space and punctuation, that are not the keyword AS; tables that end in a
dot; expressions of any characters, commas, dots, keywords and quotes included, that begin
and end with something visible, do not begin with AS, and in which a star is an operator or
an argument. The rest of the query is nothing, or begins with FROM. A list is as long as
an index can count.

### ColumnAccess

`columns` is what `QueryParsing` finds in a query, `fields` the names of the columns the
server returns. `has_wildcard_column` decides between a compile-time set, whose column
count and map (`ensure_populated_column_map`) have as many entries as were parsed, and
a run-time set, whose map has every name and whose `column_count()` is the size of that
map (`column_map`, `MapSize`). `IndexOfName` and `IndexChecked` stand for the getters,
`byte_length` and `copy_to` by name and by index; a name is a view (`View`), and what is
looked up is its `data`: the length is dropped, and the rest of the buffer up to its NUL
belongs to the name; `IndexThroughProxy` for the getters
without a type, whose proxy (common.h) carries an index that is checked once more. The
map of a text set and of a binary one are filled alike. A comma inside an expression
makes a compile-time set read names from behind the server's fields: what that does is
left out, and the properties exempt it.

### ParamBinding

One step per argument (`BindString`, `BindInPlace`), as in the recursion. `holder`
is `str_data_holder`; `capacity` and `storage` are what `std::vector` does with it
(external): it moves to a new block when full, and grows by any amount up to
doubling plus one. A record is good as long as the block it points into is the one
in use; short strings lie in the vector, long ones on the heap.

### ResultCursor

| variable | code |
|---|---|
| `stmt` | the `MYSQL_STMT` in the cache: whether its query gives rows, which handle, whether open, which run, where its cursor is |
| `res` | what the client library has allocated: `MYSQL_RES` of text sets with its cursor, metadata of binary ones |
| `sets` | per set `stmt_`, `result_` or `metadata_` (`own`), `fields_`, the set whose `buffer_` its `bind_` points at (`buf`), whether `column_map_` is filled (`map`) |
| `buffer` | what is in `buffer_` of each set |
| `rows` | per row its set (`bind_`, `column_map_` are references into it), `stmt_`, `fields_`, or the record of the text result |
| `got`, `undefined` | what the last step has read of a current row; whether something undefined has happened |
| `fresh`, `reasons` | history: the rows that are the current row of their result, and what the user has done |

A value is its result, record and column, so a wrong one is known wherever it comes
from. `TextGet` and `BinaryGet` stand for the getters of `text_row_base.h` and
`binary_row_base.h`, by index or by name, with the checks of `comptime_row_base.h` and
`runtime_row_base.h`; the operations that are undefined in C++ are the actions
`NextUndefined`, `CountUndefined`, `GetUndefined` and `FreedTwice`, after which
nothing happens. Rows are not assigned to each other: their reference members
delete the assignment. The statement is one: sets over different statements share
nothing. What the connection does to it from outside is `Prepared` and
`CloseStatement`.

`flags` is `bind_.is_null` of each set, the set whose flag it points at, and the set's own
`bind_.is_null_value`. The constructor clears both and the code sets neither. The client
library lets the pointer point at the record's own `is_null_value` when it fetches the first
value (`FlagsAfter`); a NULL fetched before that leaves no trace. A move copies the record:
`is_null` of the target then points at the flag of the source, and `get_opt` tests the
target's own. `bind_.buffer` is set by the constructor and `bind_.is_null` by the first
value, so the two are followed apart: a set that is moved away before it has fetched
anything, fetches there and is moved back has its own buffer and the other set's flag.

`RecordCursor` knows of a result only how many records are left and which row holds
which. It lets a result hand out its next record, or lose all that are left, and
nothing else: no record twice, none skipped, none after the last. `ResultCursor`
implements it (`HandsOutInOrder`) with `left` read off the cursor of the text result, or
of the statement for its latest run, and the rows in `fresh` as the current ones. One
exception is in the code: two sets over one cached statement share its cursor, so `next()`
of the older set takes a record from the newer one (`Take`). When a result may lose what is
left (a text result when it is freed, a run when the statement is closed or run again) is not
part of `RecordCursor`.

### RowValues

| variable | code |
|---|---|
| `record`, `platform` | what the server sent, and the compiler: whether `char` is signed, the size of `unsigned long` (chosen once) |
| `bind` | `length_`, `is_null`, `is_null_value` of the bind record |
| `buffer` | the bytes of `buffer_`; `Garbage` where nothing was written yet |
| `got` | what the last step has read, and how it was asked |

One record is read through a binary row and through a text row. An action is a getter
with the type asked for: `GetNumber`, `GetTime`, `GetString`, `GetChars`, `ByteLength`,
`CopyTo`, `CopyVector`, and `Text...` for a text row. A binary getter first fetches: the
client library writes the value's bytes at the start of the buffer, and a null behind the
characters of a string; what lay behind them stays. `parse_column` then reads as many bytes
as the type of the column, or else of the target, has (`BytesRead`), and interprets them
(`Interpreted`). A byte has `Base` values and integers have their width in bytes, so that
widths, signs and lengths differ in small instances as the real ones do. A read beyond the
buffer yields `Garbage`. Decimals are whole and have no sign; their digits are bytes. A
read of a NULL with another getter than `get_opt` parses what the buffer held before: the
model does that, and no property says what comes out.

## Runs

| run | bounds | shows |
|---|---|---|
| `RetrySafety` | texts up to 4 characters over 9, both edges of 'A'..'Z' | the comparison equals a lower-cased comparison and stays in bounds; nothing is safe to retry |
| `ReadQueriesAreSafe` (violation) | the same | "show" is not judged safe, contrary to the comments |
| `Statements` | 2 pointers (one a reused buffer), 1 string, 3 interchangeable handles, 1 attempt as in the code | types, cache soundness, open handles in use, no lost handles, the requested text runs |
| `Calls` | 1 pointer, 1 string, 2 handles, 2 attempts | bounds on reconnects, unanswered success only when exhausted or after a failure of the client library alone, no reconnect when disallowed, the contract `QueryCall`, and that every call returns |
| `Session` | 2 databases, 2 writes, 1 attempt, text queries only | what start, commit and rollback return against what is durable, autocommit restored, the database a reconnect would select, when `get_timeout` is undefined, and that every function returns |
| `RetriesAfterReconnect` (violation) | 1 attempt | reconnect without retry, reported as success |
| `QueryParsing` | 1 or 2 items of 5 names, 9 expressions or a wildcard, 4 aliases or none, table, space; FROM or not; looked-up names with nothing or " * 2" behind them | the columns found are the server's, for regular items; for the others, indexes in range and shifted to the left only, but for a dotted name that another expression ends in; wildcards are recognised; names, indexes and proxies read their column; no parameter is missed |
| `RowValues` | bytes of 2 bits, a buffer of 4 bytes, integers of 1 to 4 bytes, strings of 0 to 5, 3 platforms, 8 integer types asked for; 2 columns | numbers, times, strings, lengths, copies and NULLs arrive, in any order of reading |
| `NamesAreNoAliases` (violation) | the same | a column whose name ends in "as" is dropped |
| `ParamBinding` | up to 4 arguments | records read their own argument; one string is always safe |
| `CopiesOutlive` (violation) | the same | a second string moves the vector under a short first one |
| `ResultCursor` | 2 sets of the four kinds, 2 rows, 2 allocations, 2 runs of 2 records with 2 columns, one NULL, or of a query without rows; at most 2 of the 5 kinds of mishaps in `reasons` | a current row reads its own record; undefined use has a reason; allocations owned and freed once; records handed out in order |

Why the bounds are enough. The cache is a function on keys, and no step relates
more than two entries: two keys of one map and one of the other reach every
pair. Three handles allow one cached, one leaked and one in preparation. Handles
are interchangeable, so `Statements` uses symmetry; `Calls` checks liveness and
does not. One attempt is the code's `MaxReconnectAttempts`; two make the outer
and inner loop distinguishable in the quadratic bound. No counter needs a
constraint: the loops bound them all.

Two writes allow one kept by the wrong statement and one lost; two databases are
what makes a wrong one visible. `Session` leaves out prepared queries, `ping` and
`close_statement`, which change no session, and checks no deadlock: after an error
in `get_timeout` nothing follows.

Two columns tell what an earlier column leaves in the buffer from what the next one
writes; a third would write the same bytes. Four bytes hold every width, with one string
shorter, as long as and longer than the buffer, rooms below and above each of them, and
vector elements of two bytes that a value does not fill. The numbers are the edges of each
width, signed and unsigned. `RowValues` checks no deadlock because a record may have
columns that a getter does not apply to.

Parsing treats each item by itself, between two separators, and FROM ends the list
wherever it is found: two items show a column, the one before it and the one behind
it. Four arguments allow two strings with others before, between and behind them,
and a vector that has moved under one of them or not. Two records tell a row that
has moved on from one that has not, two columns tell the buffer's last column from
the one that is asked for, two runs an old result from a new one, two allocations
two owners. Objects and allocations are interchangeable. `FewReasons` is a state constraint: a behaviour
is followed until a third kind of mishap (a call that gave up, a statement closed, a move, an
assignment of binary sets, a row that outlives its set) has happened in it; a move there and
back, which is an assignment, is within it, and the theorems have no such bound. `ResultCursor` checks no
deadlock, as undefined behaviour ends a behaviour and objects are used once; the
parsing and binding runs end when the list or the arguments do.

The transaction properties are about one session (`replaced`): when an automatic
reconnect replaces it in the middle of a transaction, the rest runs with
autocommit on, and no return value tells. What they show is that, within a
session, `start_transaction` returns true only when it has begun nothing (its
tests are inverted), that false from `commit_transaction` means a durable
commit, and true from `rollback_transaction` that nothing was kept.

Fairness: `WF(CallStep)`, the steps of the thread inside a call, and `WF(FunctionStep)`
in `Session`, the same thread inside a function that makes several calls. A call into the
client library returns, with a result or an error (its socket timeouts are
finite), and the thread then goes on; the code takes no lock and waits for nothing
else. Nothing is assumed of the user, who need not call anything, nor of the
server, which may drop every session.

## Findings

1. `is_safe_retry_query` is false for every text (634: `||` for `&&`), so a text
   query whose result is lost is never retried.
2. A call whose last permitted reconnect succeeds does not retry and reports
   success (351; 390 and 486 in the prepared path).
3. A column whose name ends in "as" is dropped from the parsed columns
   (query_parsing.h:138).
4. The record of a short string argument dangles when a later string argument
   moves the vector (576).

The properties that hold exempt what else was met, by name: a modifying query whose
answer was lost is run again (313, 377; `MeetsContract` allows it); a statement call that
fails in the client library alone, while the handle has no error, ends in a reported success
(421-436 with 390; `silent`, in `UnansweredOnlyWhenExhausted`, `MeetsContract` and
`RetriesAfterReconnect`); a name that
ends in "from", or an expression with FROM in it, ends the list of columns
(query_parsing.h:62; `TakenForFrom`); a name with a dot, which is cut off at the dot, is
found under the index of a later expression that has an AS in front of the same text
(query_parsing.h:144; `ReadOfAnother`); a
string_view is copied to the end of its buffer (569; `open`), and one that is looked up as
the name of a column reads the column that its whole buffer names (comptime_row_base.h:159,
runtime_row_base.h:102 and the other lookups; `data`, in `LookupsFindTheName`); a move-constructed
compile-time set has an uninitialised `fields_` (binary_result_set.h:64; `Wild`); move
assignment of binary sets leaves the metadata with two owners (binary_result_set.h:81,
and 92 of the run-time variant; `assigned`). Of rows: unsigned columns are read signed,
and a type that the switch does not name, `MYSQL_TYPE_INT24` among them, is read at the
width of the type asked for, so a wider one gets another number or bytes that were left
in the buffer (binary_row_base.h:216-222 and 274; `Widened`); numbers beyond
`unsigned long` are cut off in a text row (text_row_base.h:98; `BeyondLong`); a value longer than
the buffer is read beyond it (binary_row_base.h:95, 169; `TooLong`); a vector whose last
element a value does not fill is written beyond its end (binary_row_base.h:123, `CopiesFit`);
`get_opt` misses a NULL that is the first thing a set fetches (binary_row_base.h:83,
`OptionalsKnowNull`), or one of a moved set whose flag is another's (the same line, with
binary_result_set_runtime.h:90; `KeepsFlag`, in `ReadsItsRow`). Of columns: a run-time set with two columns of one name has its last
columns unreachable by index, and by name through a proxy (runtime_row_base.h:36;
`EveryColumnHasAnIndex`, `ProxiesReadTheSame`); a question mark in quotes counts as a
parameter (query_parsing.h:234; `PlaceholdersAreBound`).
Seen and left out of the models: a moved text set forgets how many rows its
query affected (text_result_set.h:55, and 60 of the run-time variant), and the `copy_to`
by name of compile-time rows does not compile (comptime_row_base.h:300, 326).

## Proofs

`RetrySafetyProofs`: no character is in both letter ranges, so the loop skips
every character (`SkipsEverything`), stops at the end (`SkipsToTheEnd`), and a
non-empty keyword does not fit behind the end (`NoTextIsSafe`), for every
sequence of bytes. `IgnoresCase`: the comparison of a text with a
prefix, at any offset, is that of their lower-case forms, and nothing behind the end is
read.

`ConnectionProofs`: from `ConnectionAssumption` only (sets of any size, any number
of attempts), `Spec => []IInv`, and from it `TypeOK`, `CacheSound`,
`StatementInUseIsOpen`, `OnlyUncachedLeak` and `ExecutesRequestedText`.
None of these is inductive alone. `IInv` adds what the program counter says of
the locals (`LocalsOK`): a loop is only entered with attempts left, which bounds
the counters; the key being prepared has no entry, so storing one overwrites, and
loses, nothing; there is no entry when there is no object. `TextsOK` adds that
a cached statement was prepared from the text behind its key. Most steps either
leave statements and cache alone (`QuietStep`) or are a reconnect
(`ReconnectStep`, over `ReconnectEffect`: no entry is left and a handle in
preparation is untouched); the others have a lemma of their own.

`ParamBindingProofs`: from `BindingAssumption`, `Spec => []IInv`: the record of a string
points at an element that is the copy of its argument (`OfCopy`), elements are
copies of different arguments (`HolderOK`), and while there is one element it lies in
the block in use (`SizesOK` gives the block). `RecordsReadTheirArgument` follows by
what a record can point into (`DeliversOrDangles`); for `OneStringIsSafe`, two
elements would be two strings. `Len(holder)`, and not the capacity, decides this, so
any growth of the vector is covered.

`ConnectionProofs` goes on with what the loops are doing. Every step is one of a few kinds
(`StepKinds`): it advances a call, makes a turn of the outer or of the inner loop,
begins a call, or is outside of one. `FlowOK` relates the program counter to the call
that was made and to `allow_reconnects`; `NoReconnectWhenDisallowed` follows, because
a call only comes to a reconnect when they are on and nothing switches them during the
call. `CountOK` bounds `reconnects` by the turns made so far: a turn of the outer loop
pays for all those of the inner one, which gives the product (`Turns`) in
`ReconnectsBounded`. `AnswersOK` says where a call that has no answer may return
success: where `silent` is set, or the attempts of a loop are used up. Last comes
`Spec => MeetsContract`, where the contract counts the runs of a query.
A query has run at most once per turn (`RunsOK`), a success without reconnects has
passed through the fetch of its result, which only a run leads to, and every step maps
to a run, a return or a stutter of `QueryCall` (`CountSteps`, `CountTurns`,
`UserRefines`).

`SessionProofs`: from `SessionAssumption` (the queries of the functions are different,
only the one for the timeout gives rows, `USE` names one database each) the eight safety
properties of `Session`, `SessionTypeOK` included. `BaseInv` is the invariant of the
connection, the types, which statement each function has on its way (`ScriptOK`), and what
a call that has returned says of the session (`ReplyOK`: success without an answer needs
reconnects, an error is still in the handle). Each step is again of a few kinds
(`SessionKinds`): what the statement on its way has met (`Answered`, `Fails`, `Stored`,
`Reconnected`), or a step of the functions around it. `Effects` says once what a statement
does to pending and durable writes. Each property then has an invariant of its own
(`AutocommitInv`, `StartInv`, `CommitInv`, `OpenInv` and `RollbackInv`, `DatabaseInv`)
that follows it from statement to statement. `RollbackTrueKeepsNone`, for instance, needs
that on one session the transaction stays open from the statement that began it until
ROLLBACK runs (`OpenInv`), so that no write becomes durable meanwhile and none is pending
when `SET @@autocommit = 1` runs (`PendingInv`).

`ResultCursorProofs`: from `CursorAssumption`, for any number of sets, rows, records and
allocations. `TypeInv` adds to `TypeOK` that a row belongs to a set that was made, and that
a statement is only open after a run. `OwnedInv` says, until binary sets are assigned, that
what is open is owned by one live set and what is owned is open. There is one lemma per
way in which owners change: not at all (`OwnersStay`), by allocation (`OwnersMake`), by
a move construction (`OwnersMove`), by an assignment that frees (`OwnersAssign`), by the
destructor (`OwnersFree`). Without the exception it is false: `operator=` of a binary set
leaves `metadata_` with its source.

For its rows, `CursorAssumption` also says that allocations
are no numbers of runs. `CursorInv` says of a live set which result or run it was made over,
that the result of a text set is its own even after binary sets were assigned (`TextOwned`),
and of a current row that it is the one its cursor is on: of a text row by its result,
of a binary one by the statement, which several sets may share. `ReadsItsRow`
follows with `FlagInv`: until something is moved, every set has its own buffer and its own
flag, and the flag is in use exactly when a value is in the buffer; after a move `KeepsFlag`
says directly that the flag is the set's own. `CleanInv` adds that a set refers to itself or to what it owns, and a row to what
its set owns, until one of the events that are named happens; what a use can then meet is
one of the reasons (`UndefinedNeedsAReason`). For `HandsOutInOrder` a step gives a set
something to read (`StepGives`), takes from it (`StepTakes`) or drops it (`StepDrops`), each
a step or a stutter of `RecordCursor`; what no set has been given is unused (`UnusedOK`).
The proof has found a defect of the model: two arms of a CASE overlapped, at a fetch
behind the end of a closed statement, and TLC takes the first.

`RowValuesProofs`: from `ValuesAssumption`, for any base, widths and capacity, any
platforms, and records of any columns (`ColumnOK`: numbers in the range of their type). The
inductive invariant is small (`TypeInv`: every length in the bind record is a value's or what
memory held), as each property is about one step; the work is in the numbers. `NumberOfDigits`: the
bytes of a number add up to its remainder, by induction on how many are read.
`CastOfRemainder` and `CastOfExtended`: a type that is no wider keeps of the remainder,
signed or not, what it keeps of the number; `ExtendsBack`: a signed number is read back
from its own width. These are the two cases that `Widened` leaves. `Fetched` is what the
buffer holds: the value as far as it fits, and a null behind characters. The strings
follow (`SameUpToNull`: characters end at the first null, whatever is behind it), and so
does the copy of a value that the buffer holds. For `OptionalsKnowNull` no value that is
read may be `None`, so every conversion is typed.

`QueryParsingProofs`: from `QueryAssumption`, for select lists of any length and any words.
The inductive invariant, `QueryInv`, ties the three variables to each other: the columns are
those parsed from the text that the items are written as, there is a field for every item,
or as many as the table has columns, and without wildcards the fields are the names of the
items. It is not about the eight properties; each of them follows from it in one
state, by the argument below, and that is where the work is.

- The layout. `Laid` says where each item begins in the text, and that its words stand
  there (`QueryLaid`); a character of the list belongs to a word, to the AS of an item, to its
  white space or to a separator (`ItemAt`, `ItemPositions`). With that, SELECT is found at
  the start (`FirstIs`), and FROM behind the list or in an item that holds it (`LastIs`,
  `KeywordIn`).
- Item by item. `ReadNames` gives the recursive function that `ReadColumns` defines, and
  shows that the places suffice, as no more columns than commas have been read
  at any position. Between two separators the list does not grow, so without commas in
  expressions the columns are, item by item, the names read (`ItemColumns`). There are no
  more than items (`NoMoreColumns`): `IndexesStayInRange`.
- The names. `ReadsTheName`: what is read of an item is its name, if that has no AS and no
  dot in it. With nothing misread the columns are the names of the items
  (`RegularColumns`): `FindsTheColumns`. `PicksNext` says where a name that was read stands
  among the columns, so an item read under its name is found at its place or before it.
- Misread names. A name that has an AS in it is never read, because reading begins behind
  the last AS (`NoAsIsRead`); one with a dot is only read behind an AS, unless it ends in
  the dot (`DotIsReadBehindAs`, `DotAtEndIsRead`), and then it is part of the expression
  with that AS (`DotIsOfAnother`). This is the exception in `ShiftsLeftOnly`, and it was
  found here: the property as it stood, without the exception, could not be proved, and a
  list with `+ t.id` and `bas + t.id` showed TLC why.
- Wildcards. A star with its table is read as a star (`StarIsRead`), and no other item is:
  in an expression something follows the star (`StarOfItem`). `WildcardsReadAtRunTime`.
- The maps. `column_map` has the last index of every name (`MapIs`, `IndexIs`) and one entry
  per name (`MapSizeOK`), from which the three properties of lookups, indexes and proxies
  follow; that no list is longer than an index can count is used for the proxies only.
- Parameters. Every mark that the server counts is a mark (`MarksCounted`):
  `PlaceholdersAreBound`.

Induction. The library's rules take an operator, which no prover here can instantiate, so
`NumberInduction` has its own, over a set: the numbers without the property would have a
least one (`LeastElement`, from `NatLessThanWellFounded` and `WFMin`). `Recursion` gives from
it the function that a recursive definition defines, for `Power`, `Number` and `DecimalOf` of
`RowValues` and for `ReadColumns`, which are functions for this reason, and for the
concatenation of the items (`FlattenSeq`, a fold).

Only model-checked: the liveness properties `CallReturns` and `FunctionsReturn`, which are
out of the prover's reach. Every safety property that a passing run checks is proved, for
every value of the constants that its assumption admits.

## Not modelled, and the plan

Left out of `Connection`: credentials and `port_` (data that no property reads),
the contents of results, character sets and logging. Of `CtSqlException` only the
places that throw it are modelled. Build files, tests and the benchmark are not part of
the library.

Left out of the rows: floating-point numbers, fractions and signs of decimals, the
calendar arithmetic of times, the targets `tm` and `const void*`, and views
(`std::string_view`, `const char*`) that outlive the next read. Left out of result sets:
the numbers that `get_row_count` and `get_affected_row_count` return, and the names of
columns by index at run time. Of `CtResult` only what its callers test is modelled;
`StringLiteral` is text.

What is left: row counts and affected rows of sets that are moved or whose statement runs
again.
