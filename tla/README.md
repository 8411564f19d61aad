# A formal model of NGDatabase

NGDatabase is a small Objective-C framework that gives programs one interface
to several SQL engines: a connection class with helpers for querying, inserting
and fetching, a driver registry that finds drivers by URL scheme, and drivers
for MySQL and SQLite. This directory holds TLA+ models of its parts, the TLC
configurations that check them on small instances, and TLAPS proofs of the
properties that matter most for every size.

All line numbers below refer to the sources in `src/`.

## 1. Inventory: the parts of the system

| Part | Code | State it keeps | Modelled in |
|---|---|---|---|
| Connection, common part | `NGDBConnection.m` | `execFlags` (unbuffered, uncached, debug), `aliases`, `multipleInsertLimit` | `NGMySQL`, `NGSQLite`, `InsertInto` |
| MySQL connection | `Drivers/MySQL/NGMySQLConnection.m` | the `MYSQL` handle | `NGMySQL` |
| MySQL client library, protocol | `Drivers/MySQL/mysql/sql-common/client.c` | status of the handle, the link, rows on the wire, last error | `NGMySQL` |
| MySQL client library, start and end | `Drivers/MySQL/mysql/libmysql/libmysql.c`, `mysys/my_init.c`, `mysys/my_thr_init.c` | three flags, the threads' key and variables, the mutexes, the count of threads | `ClientLibrary` |
| MySQL result set | `Drivers/MySQL/NGMySQLResultSet.m` | `MYSQL_RES` pointer, `eof`, `rowIndex`, `rows`, current row | `NGMySQL`, `RowCursor` |
| Prepared statement | `NGDBStatement.m` | the query's text, the flags at `prepare:`, a reference to the connection | `NGMySQL`, its text in `QueryBuilder` |
| SQLite connection and result set | `Drivers/SQLite/*.m` | the `sqlite3` handle; per result set the `sqlite3_stmt`, `first`, `buffer`, `eof`, counters | `NGSQLite`, `RowCursor` |
| Driver registry | `NGDBSharedManager.m` | the singleton, `driverClasses`, `driverInfo`, loaded bundles | `NGDBSharedManager` |
| Insertion of many rows | `NGDBConnection.m:571-732` | the local variables of one call | `InsertInto` |
| Query builder | `NGDBConnection.m:1330-1640` | the scanner's local variables; the aliases of the connection | `QueryBuilder` |
| `update:`, `deleteFrom:` | `NGDBConnection.m:733-905` | none | as `Execute` in `NGMySQL` |
| Transactions | `NGDBConnection.m:1297-1322` | none: all three answer "not supported" | no |
| Errors | `NGDBError.m` | an immutable value with a cached description | no |

**How they interact.** A program asks `+[NGDBConnection connectionWithURL:]`,
which asks the shared manager for the class of the scheme and lets that class
connect. `query:withArray:status:` builds the text, calls the driver's
`exec:flags:status:`, gives the opaque result it returns to `createResultSet:`
and autoreleases the object. `executeSQL:` does the same and discards the
result. Result sets and statements retain the connection; the connection's
`dealloc` closes the handle. Opening a MySQL
connection starts the client library if it is not up. The only locks of the
framework are the `@synchronized` sections around the creation of the manager;
the only persistent state is the database's own.

**Which behaviours are hard.**

* *Order of calls.* A MySQL handle serves one command at a time. In unbuffered
  mode a result set owns the wire until it has been read or freed, so what one
  object does decides whether a call on another one works. Freeing is tied to
  reference counts and the drain of the autorelease pool, not to a call.
* *Failure.* The server or the link may fail in every read. Rows may be lost in
  the middle of a result; an insertion of many rows is several statements with
  no transaction around them.
* *Stale state.* A buffered SQLite result set runs its query twice, and the
  table may have changed in between. A prepared statement saves flags that it
  does not use.
* *Concurrency.* Several threads may create the manager; plug-ins take schemes
  over from one another, fail, or raise an exception out of `-init`. Several
  threads may also open the first MySQL connection, and so start the client
  library, which takes no lock before it has started; or end it while others
  are still on their way out.
* *Text read twice.* A prepared statement is scanned when it is prepared and,
  as the first scan left it, each time it is executed.

`PROJECT.json` lists every one of these at its line, with the property that
would catch it going wrong.

**What makes each part correct.**

* Connection, client library and result sets: one reader of the wire at a time,
  each row delivered once, in order and to its own result set; the handle is
  closed with the last of its users, at no step of a `dealloc` before; a refused
  command has a visible reason and becomes possible again; errors are reported.
* SQLite result sets: rows come in scan order and none twice, rows that stay in
  the table are all delivered, counts are right; the handle is closed with the
  last of its users, after their statements.
* Insertion: rows are stored in order and once, YES means all of them, a
  failure leaves at most one statement in doubt, values land in their columns.
* Registry: nobody uses the dictionaries while another thread fills them, the
  built-in driver is always found, both dictionaries agree, no class comes from
  an unloaded bundle, and nobody waits for ever.
* Query builder: each parameter appears once, quoted, where its placeholder was;
  no character is lost or read twice, however quotes and brackets nest (the
  code loses the closing bracket of an array suffix, and no other); a
  prepared statement means what the same statement means when executed at once.
* Start and end of the client library: nobody uses a mutex that does not exist,
  nor the threads' key, except threads that end late; a handle is handed out
  only when the library is complete, every thread is counted once, and nobody
  waits for ever.

## 2. Modules

In the order in which they were planned: the connection and its result sets
carry the framework's core promise, so they come first.

| Module | What it is |
|---|---|
| `RowCursor` | abstract specification: what a result set promises, whatever the driver |
| `NGMySQL` | one MySQL connection, its handle, result sets, a statement and the program |
| `NGMySQLProofs` | theorems about `NGMySQL`, refinement of `RowCursor` included |
| `InsertInto`, `InsertIntoProofs` | one call of `insertInto:values:status:`, and its theorems |
| `NGDBSharedManager`, `MCNGDBSharedManager`, `NGDBSharedManagerProofs` | the registry, an instance with five drivers, its theorems |
| `NGSQLite`, `MCNGSQLite`, `NGSQLiteProofs` | one SQLite connection with its result sets over a changing table, and its theorems, refinement of `RowCursor` included |
| `StatementCalls` | abstract specification: what a program may expect of the statements it has executed or prepared |
| `QueryBuilder`, `MCQueryBuilder` | the scanner of SQL statements, a set of statements for TLC |
| `QueryBuilderProofs`, `QueryMeaningProofs`, `Flattening` | its theorems: characters and parameters; what statements mean, refinement of `StatementCalls` included; and the lemmas about joined sequences they need |
| `ClientLibrary`, `ClientLibraryProofs` | how the MySQL client library is started and ended by several threads, and its theorems |

Definitions whose comment begins with *Mutant* are not part of any
specification. Each states a plausible mistake in the definition that follows
it; substituted for that definition, it makes the property named in
`PROJECT.json` fail, which shows that the property depends on that line of the
code.

### NGMySQL and RowCursor

| Variable | Code |
|---|---|
| `open` | the `MYSQL` handle has not been closed |
| `refs`, `held` | the retain count of the `NGMySQLConnection`; the program owns one of its references |
| `unbuffered` | `NGDBEF_Unbuffered` in `execFlags` |
| `mysql` | `MYSQL`: `link` (`net.vio` or not), `status`, `owner` (whose `MYSQL_RES` is attached), `size` and `unread` rows of the current result, `errno` |
| `rs[r]` | an `NGMySQLResultSet`: `kind` (stored or streamed), `ptr` (`result` is not `NULL`), `eof`, `fetched`, `rowIndex`, `row`, `rows`, the rows left in its own buffer, and who holds it |
| `stmt` | an `NGDBStatement` and its saved flag |
| `ret` | what the last call returned and stored through `status` |
| `pc`, `object`, `draining` | what the thread is in the middle of: the rows of a helper, a step of the `dealloc` of `object`, the drain of the pool |

A row is its number. `RealQuery`, `StoreResult`, `UseResult`, `FetchRow` and
`Freed` are the client library's functions as sets of outcomes: any command may
be answered with an error, any read may find the link broken, and a command
sent while rows are on the wire is refused as out of sync. `Exec` is
`exec:flags:status:` on top of them. The actions are the framework's calls
(`Connect`, `SetUnbuffered`, `Query`, `Execute`, `RowForQuery`, `RowsForQuery`,
`Prepare`, `StatementExecute`, `StatementQuery`, `MoveNext`) and the changes of
retain counts (`Retain`, `Release`, their counterparts for statement and
connection, and `DrainPool`). The classes are used by one thread (they have no
locks and no thread state), so most calls are one action. What that thread does
in several steps worth telling apart is cut there, and goes on by itself
(`GoOn`) before the program makes another call:

* `rowsForQuery:` and its likes query (`RowsForQuery`) and then read row by row
  until `moveNext` says NO (`ReadOn`); what they answer is decided there.
* The `dealloc` of a result set frees its result (`FreeResult`,
  `NGMySQLResultSet.m:68`) and then releases the connection
  (`ReleaseFromResult`, line 72). The order is a table of its own,
  `DeallocSteps`, so that the wrong one can be put in its place.
* The pool lets go of its objects one after the other, in any order
  (`PoolReleases`, `PoolReleasesStatement`, `PoolDrained`).

The connection only counts: a result set or a statement that is created adds one
to `refs`, whatever lets go takes one away, and `LetConnectionGo` closes the
handle when the last one goes. That the count is the number of objects that have
the connection is not written anywhere in the model; it is what
`ClosedWithLastUser` says of it and the invariant `CountOK` proves.

`owner = Orphan` stands for a result nobody points to any more: `executeSQL:`
hands what `exec:` returned to `freeResult:`, which the drivers do not
override (theirs is called `freeResultSet:`, which nobody calls).

`RowCursor` says what the header `NGDBResultSet.h` promises: rows one at a time
and in order; an announced end is final; a buffered cursor ends only when all
rows were handed out, while a streaming one may stop early; cursors do not
disturb one another. `NGMySQL` implements it through `CursorOf`, for every
result set at once.

### NGSQLite

`table` is the set of keys of the rows, in scan order. `After(at)` is what
`sqlite3_step` finds when it is asked for the row after `at`: SQLite computes
rows as they are asked for. A buffered result set is created by counting all
the rows and resetting the statement (`NewResultSet`, lines 69-84 of the result
set); an unbuffered one already stands on its first row. `Execute` and the
foreign process change the table between any two calls; the latter needs that
no statement of the connection stands on a row (SQLite's shared lock, rollback
journal). `seen`, `kept` and `disturbed` are history: the rows delivered, the
rows in the table ever since the query, and whether the table has changed.

The connection is counted and the pool drained as in `NGMySQL`. `dealloc`
finalizes the statement (`FreeResult`, `NGSQLiteResultSet.m:97`) and then
releases the connection (`ReleaseFromResult`, line 101); with the other order
(`DeallocConnectionFirst`) the last release closes the handle under a statement,
which SQLite refuses. `conn = "lost"` is a handle whose close was refused; it
comes about, but only after `executeSQL:` has forgotten a statement (`leaked`).

`MoveNext` is the method as it stands: called after the end, it would step the
statement once more, and SQLite would start the scan again (`From`). `ReadNext`,
the action of `Next`, adds what every loop of the framework does and the model
assumes of the program: it stops at the first NO.

`CursorOf` maps a result set to a cursor of `RowCursor` for as long as the table
is as the query found it; a change of the table drops the cursor, because what
SQLite promises then is weaker and is stated by the other properties. The two
drivers so share one specification of what a program may expect of them.

### InsertInto

One behaviour is one call. `call` holds the arguments, `n` the index of the
entry the loop has reached, `first`, `klist` and `sqllist` are the method's
locals, `table` is what the server has stored. A tuple remembers the entry it
comes from, the order of its values and the column list written before it. A
statement (`Exec`) may fail after the server has stored any number of its rows;
a malformed one always fails. A dictionary is reduced to the order in which
`allKeys` lists its keys.

### NGDBSharedManager

Each thread has a program counter `pc` and the registration `job` it carries
out. Taking the lock, each write into one of the two dictionaries, each visit
of a bundle, and the end of a registration are separate steps, so that threads
interleave as in the code. A malformed `Info.plist` raises after the good
schemes before it have been entered; the exception leaves `@synchronized`,
which releases the lock. `MCNGDBSharedManager` gives the drivers their schemes:
a built-in one with two, a plug-in that takes one of them over, one that
registers nothing, one that raises, and one without a class. Which of the
plug-ins lie in the folders that `-init` visits differs from one initial state
to another: where the one that raises does, initialisation is cut short, and
where it does not, it comes to its end.

### QueryBuilder

A behaviour is a program that gives aliases, executes a statement at once,
prepares it, and executes the prepared one, with a scan of the text in each of
these calls. The variables of the scanner are those of `intersperseQuery:`: `s`
(start of the text not yet copied), `e` (the next character), `q` (the quote or
bracket that is open), `n` (parameters used) and `tarray`, the pieces of the
result. A piece has its text, the positions of the query the text was made from,
and its kind: copied, a quoted name, or a parameter. `ret` is what they join to.
One action is one branch of the loop: `OpenQuote`, `CloseQuote`, `InsideQuote`,
`CloseBracket`, `CloseBrace`, `Placeholder`, `TooFewParameters`, `Ordinary`, and
`Finish` for what follows the loop. Characters are named for what the scanner
does with them, and a quoted parameter is a single symbol. What the program
means is kept apart from what the scanner sees: `Statements` are sequences of
units (text, parameter, name, table, array suffix), `Text` writes them down, and
`SQL` is the reference definition of the result, taken from the units without
looking at characters. `WellWritten` is the syntax of a unit, so that a text has
the units the program means: a bracket that meets its own kind before its
counterpart is text, brackets around digits only are an array suffix, and only
the last unit may leave a quote open. It excludes no text (theorem `AnyText`).

A statement's text is scanned twice when it is prepared. `Intact` says when the
second scan can still find what was meant: there is no array suffix (the first
scan leaves its bracket open), no name holds a double quote unless it is quoted
as a whole, and the names the connection itself puts in, those of the aliases
and the `Qualifier` (the database and a dot), are quoted properly.

`StatementCalls` says what the calls promise to a program that knows nothing of
the scan: a call takes a statement as a whole and gives one answer. The first
unit at fault decides it (a placeholder too many, nil; a table without a name,
the exception); without one it is the SQL the statement stands for, with the
aliases of now or, for a prepared statement, of then. What SQL and faults are is
left to the constants of the module; `QueryBuilder` gives them their meaning and
implements the specification through `Calls`, where the steps of the loop are
invisible and its end is the answer.

### ClientLibrary

`mysql_client_init`, `org_my_init_done` and `my_init_done` are the flags of
`libmysql.c` and `my_init.c`; `key` is `THR_KEY_mysys`, `variable` the threads
whose value of it is set, `THR_thread_count` the number of threads the end of
the library waits for. `at` and `call` are program counters. Reading a flag,
setting it, creating the key, creating the mutexes, looking a thread's variable
up, counting the thread, uncounting it and only then taking its variable away
(`Uncount` and `Forget`, `my_thr_init.c:357-361` and `363-366`: the mutex is
unlocked between the two), waiting, and destroying what there is are steps of
their own (`Step`); the program's choices are `MysqlInit`, `MysqlClose`,
`MysqlThreadEnd`, `MysqlServerEnd`, and `ThreadExit` for a thread that ends
without a word. A failure to create the key, to allocate a thread's variable or
to allocate the handle may come at each of these points. `life` is history: what
the library is doing, which the rules for programs speak of.

`Orderly` says whether the program keeps to these rules. They are those of the
comments in the library: the start is over before another call is made
(`libmysql.c:104-110`), and nobody else uses the library when it is ended
(`libmysql.c:186-192`). `mysql_thread_end` may be called at any time, however
late, and "multiple times for a thread" (`my_thr_init.c:315`): `MayEndThread`
asks only that the thread is idle and owns no handle. The framework enforces
none of these rules; it only calls `mysql_init` and `mysql_close`.

A thread that uses a key or a mutex that does not exist may go astray: `at` is
then `"no_key"` or `"no_mutex"`, and what it does is not followed. POSIX leaves
the use of a deleted key undefined; common systems refuse it, and
`my_thread_end` does not look at the answer, so a thread may as well go on
(`LeaveThread`, `Forget`). The code does get there: the end of the library waits
only for the count, which a thread leaves before it touches the key for the last
time, and a `mysql_thread_end` that comes later still asks for its variable
with the key. `OnlyLateAstray` says that this is all that can happen.

## 3. The runs

`tlc -config X.cfg M` with the module and the file of each run. "Fails" means
that TLC refutes the property and that this is what the run is there to show.

| Run | Bounds | Result |
|---|---|---|
| `mysql_safety` | 2 result sets, results of 0 to 2 rows, a connection that is buffered and then unbuffered, fairness | holds: `OneReader`, `InStep`, `ClosedWithLastUser`, `RefusedOnlyWhileReading`, `CursorContract`, `ConnectionRecovers` |
| `mysql_phantom_reader` | 1 result set, discarded results | fails: `RefusedOnlyWhileReading` |
| `mysql_lost_error` | 1 result set, buffered | fails: `ErrorsReported` |
| `mysql_truncation` | 1 result set, buffered and then unbuffered | fails: `TruncationReported` |
| `sqlite_cursors` | 2 result sets, 2 keys, 3 changes, a connection that is buffered and then unbuffered, symmetry | holds: `DeliveredInOrder`, `StableRowsDelivered`, `CountHolds`, `ClosedWithLastUser`, `CursorContract` |
| `insert_batches` | up to 5 entries, limits 0 to 3, 2 key orders | holds: `StoredInOrder`, `YesMeansAll`, `DoubtBounded`, `StatementsWellFormed`, `OwnColumns` |
| `insert_key_order` | up to 3 entries | fails: `IdenticalKeysSuffice` |
| `manager_threads` | 3 threads, 1 of them loads bundles itself, 5 drivers, 4 schemes, fairness | holds: `NoRace`, `BuiltInServed`, `InfoMatchesClass`, `ClassesLoaded`, `CallsReturn` |
| `query_builder` | statements of up to 3 of 12 units, or with a quote or bracket left open; 0 to 2 parameters; 1 alias | holds: `OnlySuffixEndsLost`, `ParametersInOrder`, `SaysWhatIsAsked`, `PreparedSaysTheSame`, `RefusedForAReason`, `CallsAnswered` |
| `query_subscript` | statements of 1 unit | fails: `SubscriptsKept` |
| `client_library` | 3 threads, 3 starts, 2 threads that never end, orderly programs, fairness | holds: `OnlyLateAstray`, `ReadyWhenHanded`, `CountIsThreads`, `CallsReturn` |
| `client_start` | 2 threads, 2 starts, any program | fails: `ReadyWhenHanded` |

Every passing run also checks its module's `TypeOK`. The largest state spaces
are those of `sqlite_cursors` (2.2 million states), `mysql_safety` (620,000, with
liveness) and `query_builder` (620,000).

**Why the bounds are enough.** Two result sets are the least at which one can
steal the other's rows or be refused because of it; a third adds no new pair.
Two rows distinguish the first row, a later row and the end (the three cases of
`moveNext`); two keys in SQLite allow a change before, at and behind the row a
statement stands on, and three changes an insertion that undoes a deletion and
one change more. A connection starts buffered, and with `Modes = {TRUE}` the
program may make it unbuffered at any point, so that both kinds of result set
exist side by side; the way back to buffered, and MySQL results that
`executeSQL:` discards (`Discards`, run in `mysql_phantom_reader` only), are
left to the theorems, which are about every `Modes` and, but for
`RefusalHasCause`, both values of `Discards`. Five entries with a limit of two
give a header, two full statements and an incomplete one; a limit of three gives
a statement with a middle. Three threads give one that creates the manager, one
that waits, and one that meets both; in the client library, one that ends it,
one on its way out at that moment, and one that comes late; three starts are
needed for a start after a start that failed or was undone. Statements of three
units have every pair of units next to each other with something before or
behind them, which is what the scanner can confuse; two parameters tell the
order from the first, and none makes every placeholder one too many. The proofs
below remove the bounds for the safety properties.

**Deadlock.** Checked in the runs of `NGMySQL`, `NGDBSharedManager` and
`QueryBuilder`. `InsertInto` ends when its call returns; the program of
`NGSQLite` may have made all the changes its bound allows and hold a lock it has
leaked; the client library may have failed to start, or be down after the last
start its bound allows. These turn the check off; that no thread stays inside
the client library is what `CallsReturn` says there.

**Bounds in guards.** `MaxWrites` in `Change` and `ForeignBegin` of `NGSQLite`;
`MaxStarts` in `MysqlInit` and `MaxStrays` in `ThreadExit` of `ClientLibrary`.
The others bound data (`MaxRows`, `MaxEntries`, `MaxUnits`) or are the sizes of
sets.

## 4. What the runs show

* Whatever the order of calls, drains and failures, a MySQL result set never
  reads the rows of another query and never loses or repeats one while it can
  be read (`OneReader`, `InStep`), although nothing in the driver tracks which
  result set is streaming: the order in which `moveNext` and `dealloc` free
  results, and the client library's refusal, suffice.
* In either driver the handle is closed by the last of the program, the
  statement and the result sets to let it go, and no earlier, whatever order
  they are released in and whichever of them the pool holds
  (`ClosedWithLastUser`). It rests on the order inside `dealloc`: with the
  connection released first, a result would be freed through a closed handle in
  MySQL, and `sqlite3_close` refused in SQLite.
* A connection that refuses commands recovers, provided `executeSQL:` is never
  given a statement with rows. If it is, the connection is lost for unbuffered
  programs (`mysql_phantom_reader`).
* A failure while rows are read is not reported by `exec:` when it stores the
  result (`mysql_lost_error`). Nor is it by the helpers that read a streamed
  result: they return the rows they have got and no error (`mysql_truncation`),
  because the NO of `moveNext` says end and failure alike and it has no status
  argument. The handle knows the error, but no accessor of the framework gives
  it to the program.
* SQLite's second run of a buffered query loses no row that stays and repeats
  none; until the table changes its result sets keep the same promise as
  MySQL's (`CursorContract` of both).
* `insertInto:values:status:` batches correctly for values of one kind, and
  leaves at most `multipleInsertLimit` rows in doubt; without a limit the doubt
  is the whole call. Dictionaries whose keys come in different orders are
  written into each other's columns (`insert_key_order`), unless every
  statement holds one row, as the SQLite driver's do (`OwnColumns`).
* The registry is built exactly once and no thread sees it before it is
  complete, except after an exception out of `-init`, which leaves it built in
  part for good; even then the built-in driver is there and nobody waits for
  the lock.
* The scanner loses no character and repeats none, except the closing bracket of
  an array suffix (`OnlySuffixEndsLost`, which says of every piece where in the
  query its text comes from, and where the next one has to begin; the loss
  itself is `query_subscript`). A prepared statement says what the direct one
  says, as long as names hold no double quote in their middle: the quoted name
  would be scanned again with its parity turned round. The first fault of a
  statement decides what the call answers (`CallsAnswered`).
* A program that keeps to the client library's rules can start and end it any
  number of times, fail at any point and leave threads behind; only a thread that
  calls `mysql_thread_end` while the library goes down, or after, can meet a key
  that is gone, and none ever a mutex (`OnlyLateAstray`). One that lets
  two threads open its first connections, which nothing in the framework
  prevents, may get a handle of a library that is not there yet
  (`client_start`).

The findings in `PROJECT.json` quote, for each failing run, the sentence of the
documentation the code disagrees with.

More disagreements were met on the way and have no run, because each lies
within one function and follows from reading it:

* A SQLite `SELECT` without rows makes `query:` return nil
  (`NGSQLiteConnection.m:176`) where `NGDBConnection.m:204` promises a result
  set with zero rows.
* `initWithURL:` returns nil without an error for a scheme nobody serves
  (`NGDBConnection.m:101-106`, against line 85).
* An error while SQLite's rows are counted finalizes the statement twice
  (`NGSQLiteResultSet.m:86-88` and `97`); `NGSQLite` follows only the outcome in
  which the program goes on.
* A statement queries with the flags it passes itself (`NGDBStatement.m:125`),
  not with those saved at `prepare:`, although it "will maintain the state of
  the unbuffered and uncached flags and apply them consistently to any queries
  it executes" (`NGDBConnection.m:1257-1260`).
* A malformed plug-in ends the search for plug-ins with an exception, because
  the type of the wrong variable is tested (`NGDBSharedManager.m:166`), although
  `-init` says it will "Load any plug-in bundles that we might find" (line 120).
* The row count of a buffered SQLite result set is that of its first run
  (`NGSQLiteResultSet.m:79`), and may differ from the rows it delivers, although
  "all of the rows of a result-set are sent together to the client once a query
  has executed to allow accurate row-counts" (`overview.xml:402-405`).
* The comment on the scanner says both that names in square brackets are
  qualified (`NGDBConnection.m:1381-1382`) and that they are not (lines
  1394-1395); the code does the latter.
* `deleteFrom:` without constraints emits `TRUNCATE` (line 806), which SQLite
  does not have.

## 5. Fairness

* `NGMySQL!FairSpec`: weak fairness of `GoOn`, what the thread is in the middle
  of; strong fairness of `DrainPool` and of each `Release(r)`. Programs run
  inside pools that are drained (an event loop does so at every turn), and
  release what they own, however many calls they make before: these steps are
  disabled while the thread is inside a call, so they are possible again and
  again but not continuously. No fairness is assumed of `MoveNext`: nothing
  obliges a program to read a result to its end, and `ConnectionRecovers` holds
  without it. `Connect` and the calls need none.
* `NGDBSharedManager!FairSpec`: weak fairness of `Step(t)` for each thread, that
  is, a thread inside a call is scheduled. `Call` is the program's choice. Weak
  fairness is enough for the threads that wait at `@synchronized` because the
  lock is held for long only once, by the thread that creates the manager;
  taking it later is a single step.
* `ClientLibrary!FairSpec`: weak fairness of `Step(t)` for each thread: a thread
  inside the library is scheduled. The wait for other threads is timed
  (`my_thread_end_wait_time`), so it is a step that is always possible; with a
  wait that has no limit `CallsReturn` fails. What it promises is that each call
  returns or has met a key that is gone.

## 6. Theorems

All are proved for every value of the constants, from the assumptions named in
the modules (`NGMySQLAssumption`, `InsertAssumption`, `ManagerAssumption`,
`NGSQLiteAssumption`, `QueryBuilderAssumption`, `CharactersAssumption`,
`StatementsAssumption`, `ClientAssumption`). These say only that bounds are
natural numbers, that flags are Booleans and that the constants standing for
"nothing" are different from the real values; that a driver declares its schemes
in a finite sequence; that the built-in driver is not one of the plug-ins; that
texts are sequences of characters, that letters and digits are none of the
scanner's special characters, and that statements are sequences of well-written
units, which any text is; and that the threads, and the result sets, are
finitely many. A theorem that needs more of a program says so in its `ASSUME`:
`Discards = FALSE`, `OneRegistrar`, `Orderly`.

**`NGMySQLProofs`**: `TypeCorrect`, `SingleReader`, `RowsInStep`,
`NoUseAfterClose`, `RefusalHasCause`, `Refinement`. The properties do not stand
one by one: that `rowIndex` stays below the number of rows follows from
`InStep`, which needs that a streamed result set and the handle count the same
rows, which needs that there is one reader. The inductive invariant `Inv`
(`Core`, `ThreadOK` and `CountOK`) therefore describes every result set together
with the handle (`SetOK`): attached exactly when the handle names it as owner,
rows read plus rows left equal to the total, and `row`, `rowIndex` and `eof` in
agreement. `ThreadOK` says which object the thread is dismantling or reading at
each `pc`, and `CountOK` that `refs` is the number of those who have the
connection: the program, the statement, the result sets that exist
(`Cardinality` of a finite set), and the `dealloc` that has freed its result and
not yet released. `NoUseAfterClose` follows from it, and not from the properties
alone: `ClosedWithLastUser` does not say how many releases are still to come.
Lemmas give the effect of each function of the client library (`ExecOutcome`,
`FetchOK`, `FreedOK`); the step theorem has one case per action. `Refinement`
shows that each action is a step of `RowCursor` or leaves every cursor as it was
(`CreateStep`, `FetchStep`, `DropStep`). `RefusalHasCause` assumes that
`executeSQL:` is not given statements with rows, and adds to the invariant that
the handle has no orphaned reader (`Reasoned`): without it a refusal has an
owner, and the owner, by `SetOK`, is a result set that still has its pointer.

**`NGSQLiteProofs`**: `TypeCorrect`, `InOrder`, `NoStableRowLost`,
`CountIsRight`, `NoUseAfterClose`, `Refinement`. The invariant is an account of
the rows behind the scan: each row delivered is at or before the statement's
position, and each row that has stayed in the table and is not behind the
position is still to come (`ScanOK`, `KeptOK`). `CountOK` is that of `NGMySQL`.
`MinFact` supplies that the next row exists and that none lies between it and
the last. `DeliveredInOrder` is not inductive: it does not say where an
undelivered row can be. For `Refinement` the account gives that an undisturbed
result set has seen a part of the table, one row more after each successful
`moveNext`, and all of it at the end.

**`InsertIntoProofs`**: `TypeCorrect`, `InOrder`, `YesIsComplete`,
`DoubtIsBounded`, `Statements`, `OwnColumnsHold`. The invariant (`Account`) adds
up: the entries passed are the header, the rows stored and the rows in the
statement under construction, and the latter are fewer than the limit. Once a
statement has failed the account no longer holds and the four properties are
carried by themselves, which is why `Ind` names them too. `OwnColumnsHold` adds
`Columns`: every row made from an array, and every column list, has the order of
the header; and where statements hold one row, `Account` leaves none waiting, so
each row carries its own column list.

**`NGDBSharedManagerProofs`**: `TypeCorrect`, `RaceFree`, `BuiltInFound`,
`LoadedClasses`, `InfoAgrees`. The invariant ties program counters to the lock
(`LockOK`), jobs to program counters (`JobsOK`), every registered class to a
bundle that declares a scheme and is therefore never unloaded (`EntriesOK`), and
every scheme of the built-in driver to the dictionary or to the rest of the job
that registers it (`BuiltInOK`). `LoadedClasses` needs no limit on the threads
that load bundles. `InfoAgrees` does: it assumes at most one (`OneRegistrar`),
and its invariant (`Agree`) lets the two dictionaries differ only in the scheme
a thread is in the middle of entering; two such threads could enter one scheme
in opposite orders.

**`QueryBuilderProofs`**: `TypeCorrect`, `LossesKnown`, `InOrder`, for texts,
parameters and names of any length. The invariant adds two facts to the three
properties: no piece carries a number above `n` (`Bounded`), and a statement
being prepared consists of characters alone (`Preparing`), without which the
second scan would not be well typed. Lemmas say what each kind of branch does to
the list of pieces (`ReplaceKeeps`, `MoveKeeps`, `OpenQuoteKeeps`,
`PlaceholderKeeps`, `FinishKeeps`), and of a bracket whether it leaves a name or
an array suffix (`NamedKeeps`, `SuffixKeeps`), the latter being the only piece
behind which a character is passed over.

**`QueryMeaningProofs`**: `DirectSQL`, `PreparedSQL`, `Refusals`,
`CallsAreAnswered`, `AnyText`, for statements of any number of units of any
length. The properties say what has become of a statement when the call ends;
the inductive invariant (`MInv`, theorem `WhereItStands`) says it at every
character. `Reading` gives the place of the scanner, `d` characters into the
`k`-th unit, and there: the characters before `e` are those of the units before
and `d` more; `q` is the quote that is open inside the unit (`Track`); the text
copied and pending is what the units before have become (`Becomes`); and `n`
counts the placeholders in them. `Places` turns a place into the character that
is read next, and there is one lemma for each branch of the loop
(`CloseQuoteMoves`, `PlaceholderMoves`, `FinishEnds` and so on).

The invariant is stated for the units the scanner really reads (`Read`): those
of the program, or, when a prepared statement is executed, what the first scan
has left of them (`Prepared`), where names have become text. So one proof serves
both scans; the second needs, besides, that a quoted name is text the scanner
copies as it is and leaves with no quote open (`NameClean`), which is where
`Intact` comes in, and that as many placeholders are left (`PreparedFacts`).
`CallsAreAnswered` adds that nothing before the place of the scanner is at fault
(`FaultlessBefore`); then each step of the loop is a stutter of `StatementCalls`
(`Silent`) and each end of it the answer (`EndIsAnswer`). `AnyText` takes units
off the front of a text for as long as there are any.

The texts and results are joined with `FlattenSeq` of the community modules,
whose definition is recursive. What is needed of it is proved in `Flattening`,
by induction over the natural numbers: the library's induction theorems are
out of the provers' reach, but the theorem that `<` is well-founded is not, and
with it each of these proofs takes the least number for which its claim fails
(`Least`).

**`ClientLibraryProofs`**: `TypeCorrect`, `LateOnlyAstray`, `HandlesReady`,
`CountCorrect`, for orderly programs with any finite number of threads and any
bounds. The invariant says who may be where (`Located`), that a thread that
starts or ends the library is alone but for those on their way out (`Actors`),
what exists while nobody does (`Settled`), at each point of the way up
(`Rising`) and down (`Falling`), and what a thread can rely on where it is
(`Entitled`). `ReadyWhenHanded` alone says nothing of a library that is coming
up, and `OnlyLateAstray` nothing of what exists: that `THR_LOCK_threads`
outlives every thread that is about to uncount itself is a part of `Entitled`,
and that a thread with a variable finds all the mutexes another. There is one
lemma for each action.

## 7. Only model-checked

* `ConnectionRecovers` and `CallsReturn` (of both modules): liveness, out of the
  prover's reach.
* The properties that fail.

Every invariant the passing runs check, and the three refinements, have a
theorem.

## 8. Not modelled, and why

* Text beyond the scanner's: values and their quoting, the conversion of columns
  to objects, and `formatConstraints:`, a pure function of its argument whose
  result depends on the types of nested objects. In an insertion only the order
  of the keys is kept.
* The client library below the status of a handle: packets, authentication,
  character sets, server-side prepared statements, several results in one
  answer. The driver uses none of them. Of its start and end, ports, files,
  signals and debugging are left out, and that `THR_LOCK_threads`, kept after a
  wait that ran out, is initialised again by the next start.
* The rest of the MySQL sources in the repository, by far the largest part of it:
  character sets, string functions, the system layer and the network, which are
  a third party's. The framework's own logic is in its Objective-C files.
* Running out of memory, except where the client library starts.
* Programs that go on reading after the first NO of `moveNext` (in SQLite the
  rows would come again: `ReadNext` of `NGSQLite` is the assumption that they do
  not), call one connection from several threads, or use an object without owning
  it.
* Programs that open another MySQL connection after the library has failed to
  start. The flags, and how they are left by a failure, are modelled, but
  `Orderly` takes such a failure as fatal, as the comments do, and what a second
  try meets (`libmysql.c:124`) is not among the things checked.
* What `update:` and `deleteFrom:` send: each is one statement, whose outcome is
  handled as `Execute` says. Transactions: not supported by the code.
  `NGDBError` and the test program.
* What happens in SQLite once a handle has been lost with its locks
  (`conn = "lost"`), and to a thread that has gone astray in the client library:
  the models stop following them.
* Helpers that read a whole SQLite query, and statements over SQLite: the code
  is the common one, modelled for MySQL.

## 9. What could follow

The modules were written in the order of section 2. What is left, and would add
least:

1. `formatConstraints:` as an operator over nested conditions, with the empty
   and null cases of its arguments.
2. The fetching helpers and statements over SQLite, whose new states are those
   of `NGSQLite` with the steps of `NGMySQL`.
3. The sequence of `connect`, handshake and authentication in `client.c` as a
   refinement of `Connect`, which the driver uses as a single call.
