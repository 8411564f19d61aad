------------------------------ MODULE NGMySQL ------------------------------
(***************************************************************************)
(* One NGMySQLConnection, the MYSQL handle below it, the NGMySQLResultSet  *)
(* objects it creates, one NGDBStatement, and the program that uses them.  *)
(*                                                                         *)
(* The program is a single thread: the classes hold no lock and keep no    *)
(* thread state.  What makes the order of its calls matter is the handle,  *)
(* which answers one command at a time: in unbuffered mode the rows of a   *)
(* query stay on the wire until its result set reads or drops them, and    *)
(* every other command is refused with CR_COMMANDS_OUT_OF_SYNC meanwhile.  *)
(* Result sets returned by query:... are autoreleased, so it is the drain  *)
(* of the pool, not the program, that ends the ones it does not retain.    *)
(*                                                                         *)
(* The server may answer any command with an error, and the connection may *)
(* break at every read.  Running out of memory is not modelled.            *)
(*                                                                         *)
(* What takes the thread more than one step of interest is cut at those    *)
(* steps: the loops of the helpers at every row, the drain of the pool at  *)
(* every object, and the dealloc of a result set at what it lets go of.    *)
(* The program calls nothing meanwhile.                                    *)
(***************************************************************************)
EXTENDS Naturals, FiniteSets

CONSTANTS ResultSets,    \* identities of the NGMySQLResultSet objects
          NoReader,      \* no result is being streamed
          Orphan,        \* a streamed result nobody holds a pointer to
          MaxRows,       \* bound on the rows a query produces
          Modes,         \* the flags the program gives to setUnbuffered:
          Discards       \* whether executeSQL: is given statements with rows

ASSUME NGMySQLAssumption ==
         /\ IsFiniteSet(ResultSets)
         /\ NoReader \notin ResultSets
         /\ Orphan \notin ResultSets \cup {NoReader}
         /\ MaxRows \in Nat
         /\ Modes \subseteq BOOLEAN
         /\ Discards \in BOOLEAN

VARIABLES open,          \* the MYSQL handle has not been closed
          refs,          \* the retain count of the NGMySQLConnection
          held,          \* the program owns one of its references
          unbuffered,    \* NGDBEF_Unbuffered in execFlags
          mysql,         \* the MYSQL handle
          rs,            \* the result-set objects
          stmt,          \* the NGDBStatement object
          ret,           \* what the last call returned to the program
          pc,            \* what the thread is in the middle of
          object,        \* the result set that is about
          draining       \* the pool is letting go of its objects

connection == <<open, refs, held, unbuffered>>
thread == <<pc, object, draining>>
vars == <<connection, mysql, rs, stmt, ret, thread>>

(* The thread runs the program, reads the rows a helper will return, or is *)
(* in a dealloc, before mysql_free_result or before the release of the     *)
(* connection.                                                             *)
Places == {"program", "rows", "free", "release"}
Running == pc = "program" /\ ~draining

Holders == {"app", "pool"}
Errors == {"none", "server", "lost", "sync"}
Kinds == {"absent", "stored", "stream"}

-----------------------------------------------------------------------------
(* The MYSQL handle.  size and unread are the rows of the current result   *)
(* and those of them still on the wire.                                    *)
Handles == [link : {"up", "down"}, status : {"READY", "GET_RESULT", "USE_RESULT"},
            owner : ResultSets \cup {NoReader, Orphan},
            size : 0..MaxRows, unread : 0..MaxRows, errno : Errors]

FreshHandle == [link |-> "up", status |-> "READY", owner |-> NoReader,
                size |-> 0, unread |-> 0, errno |-> "none"]

Idle(h) == [link |-> h.link, status |-> "READY", owner |-> NoReader,
            size |-> 0, unread |-> 0, errno |-> h.errno]

(* A read failed: an error packet, or the connection is gone (end_server). *)
Broken(h) == {[Idle(h) EXCEPT !.link = IF e = "server" THEN "up" ELSE "down", !.errno = e] :
                e \in {"server", "lost"}}

(* mysql_real_query of a statement that has a result-set or not (select):  *)
(* without a connection, or with rows on the wire, nothing is sent.        *)
(* mysql_errno is zero on success only.                                    *)
Answers(h, select) ==
  IF select
  THEN {[h EXCEPT !.errno = "none", !.status = "GET_RESULT",
                  !.size = n, !.unread = n] : n \in 0..MaxRows}
  ELSE {[h EXCEPT !.errno = "none"]}

(* Mutant: the command is sent whatever the status of the handle. *)
RealQueryWhileBusy(h, select) ==
  IF h.link = "down" THEN {[h EXCEPT !.errno = "lost"]}
  ELSE Broken(h) \cup Answers(h, select)

RealQuery(h, select) ==
  IF h.link = "down" THEN {[h EXCEPT !.errno = "lost"]}
  ELSE IF h.status # "READY" THEN {[h EXCEPT !.errno = "sync"]}
  ELSE Broken(h) \cup Answers(h, select)

(* mysql_store_result: every row is read now, or the read fails.           *)
StoreResult(h) == {Idle(h)} \cup Broken(h)

UseResult(h, reader) == [h EXCEPT !.status = "USE_RESULT", !.owner = reader]

(* -[NGMySQLConnection exec:flags:status:].  res is the kind of MYSQL_RES  *)
(* returned ("absent" for NULL), rows the rows of the result, err what     *)
(* *status is left with: once the query itself has succeeded, *status is   *)
(* nil whatever happens next.                                              *)
Outcome(h, res, rows, err) == [h |-> h, res |-> res, rows |-> rows, err |-> err]

Fetched(q, stream, reader) ==
  IF stream
  THEN {Outcome(UseResult(q, reader), "stream", q.size, "none")}
  ELSE {Outcome(s, IF s.errno = "none" THEN "stored" ELSE "absent", q.size, "none") :
          s \in StoreResult(q)}

Exec(h, select, stream, reader) ==
  UNION {IF q.errno # "none" THEN {Outcome(q, "absent", 0, q.errno)}
         ELSE IF q.status = "READY" THEN {Outcome(q, "absent", 0, "none")}
         ELSE Fetched(q, stream, reader) : q \in RealQuery(h, select)}

-----------------------------------------------------------------------------
(* The NGMySQLResultSet objects.  rows is rowCount, row the row rowAsArray *)
(* would return (0: none); ptr says that result is not NULL.  total is the *)
(* number of rows the server had and is not part of the object.            *)
Sets == [kind : Kinds, ptr : BOOLEAN, eof : BOOLEAN, fetched : BOOLEAN,
         rowIndex : 0..MaxRows, row : 0..MaxRows, rows : 0..MaxRows,
         unread : 0..MaxRows, total : 0..MaxRows, holders : SUBSET Holders]

Absent == [kind |-> "absent", ptr |-> FALSE, eof |-> FALSE, fetched |-> FALSE,
           rowIndex |-> 0, row |-> 0, rows |-> 0, unread |-> 0, total |-> 0,
           holders |-> {}]

(* initWithMySQLResult:connection:status:.  mysql_num_rows of a streamed   *)
(* result is 0 before its first row.                                       *)
NewResultSet(o, holders) ==
  LET buffered == IF o.res = "stored" THEN o.rows ELSE 0
  IN [kind |-> o.res, ptr |-> TRUE, eof |-> FALSE, fetched |-> FALSE,
      rowIndex |-> 0, row |-> 0, rows |-> buffered, unread |-> buffered,
      total |-> o.rows, holders |-> holders]

Attached(s) == s.kind = "stream" /\ s.ptr
Position(s) == IF s.fetched THEN s.rowIndex + 1 ELSE 0

(* mysql_fetch_row: the handle afterwards and the row (0: none).           *)
(* Mutant: the end of a stored result is not tested. *)
FetchRowPastEnd(h, s) ==
  IF s.kind = "stored"
  THEN {[h |-> h, row |-> s.total - s.unread + 1]}
  ELSE {[h |-> b, row |-> 0] : b \in Broken(h)}

(* Mutant: a stored result reads nothing once the connection is gone. *)
FetchRowOnline(h, s) ==
  IF s.kind = "stored"
  THEN {[h |-> h, row |-> IF h.link = "up" /\ s.unread > 0 THEN s.total - s.unread + 1 ELSE 0]}
  ELSE {[h |-> b, row |-> 0] : b \in Broken(h)}

(* Mutant: the end of the rows does not make the handle ready again. *)
FetchRowStayingBusy(h, s) ==
  {[h |-> h, row |-> 0]}

FetchRow(h, s) ==
  IF s.kind = "stored"
  THEN {[h |-> h, row |-> IF s.unread > 0 THEN s.total - s.unread + 1 ELSE 0]}
  ELSE IF h.status # "USE_RESULT"
  THEN {[h |-> [Idle(h) EXCEPT !.errno = "sync"], row |-> 0]}
  ELSE {[h |-> b, row |-> 0] : b \in Broken(h)}
       \cup {IF h.unread > 0
             THEN [h |-> [h EXCEPT !.unread = h.unread - 1],
                   row |-> h.size - h.unread + 1]
             ELSE [h |-> Idle(h), row |-> 0]}

(* -[NGMySQLResultSet moveNext] on what mysql_fetch_row returned.  Without *)
(* a row the result is freed at once, end of data and failure alike.       *)
(* Mutant: rowIndex counts the first row like the others. *)
MovedCountingFirst(s, row) ==
  IF row > 0
  THEN [s EXCEPT !.row = row, !.eof = FALSE, !.fetched = TRUE, !.rowIndex = row,
                 !.unread = IF s.kind = "stored" THEN s.unread - 1 ELSE 0]
  ELSE [s EXCEPT !.row = 0, !.eof = TRUE, !.ptr = FALSE, !.unread = 0]

Moved(s, row) ==
  IF row > 0
  THEN [s EXCEPT !.row = row, !.eof = FALSE, !.fetched = TRUE,
                 !.rowIndex = IF s.fetched THEN s.rowIndex + 1 ELSE 0,
                 !.unread = IF s.kind = "stored" THEN s.unread - 1 ELSE 0]
  ELSE [s EXCEPT !.row = 0, !.eof = TRUE, !.ptr = FALSE, !.unread = 0]

(* mysql_free_result, from the dealloc of the result set s.                *)
(* Mutant: an unfinished streamed result is freed without being flushed. *)
FreedUnflushed(h, s) == {h}

Freed(h, s) ==
  IF h.status = "USE_RESULT" /\ Attached(s) THEN {Idle(h)} \cup Broken(h) ELSE {h}

-----------------------------------------------------------------------------
(* What a call returned and left in *status; missing: rows the server had  *)
(* and the result does not hold.                                           *)
NoCall == [op |-> "none", value |-> "nil", err |-> "none", missing |-> 0]
Returns(op, value, err) == [NoCall EXCEPT !.op = op, !.value = value, !.err = err]

Calls == [op : {"none", "connect", "query", "execute", "row", "rows"},
          value : {"nil", "object", "NO", "YES"}, err : Errors,
          missing : 0..MaxRows]

NoStatement == [holders |-> {}, unbuffered |-> FALSE]

Init == /\ open = FALSE /\ refs = 0 /\ held = FALSE /\ unbuffered = FALSE
        /\ mysql = FreshHandle
        /\ rs = [r \in ResultSets |-> Absent]
        /\ stmt = NoStatement
        /\ ret = NoCall
        /\ pc = "program" /\ object = NoReader /\ draining = FALSE

(* initDriverWithURL:options:status: connects and runs four SET commands.  *)
Connect ==
  /\ Running /\ ~open
  /\ UNCHANGED <<rs, stmt, thread>>
  /\ unbuffered' = FALSE /\ mysql' = FreshHandle
  /\ \/ /\ open' = TRUE /\ refs' = 1 /\ held' = TRUE
        /\ ret' = Returns("connect", "object", "none")
     \/ /\ \E e \in {"server", "lost"} : ret' = Returns("connect", "nil", e)
        /\ UNCHANGED <<open, refs, held>>

SetUnbuffered(flag) ==
  /\ Running /\ held
  /\ unbuffered' = flag
  /\ ret' = NoCall
  /\ UNCHANGED <<open, refs, held, mysql, rs, stmt, thread>>

(* The result set o.res is wrapped in r and handed to holders; it retains  *)
(* the connection.                                                         *)
Wrapped(r, o, holders) ==
  IF o.res = "absent" THEN rs ELSE [rs EXCEPT ![r] = NewResultSet(o, holders)]

Retained(o) == IF o.res = "absent" THEN refs ELSE refs + 1

CanQuery(r) == Running /\ held /\ rs[r] = Absent

(* query:withArray:status: *)
Query(r) ==
  /\ CanQuery(r)
  /\ \E select \in BOOLEAN : \E o \in Exec(mysql, select, unbuffered, r) :
       /\ mysql' = o.h
       /\ rs' = Wrapped(r, o, {"pool"})
       /\ refs' = Retained(o)
       /\ ret' = Returns("query", IF o.res = "absent" THEN "nil" ELSE "object", o.err)
  /\ UNCHANGED <<open, held, unbuffered, stmt, thread>>

(* What executeSQL:, insertInto:, update:, deleteFrom: and a statement's   *)
(* execute: do with the outcome: a result is given to freeResult:, which   *)
(* neither driver overrides.                                               *)
Discarded(o) ==
  /\ mysql' = o.h
  /\ ret' = Returns("execute", IF o.err = "none" THEN "YES" ELSE "NO", o.err)

Execute ==
  /\ Running /\ held
  /\ \E select \in {FALSE, Discards} :
       \E o \in Exec(mysql, select, unbuffered, Orphan) : Discarded(o)
  /\ UNCHANGED <<connection, rs, stmt, thread>>

(* rowForQuery: and valueForQuery: read the first row of a query and leave *)
(* the result set to the pool.                                             *)
RowForQuery(r) ==
  /\ CanQuery(r)
  /\ \E o \in Exec(mysql, TRUE, unbuffered, r) :
       /\ refs' = Retained(o)
       /\ IF o.res = "absent"
          THEN /\ mysql' = o.h /\ rs' = rs
               /\ ret' = Returns("row", "nil", o.err)
          ELSE LET new == NewResultSet(o, {"pool"})
               IN \E f \in FetchRow(o.h, new) :
                    /\ mysql' = f.h
                    /\ rs' = [rs EXCEPT ![r] = Moved(new, f.row)]
                    /\ ret' = Returns("row", IF f.row > 0 THEN "object" ELSE "nil", "none")
  /\ UNCHANGED <<open, held, unbuffered, stmt, thread>>

(* rowsForQuery:, columnForQuery: and dictForQuery: run a query and, when  *)
(* there is a result set, read it row by row (ReadOn).                     *)
RowsForQuery(r) ==
  /\ CanQuery(r)
  /\ \E o \in Exec(mysql, TRUE, unbuffered, r) :
       /\ mysql' = o.h
       /\ rs' = Wrapped(r, o, {"pool"})
       /\ refs' = Retained(o)
       /\ IF o.res = "absent"
          THEN ret' = Returns("rows", "nil", o.err) /\ UNCHANGED <<pc, object>>
          ELSE ret' = NoCall /\ pc' = "rows" /\ object' = r
  /\ UNCHANGED <<open, held, unbuffered, stmt, draining>>

(* One turn of while((dict = [rs nextAsDict])).  The first NO, whatever it *)
(* is due to, ends the loop: the rows read so far are the answer, the      *)
(* status stays nil, and missing counts the rows the server had beside.    *)
ReadOn ==
  /\ pc = "rows"
  /\ \E f \in FetchRow(mysql, rs[object]) :
       LET s == Moved(rs[object], f.row)
       IN /\ mysql' = f.h
          /\ rs' = [rs EXCEPT ![object] = s]
          /\ IF f.row > 0
             THEN UNCHANGED <<ret, pc, object>>
             ELSE /\ ret' = [Returns("rows", "object", "none")
                               EXCEPT !.missing = s.total - Position(s)]
                  /\ pc' = "program" /\ object' = NoReader
  /\ UNCHANGED <<connection, stmt, draining>>

(* prepare:status: remembers the execution flags of the moment; the        *)
(* statement retains the connection.                                       *)
Prepare ==
  /\ Running /\ held /\ stmt.holders = {}
  /\ stmt' = [holders |-> {"pool"}, unbuffered |-> unbuffered]
  /\ refs' = refs + 1
  /\ ret' = NoCall
  /\ UNCHANGED <<open, held, unbuffered, mysql, rs, thread>>

StatementExecute ==
  /\ Running /\ stmt.holders # {}
  /\ \E select \in {FALSE, Discards} :
       \E o \in Exec(mysql, select, stmt.unbuffered, Orphan) : Discarded(o)
  /\ UNCHANGED <<connection, rs, stmt, thread>>

(* -[NGDBStatement queryWithArray:status:] runs with NGDBEF_None and does  *)
(* not autorelease what it returns.                                        *)
StatementQuery(r) ==
  /\ Running /\ stmt.holders # {} /\ rs[r] = Absent
  /\ \E select \in BOOLEAN : \E o \in Exec(mysql, select, FALSE, r) :
       /\ mysql' = o.h
       /\ rs' = Wrapped(r, o, {"app"})
       /\ refs' = Retained(o)
       /\ ret' = Returns("query", IF o.res = "absent" THEN "nil" ELSE "object", o.err)
  /\ UNCHANGED <<open, held, unbuffered, stmt, thread>>

(* moveNext, on its own or through nextAsDict and nextAsArray; it returns  *)
(* the negation of eof and has no status argument.  Programs stop at the   *)
(* first NO, as every loop of the framework does.                          *)
MoveNext(r) ==
  /\ Running /\ rs[r].ptr
  /\ \E f \in FetchRow(mysql, rs[r]) :
       /\ mysql' = f.h
       /\ rs' = [rs EXCEPT ![r] = Moved(rs[r], f.row)]
       /\ ret' = NoCall
  /\ UNCHANGED <<connection, stmt, thread>>

-----------------------------------------------------------------------------
(* Retain counts.  The connection counts its owners and knows none of      *)
(* them; its dealloc, at the last release, closes the handle.              *)
LetConnectionGo ==
  /\ refs' = refs - 1
  /\ IF refs = 1
     THEN open' = FALSE /\ mysql' = FreshHandle
     ELSE UNCHANGED <<open, mysql>>

ReleaseConnection ==
  /\ Running /\ held
  /\ held' = FALSE
  /\ LetConnectionGo
  /\ ret' = NoCall
  /\ UNCHANGED <<unbuffered, rs, stmt, thread>>

RetainStatement ==
  /\ Running /\ stmt.holders = {"pool"}
  /\ stmt' = [stmt EXCEPT !.holders = Holders]
  /\ ret' = NoCall
  /\ UNCHANGED <<connection, mysql, rs, thread>>

(* A holder lets the statement go; its dealloc releases the connection.    *)
LetStatementGo(holder) ==
  /\ holder \in stmt.holders
  /\ IF stmt.holders = {holder}
     THEN stmt' = NoStatement /\ LetConnectionGo
     ELSE /\ stmt' = [stmt EXCEPT !.holders = @ \ {holder}]
          /\ UNCHANGED <<open, refs, mysql>>
  /\ ret' = NoCall
  /\ UNCHANGED <<held, unbuffered, rs, thread>>

ReleaseStatement == Running /\ LetStatementGo("app")

Retain(r) ==
  /\ Running /\ rs[r].holders = {"pool"}
  /\ rs' = [rs EXCEPT ![r].holders = Holders]
  /\ ret' = NoCall
  /\ UNCHANGED <<connection, mysql, stmt, thread>>

(* The dealloc of a result set: what follows what.                         *)
(* Mutant: the connection is released before the result is freed. *)
DeallocConnectionFirst == [start |-> "release", release |-> "free", free |-> "program"]

DeallocSteps == [start |-> "free", free |-> "release", release |-> "program"]

DeallocFrom(step) ==
  /\ pc' = DeallocSteps[step]
  /\ object' = IF DeallocSteps[step] = "program" THEN NoReader ELSE object

(* A holder lets the result set r go; the last one starts its dealloc.     *)
LetGo(r, holder) ==
  /\ holder \in rs[r].holders
  /\ rs' = [rs EXCEPT ![r].holders = @ \ {holder}]
  /\ IF rs[r].holders = {holder}
     THEN pc' = DeallocSteps.start /\ object' = r
     ELSE UNCHANGED <<pc, object>>
  /\ ret' = NoCall
  /\ UNCHANGED <<connection, mysql, stmt, draining>>

Release(r) == Running /\ LetGo(r, "app")

FreeResult ==
  /\ pc = "free"
  /\ mysql' \in Freed(mysql, rs[object])
  /\ rs' = [rs EXCEPT ![object] = Absent]
  /\ DeallocFrom("free")
  /\ UNCHANGED <<connection, stmt, ret, draining>>

ReleaseFromResult ==
  /\ pc = "release"
  /\ LetConnectionGo
  /\ DeallocFrom("release")
  /\ UNCHANGED <<held, unbuffered, rs, stmt, ret, draining>>

(* The autorelease pool lets go of everything it holds, object by object.  *)
Pooled == {r \in ResultSets : "pool" \in rs[r].holders}

DrainPool ==
  /\ Running /\ (Pooled # {} \/ "pool" \in stmt.holders)
  /\ draining' = TRUE
  /\ ret' = NoCall
  /\ UNCHANGED <<connection, mysql, rs, stmt, pc, object>>

PoolReleases(r) == draining /\ pc = "program" /\ LetGo(r, "pool")

PoolReleasesStatement == draining /\ pc = "program" /\ LetStatementGo("pool")

PoolDrained ==
  /\ draining /\ pc = "program" /\ Pooled = {} /\ "pool" \notin stmt.holders
  /\ draining' = FALSE
  /\ UNCHANGED <<connection, mysql, rs, stmt, ret, pc, object>>

-----------------------------------------------------------------------------
(* What the thread is in the middle of goes on by itself.                  *)
GoOn == \/ ReadOn \/ FreeResult \/ ReleaseFromResult
        \/ PoolReleasesStatement \/ PoolDrained
        \/ \E r \in ResultSets : PoolReleases(r)

Next ==
  \/ Connect
  \/ \E flag \in Modes : SetUnbuffered(flag)
  \/ Execute
  \/ Prepare \/ StatementExecute \/ RetainStatement \/ ReleaseStatement
  \/ ReleaseConnection \/ DrainPool
  \/ \E r \in ResultSets : \/ Query(r) \/ RowForQuery(r) \/ RowsForQuery(r)
                           \/ StatementQuery(r) \/ MoveNext(r)
                           \/ Retain(r) \/ Release(r)
  \/ GoOn

Spec == Init /\ [][Next]_vars

(* A program drains its pools (an event loop does so on every turn) and    *)
(* releases what it owns, however many other calls it makes before: these  *)
(* steps are possible again and again, but not all the time.  Nothing      *)
(* obliges it to read its result sets.                                     *)
Fairness == /\ WF_vars(GoOn)
            /\ SF_vars(DrainPool)
            /\ \A r \in ResultSets : SF_vars(Release(r))

FairSpec == Spec /\ Fairness
-----------------------------------------------------------------------------
(* Type invariant. *)
TypeOK == /\ open \in BOOLEAN /\ held \in BOOLEAN /\ unbuffered \in BOOLEAN
          /\ refs \in 0..Cardinality(ResultSets) + 2
          /\ mysql \in Handles
          /\ rs \in [ResultSets -> Sets]
          /\ stmt \in [holders : SUBSET Holders, unbuffered : BOOLEAN]
          /\ ret \in Calls
          /\ pc \in Places /\ object \in ResultSets \cup {NoReader} /\ draining \in BOOLEAN

(* The handle is streaming exactly when one result has its rows on the     *)
(* wire, and then no other live result set believes it can read from it:   *)
(* a row is never delivered to the result set of another query.            *)
OneReader ==
  /\ mysql.status \in {"READY", "USE_RESULT"}
  /\ mysql.status = "USE_RESULT" <=> mysql.owner # NoReader
  /\ \A r \in ResultSets : Attached(rs[r]) <=> mysql.owner = r

(* While a result set can still be read, the rows it has delivered and the *)
(* rows left, in its own buffer or on the wire, are together the rows the  *)
(* server produced; the row shown is the one rowIndex names.               *)
InStep ==
  \A r \in ResultSets :
    /\ rs[r].ptr =>
         Position(rs[r]) + (IF Attached(rs[r]) THEN mysql.unread ELSE rs[r].unread)
           = rs[r].total
    /\ rs[r].row # 0 => rs[r].row = Position(rs[r])

(* mysql_close comes with the last of those who use the handle: never      *)
(* while the program, a statement or a result set has it, one in the midst *)
(* of its dealloc included, and not later either.                          *)
ClosedWithLastUser ==
  open <=> \/ held \/ stmt.holders # {}
           \/ \E r \in ResultSets : rs[r] # Absent
           \/ pc = "release"

(* "Attempting to execute a second query while an NGDBResultSet instance   *)
(* resulting from an unbuffered query exists will cause an error"          *)
(* (NGDBConnection.m, -setUnbuffered:): a command is refused as out of     *)
(* sync only while such an instance still has rows to read.  It holds when *)
(* executeSQL: is given no statement with rows, and only then.             *)
RefusedOnlyWhileReading ==
  ret.err = "sync" => \E r \in ResultSets : Attached(rs[r])

(* The result sets are cursors in the sense of RowCursor: buffered ones    *)
(* deliver every row, even when the connection has broken meanwhile, and   *)
(* streamed ones a prefix of the rows, each row once and in order.         *)
CursorOf(s) ==
  [phase |-> IF s.kind = "absent" THEN "absent" ELSE IF s.eof THEN "ended" ELSE "open",
   streaming |-> s.kind = "stream", total |-> s.total, pos |-> Position(s)]

Cursors == INSTANCE RowCursor WITH
             Cursors <- ResultSets, cursor <- [r \in ResultSets |-> CursorOf(rs[r])]

CursorContract == Cursors!Spec

(* A connection busy with the rows of a result set becomes usable again.   *)
ConnectionRecovers == mysql.owner \in ResultSets ~> mysql.status = "READY"

-----------------------------------------------------------------------------
(* What the documentation says and the code does not do.                   *)

(* "If an error occurs, exec:status: must return NULL and set status"      *)
(* (NGDBConnection.m, -exec:flags:status:): when the client library has    *)
(* recorded an error for a query, the caller is told.                      *)
ErrorsReported ==
  ret.op \in {"query", "execute"} => (mysql.errno # "none" => ret.err # "none")

(* "If an error occurs, nil will be returned and if status is non-NULL, it *)
(* will be set to point to an NSError" (NGDBConnection.m,                  *)
(* -rowsForQuery:withArray:status:): rows the server had and the answer    *)
(* does not hold are an error the caller hears of.                         *)
TruncationReported ==
  ret.op = "rows" /\ ret.missing > 0 => ret.value = "nil" /\ ret.err # "none"
=============================================================================
