------------------------------ MODULE NGSQLite ------------------------------
(***************************************************************************)
(* One NGSQLiteConnection, its NGSQLiteResultSet objects, the table they   *)
(* read and the programs that change it: the one that owns the connection, *)
(* through executeSQL:, and another process with the same file open.       *)
(*                                                                         *)
(* SQLite computes the rows of a query as they are asked for, so a result  *)
(* set sees the table as it is at each moveNext.  A buffered one runs its  *)
(* query twice: once when it is created, to count the rows, and once more  *)
(* when it is read.  While a statement stands on a row its connection      *)
(* holds a shared lock, and no other process can write.                    *)
(*                                                                         *)
(* Rows are scanned in the order of their keys.                            *)
(*                                                                         *)
(* The program is a single thread.  The drain of the pool is cut at every  *)
(* object and the dealloc of a result set at what it lets go of; the       *)
(* program calls nothing meanwhile, but the other process goes on.         *)
(***************************************************************************)
EXTENDS Naturals, FiniteSets, FiniteSetsExt

CONSTANTS ResultSets,    \* identities of the NGSQLiteResultSet objects
          MaxRows,       \* the keys of the table are 1..MaxRows
          Modes,         \* the flags the program gives to setUnbuffered:
          MaxWrites      \* bound on the changes made to the table

ASSUME NGSQLiteAssumption ==
         /\ IsFiniteSet(ResultSets)
         /\ MaxRows \in Nat /\ MaxWrites \in Nat /\ Modes \subseteq BOOLEAN

VARIABLES conn,          \* the sqlite3 handle
          refs,          \* the retain count of the NGSQLiteConnection
          held,          \* the program owns one of its references
          unbuffered,    \* NGDBEF_Unbuffered in execFlags
          rs,            \* the result sets
          leaked,        \* a statement that stands on a row has been forgotten
          table,         \* the keys of the rows in the table
          foreign,       \* another process is writing
          writes,        \* changes made so far
          pc,            \* what the thread is in the middle of
          draining       \* the pool is letting go of its objects

connection == <<conn, refs, held, unbuffered>>
file == <<table, foreign, writes>>
thread == <<pc, draining>>
vars == <<connection, rs, leaked, file, thread>>

(* The thread runs the program or is in a dealloc, before sqlite3_finalize *)
(* or before the release of the connection.                                *)
Places == {"program", "free", "release"}
Running == pc = "program" /\ ~draining

Keys == 1..MaxRows
Holders == {"app", "pool"}

(* stmt: where the sqlite3_stmt is, on a row, at its beginning, or past    *)
(* the end or a failure; at: the key it stands on or starts after; first:  *)
(* the first row is there already; row: the key of the row rowAsArray has  *)
(* (0: none); rows: rowCount.  seen, kept and disturbed are not part of    *)
(* the object: the rows delivered, the rows that have been in the table    *)
(* ever since the query, and whether it has changed since.                 *)
Sets == [stmt : {"absent", "row", "reset", "done"}, at : 0..MaxRows,
         buffer : BOOLEAN, first : BOOLEAN, eof : BOOLEAN,
         rowIndex : 0..MaxRows, row : 0..MaxRows, rows : 0..MaxRows,
         holders : SUBSET Holders,
         seen : SUBSET Keys, kept : SUBSET Keys, disturbed : BOOLEAN]

Absent == [stmt |-> "absent", at |-> 0, buffer |-> FALSE, first |-> FALSE, eof |-> FALSE,
           rowIndex |-> 0, row |-> 0, rows |-> 0, holders |-> {},
           seen |-> {}, kept |-> {}, disturbed |-> FALSE]

Init == /\ conn = "closed" /\ refs = 0 /\ held = FALSE /\ unbuffered = FALSE
        /\ rs = [r \in ResultSets |-> Absent]
        /\ leaked = FALSE
        /\ table \in SUBSET Keys
        /\ foreign = FALSE /\ writes = 0
        /\ pc = "program" /\ draining = FALSE

(* The connection holds the shared lock.                                   *)
Locked == leaked \/ \E r \in ResultSets : rs[r].stmt = "row"

(* sqlite3_step of a statement that has last returned the row at: the next *)
(* row, or none.                                                           *)
After(at) == {k \in table : k > at}

(* sqlite3_open creates the handle.                                        *)
Connect ==
  /\ Running /\ conn = "closed"
  /\ conn' = "open" /\ refs' = 1 /\ held' = TRUE /\ unbuffered' = FALSE
  /\ UNCHANGED <<rs, leaked, file, thread>>

SetUnbuffered(flag) ==
  /\ Running /\ held
  /\ unbuffered' = flag
  /\ UNCHANGED <<conn, refs, held, rs, leaked, file, thread>>

-----------------------------------------------------------------------------
(* initWithSQLiteStatement:connection:status: on a statement that stands   *)
(* on its first row.  In buffered mode the others are counted and the      *)
(* statement is reset.                                                     *)
(* Mutant: the row the statement stands on is not counted. *)
NewResultSetCountingFewer ==
  [Absent EXCEPT !.buffer = ~unbuffered, !.first = unbuffered,
                 !.stmt = IF unbuffered THEN "row" ELSE "reset",
                 !.at = IF unbuffered THEN Min(table) ELSE 0,
                 !.rows = IF unbuffered THEN 1 ELSE Cardinality(table) - 1,
                 !.holders = {"pool"}, !.kept = table]

(* Mutant: the end of the rows is counted like a row. *)
NewResultSetCountingEnd ==
  [Absent EXCEPT !.buffer = ~unbuffered, !.first = unbuffered,
                 !.stmt = IF unbuffered THEN "row" ELSE "reset",
                 !.at = IF unbuffered THEN Min(table) ELSE 0,
                 !.rows = IF unbuffered THEN 1 ELSE Cardinality(table) + 1,
                 !.holders = {"pool"}, !.kept = table]

(* Mutant: the first row is not there already when unbuffered. *)
NewResultSetSkippingFirst ==
  [Absent EXCEPT !.buffer = ~unbuffered, !.first = FALSE,
                 !.stmt = IF unbuffered THEN "row" ELSE "reset",
                 !.at = IF unbuffered THEN Min(table) ELSE 0,
                 !.rows = IF unbuffered THEN 1 ELSE Cardinality(table),
                 !.holders = {"pool"}, !.kept = table]

NewResultSet ==
  [stmt |-> IF unbuffered THEN "row" ELSE "reset",
   at |-> IF unbuffered THEN Min(table) ELSE 0,
   buffer |-> ~unbuffered, first |-> unbuffered, eof |-> FALSE,
   rowIndex |-> 0, row |-> 0,
   rows |-> IF unbuffered THEN 1 ELSE Cardinality(table),
   holders |-> {"pool"},
   seen |-> {}, kept |-> table, disturbed |-> FALSE]

(* query:withArray:status: of a SELECT.  Another process's lock, an error  *)
(* in exec and a table without rows (the statement is finalized at once)   *)
(* leave no result set; nor does an error while the rows are counted,      *)
(* after which the statement is finalized twice: the program, if it goes   *)
(* on, gets nil as well.                                                   *)
Query(r) ==
  /\ Running /\ held /\ rs[r] = Absent
  /\ ~foreign /\ table # {}
  /\ rs' = [rs EXCEPT ![r] = NewResultSet]
  /\ refs' = refs + 1
  /\ UNCHANGED <<conn, held, unbuffered, leaked, file, thread>>

(* executeSQL: of a SELECT: a statement that stands on a row goes to       *)
(* freeResult:, which the driver does not override.                        *)
ExecuteSelect ==
  /\ Running /\ held /\ ~foreign /\ table # {}
  /\ leaked' = TRUE
  /\ UNCHANGED <<connection, rs, file, thread>>

(* moveNext.  rows is counted before, rowIndex while the rows are read.    *)
Delivered(s, k, index) ==
  [s EXCEPT !.stmt = "row", !.at = k, !.first = FALSE, !.eof = FALSE,
            !.rowIndex = index, !.row = k, !.seen = s.seen \cup {k}]

Stopped(s, end) == [s EXCEPT !.stmt = "done", !.row = 0, !.eof = end]

(* sqlite3_step of a statement that has ended starts it again.             *)
From(s) == IF s.stmt = "done" THEN 0 ELSE s.at

(* The first row of an unbuffered result set is there since exec; without  *)
(* a step it cannot fail.                                                  *)
(* Mutant: the statement is reset before every step. *)
MovedRestarting(s) ==
  IF s.first THEN {Delivered(s, s.at, s.rowIndex)}
  ELSE {Stopped(s, FALSE)}
       \cup (IF foreign \/ table = {} THEN {}
             ELSE {Delivered(s, Min(table), s.rowIndex + 1)})

Moved(s) ==
  IF s.first THEN {Delivered(s, s.at, s.rowIndex)}
  ELSE {Stopped(s, FALSE)}
       \cup (IF foreign THEN {}
             ELSE IF After(From(s)) = {} THEN {Stopped(s, TRUE)}
             ELSE {Delivered(s, Min(After(From(s))), s.rowIndex + 1)})

MoveNext(r) ==
  /\ Running /\ rs[r].stmt # "absent"
  /\ \E s \in Moved(rs[r]) : rs' = [rs EXCEPT ![r] = s]
  /\ UNCHANGED <<connection, leaked, file, thread>>

(* An assumption on the program: as every loop of the framework does, it   *)
(* stops reading at the first NO of moveNext, and so does not see the      *)
(* statement start again.                                                  *)
ReadNext(r) == rs[r].stmt # "done" /\ MoveNext(r)

-----------------------------------------------------------------------------
(* The table changes under the result sets: by a statement of the program  *)
(* (a single step of sqlite3_step, finalized at once), or by the other     *)
(* process, which needs the readers' lock released first.                  *)
Change(new) ==
  /\ writes < MaxWrites /\ writes' = writes + 1
  /\ table' = new
  /\ rs' = [r \in ResultSets |->
              IF rs[r] = Absent THEN Absent
              ELSE [rs[r] EXCEPT !.kept = @ \cap new, !.disturbed = TRUE]]

Changes == {table \cup {k} : k \in Keys \ table} \cup {table \ {k} : k \in table}

Execute ==
  /\ Running /\ held /\ ~foreign
  /\ \E new \in Changes : Change(new)
  /\ UNCHANGED <<connection, leaked, foreign, thread>>

ForeignBegin ==
  /\ ~foreign /\ ~Locked /\ writes < MaxWrites
  /\ foreign' = TRUE
  /\ UNCHANGED <<connection, rs, leaked, table, writes, thread>>

ForeignCommit ==
  /\ foreign
  /\ foreign' = FALSE
  /\ \E new \in Changes : Change(new)
  /\ UNCHANGED <<connection, leaked, thread>>

-----------------------------------------------------------------------------
(* Retain counts.  The connection counts its owners; its dealloc, at the   *)
(* last release, calls sqlite3_close.  With a statement left that has not  *)
(* been finalized it is refused, and the handle is lost with the locks it  *)
(* holds; what becomes of the program then is not followed.                *)
Unfinalized == leaked \/ \E r \in ResultSets : rs[r].stmt # "absent"

LetConnectionGo ==
  /\ refs' = refs - 1
  /\ conn' = IF refs > 1 THEN conn ELSE IF Unfinalized THEN "lost" ELSE "closed"

ReleaseConnection ==
  /\ Running /\ held
  /\ held' = FALSE
  /\ LetConnectionGo
  /\ UNCHANGED <<unbuffered, rs, leaked, file, thread>>

Retain(r) ==
  /\ Running /\ rs[r].holders = {"pool"}
  /\ rs' = [rs EXCEPT ![r].holders = Holders]
  /\ UNCHANGED <<connection, leaked, file, thread>>

(* The dealloc of a result set: what follows what.                         *)
(* Mutant: the connection is released before the statement is finalized. *)
DeallocConnectionFirst == [start |-> "release", release |-> "free", free |-> "program"]

DeallocSteps == [start |-> "free", free |-> "release", release |-> "program"]

(* A holder lets the result set r go; the last one starts its dealloc.     *)
LetGo(r, holder) ==
  /\ holder \in rs[r].holders
  /\ rs' = [rs EXCEPT ![r].holders = @ \ {holder}]
  /\ pc' = IF rs[r].holders = {holder} THEN DeallocSteps.start ELSE pc
  /\ UNCHANGED <<connection, leaked, file, draining>>

Release(r) == Running /\ LetGo(r, "app")

FreeResult(r) ==
  /\ pc = "free" /\ rs[r].stmt # "absent" /\ rs[r].holders = {}
  /\ rs' = [rs EXCEPT ![r] = Absent]
  /\ pc' = DeallocSteps.free
  /\ UNCHANGED <<connection, leaked, file, draining>>

ReleaseFromResult ==
  /\ pc = "release"
  /\ LetConnectionGo
  /\ pc' = DeallocSteps.release
  /\ UNCHANGED <<held, unbuffered, rs, leaked, file, draining>>

(* The autorelease pool lets go of everything it holds, object by object.  *)
Pooled == {r \in ResultSets : "pool" \in rs[r].holders}

DrainPool ==
  /\ Running /\ Pooled # {}
  /\ draining' = TRUE
  /\ UNCHANGED <<connection, rs, leaked, file, pc>>

PoolReleases(r) == draining /\ pc = "program" /\ LetGo(r, "pool")

PoolDrained ==
  /\ draining /\ pc = "program" /\ Pooled = {}
  /\ draining' = FALSE
  /\ UNCHANGED <<connection, rs, leaked, file, pc>>

Next ==
  \/ Connect \/ (\E flag \in Modes : SetUnbuffered(flag))
  \/ Execute \/ ExecuteSelect
  \/ ForeignBegin \/ ForeignCommit
  \/ ReleaseConnection \/ ReleaseFromResult \/ DrainPool \/ PoolDrained
  \/ \E r \in ResultSets : \/ Query(r) \/ ReadNext(r) \/ Retain(r) \/ Release(r)
                           \/ FreeResult(r) \/ PoolReleases(r)

Spec == Init /\ [][Next]_vars

-----------------------------------------------------------------------------
(* Type invariant. *)
TypeOK == /\ conn \in {"closed", "open", "lost"}
          /\ refs \in Nat
          /\ held \in BOOLEAN /\ unbuffered \in BOOLEAN
          /\ rs \in [ResultSets -> Sets]
          /\ leaked \in BOOLEAN /\ foreign \in BOOLEAN
          /\ table \subseteq Keys /\ writes \in 0..MaxWrites
          /\ pc \in Places /\ draining \in BOOLEAN

(* Rows come in the order of their keys and none comes twice, although a   *)
(* buffered query runs twice, the first row of an unbuffered one is read   *)
(* before the object exists, and the table changes between the calls:      *)
(* rowIndex (from 1 when buffered, from 0 when not) counts them exactly.   *)
Position(s) == s.rowIndex + (IF s.buffer \/ s.seen = {} THEN 0 ELSE 1)

DeliveredInOrder ==
  \A r \in ResultSets :
    /\ rs[r].row # 0 => rs[r].row = Max(rs[r].seen)
    /\ Position(rs[r]) = Cardinality(rs[r].seen)

(* A row that has been in the table ever since the query is delivered      *)
(* before the end is, whatever is inserted and deleted around it.          *)
StableRowsDelivered ==
  \A r \in ResultSets : rs[r].eof => rs[r].kept \subseteq rs[r].seen

(* While nothing changes the table, a buffered result set delivers as many *)
(* rows as it has counted: the second run gives what the first one gave.   *)
CountHolds ==
  \A r \in ResultSets :
    rs[r].eof /\ rs[r].buffer /\ ~rs[r].disturbed => Cardinality(rs[r].seen) = rs[r].rows

(* For as long as the table stays as the query found it, a result set is a *)
(* cursor in the sense of RowCursor: it announces the end only after its   *)
(* last row and gives nothing more, and others do not disturb it.  A       *)
(* change of the table ends the promise, as if the cursor were dropped.    *)
Undisturbed(s) == s.stmt # "absent" /\ ~s.disturbed

CursorOf(s) ==
  [phase |-> IF ~Undisturbed(s) THEN "absent" ELSE IF s.eof THEN "ended" ELSE "open",
   streaming |-> Undisturbed(s) /\ ~s.buffer,
   total |-> IF Undisturbed(s) THEN Cardinality(s.kept) ELSE 0,
   pos |-> IF Undisturbed(s) THEN Position(s) ELSE 0]

Cursors == INSTANCE RowCursor WITH
             Cursors <- ResultSets, cursor <- [r \in ResultSets |-> CursorOf(rs[r])]

CursorContract == Cursors!Spec

(* sqlite3_close comes with the last of those who use the handle, never    *)
(* while the program or a result set has it, one in the midst of its       *)
(* dealloc included; and it is refused only for a statement that           *)
(* executeSQL: has forgotten, not for one of a result set.                 *)
ClosedWithLastUser ==
  /\ conn = "open" <=> \/ held \/ pc = "release"
                       \/ \E r \in ResultSets : rs[r].stmt # "absent"
  /\ conn = "lost" => leaked
=============================================================================
