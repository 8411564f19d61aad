--------------------------- MODULE NGMySQLProofs ---------------------------
(***************************************************************************)
(* The safety invariants of NGMySQL, for any number of result sets and any *)
(* bound on their rows.  Type correctness cannot be had on its own: that   *)
(* rowIndex stays below the number of rows follows from InStep, and InStep *)
(* from the single reader of the handle, so one invariant holds them all.  *)
(***************************************************************************)
EXTENDS NGMySQL, FiniteSetTheorems, TLAPS

(* The handle between two calls. *)
HandleOK(h) ==
  /\ h \in Handles
  /\ h.status \in {"READY", "USE_RESULT"}
  /\ h.status = "USE_RESULT" <=> h.owner # NoReader
  /\ h.status = "READY" => h.size = 0 /\ h.unread = 0
  /\ h.unread <= h.size

(* What a result set s with identity r is, seen with the handle h. *)
Left(s, h) == IF Attached(s) THEN h.unread ELSE s.unread

SetOK(s, h, r) ==
  /\ s \in Sets
  /\ s.kind = "absent" => s = Absent
  /\ Attached(s) <=> h.owner = r
  /\ Attached(s) => s.total = h.size
  /\ s.ptr => /\ s.kind # "absent" /\ ~s.eof
              /\ Position(s) + Left(s, h) = s.total
  /\ Position(s) <= s.total
  /\ s.row # 0 => s.row = Position(s)

SetsOK(f, h) == /\ f \in [ResultSets -> Sets]
                /\ \A r \in ResultSets : SetOK(f[r], h, r)

OthersOK == /\ open \in BOOLEAN /\ held \in BOOLEAN /\ unbuffered \in BOOLEAN
            /\ stmt \in [holders : SUBSET Holders, unbuffered : BOOLEAN]
            /\ ret \in Calls

(* What the thread is in the middle of: only the result set whose dealloc  *)
(* has begun is without a holder, and it is gone once its result is freed. *)
ThreadOK ==
  /\ pc \in Places /\ draining \in BOOLEAN /\ object \in ResultSets \cup {NoReader}
  /\ pc # "program" => object \in ResultSets
  /\ \A r \in ResultSets :
       rs[r].holders = {} => rs[r] = Absent \/ (pc = "free" /\ object = r)
  /\ pc = "free" => rs[object] # Absent
  /\ pc = "release" => rs[object] = Absent
  /\ pc = "rows" => rs[object].ptr

(* The owners of the connection other than the program and the statement.  *)
Live == {r \in ResultSets : rs[r] # Absent}
Owners == Live \cup (IF pc = "release" THEN {object} ELSE {})

Bit(b) == IF b THEN 1 ELSE 0

(* The retain count is the number of owners, and the handle is open while  *)
(* it is not zero.                                                         *)
CountOK == /\ refs = Bit(held) + Bit(stmt.holders # {}) + Cardinality(Owners)
           /\ open <=> refs > 0

(* The inductive invariant. *)
Core == OthersOK /\ HandleOK(mysql) /\ SetsOK(rs, mysql)
Inv == Core /\ ThreadOK /\ CountOK

-----------------------------------------------------------------------------
(* The handle after a failed read or a finished result. *)
Unused(h) == h.owner = NoReader /\ h.size = 0 /\ h.unread = 0

LEMMA IdleOK ==
  ASSUME NEW h \in Handles
  PROVE  \A b \in {Idle(h)} \cup Broken(h) : HandleOK(b) /\ Unused(b)
<1>1. Idle(h) \in Handles /\ HandleOK(Idle(h)) /\ Unused(Idle(h))
  <2>1. 0 \in 0..MaxRows BY NGMySQLAssumption
  <2>2. h.link \in {"up", "down"} /\ h.errno \in Errors BY DEF Handles
  <2>3. Idle(h) \in Handles BY <2>1, <2>2 DEF Idle, Handles
  <2> QED BY <2>3 DEF Idle, HandleOK, Unused
<1>2. ASSUME NEW e \in {"server", "lost"}
      PROVE  LET b == [Idle(h) EXCEPT !.link = IF e = "server" THEN "up" ELSE "down", !.errno = e]
             IN HandleOK(b) /\ Unused(b)
  BY <1>1 DEF HandleOK, Handles, Errors, Unused
<1> QED BY <1>1, <1>2 DEF Broken

(* What exec leaves: a streamed result takes the handle, which was free;   *)
(* anything else leaves the handle as busy or as free as it was.           *)
Unmoved(h, k) == k.owner = h.owner /\ k.size = h.size /\ k.unread = h.unread

LEMMA ExecOutcome ==
  ASSUME NEW h, HandleOK(h), NEW select \in BOOLEAN, NEW stream \in BOOLEAN,
         NEW reader \in ResultSets \cup {Orphan},
         NEW o \in Exec(h, select, stream, reader)
  PROVE  /\ HandleOK(o.h)
         /\ o.err \in Errors /\ o.rows \in 0..MaxRows /\ o.res \in Kinds
         /\ o.res # "stream" => Unmoved(h, o.h)
         /\ o.res = "stream" => /\ h.owner = NoReader /\ o.h.owner = reader
                               /\ o.h.size = o.rows /\ o.h.unread = o.rows
<1>1. PICK q \in RealQuery(h, select) :
        o \in IF q.errno # "none" THEN {Outcome(q, "absent", 0, q.errno)}
              ELSE IF q.status = "READY" THEN {Outcome(q, "absent", 0, "none")}
              ELSE Fetched(q, stream, reader)
  BY DEF Exec
<1>2. h \in Handles BY DEF HandleOK
<1>3. CASE h.link = "down" \/ h.status # "READY"
  <2>1. q.errno \in {"lost", "sync"} /\ q = [h EXCEPT !.errno = q.errno]
    BY <1>3, <1>2 DEF RealQuery, Handles
  <2> QED BY <1>1, <1>2, <2>1, NGMySQLAssumption
         DEF HandleOK, Handles, Outcome, Errors, Kinds, Unmoved
<1>4. CASE h.link = "up" /\ h.status = "READY"
  <2>0. h.owner = NoReader /\ h.size = 0 /\ h.unread = 0 BY <1>4 DEF HandleOK
  <2>1. CASE q \in Broken(h)
    <3>1. q.errno \in {"server", "lost"} BY <2>1, <1>2 DEF Broken, Idle, Handles
    <3>2. HandleOK(q) /\ Unused(q) BY <2>1, <1>2, IdleOK
    <3> QED BY <1>1, <2>0, <3>1, <3>2, NGMySQLAssumption
           DEF Outcome, Errors, Kinds, Unmoved, Unused
  <2>2. CASE q = [h EXCEPT !.errno = "none"] /\ ~select
    <3>1. q \in Handles /\ q.status = "READY" /\ q.errno = "none" /\ Unmoved(h, q)
      BY <2>2, <1>2, <1>4 DEF Handles, Errors, Unmoved
    <3>2. o = Outcome(q, "absent", 0, "none") BY <1>1, <3>1
    <3> QED BY <3>1, <3>2, <1>4, <2>0, NGMySQLAssumption DEF HandleOK, Outcome, Errors, Kinds, Unmoved
  <2>3. CASE \E n \in 0..MaxRows : q = [h EXCEPT !.errno = "none", !.status = "GET_RESULT",
                                                !.size = n, !.unread = n]
    <3>1. q \in Handles /\ q.status = "GET_RESULT" /\ q.errno = "none"
          /\ q.size = q.unread /\ q.owner = NoReader
      BY <2>3, <1>2, <2>0 DEF Handles, Errors
    <3>2. o \in Fetched(q, stream, reader) BY <1>1, <3>1
    <3>3. CASE stream
      <4>1. o = Outcome(UseResult(q, reader), "stream", q.size, "none")
        BY <3>2, <3>3 DEF Fetched
      <4>2. o.h = [link |-> q.link, status |-> "USE_RESULT", owner |-> reader, size |-> q.size,
                   unread |-> q.size, errno |-> q.errno]
        BY <4>1, <3>1 DEF Outcome, UseResult, Handles
      <4>3. o.h \in Handles BY <4>2, <3>1 DEF Handles
      <4>4. HandleOK(o.h) BY <4>2, <4>3, <3>1, NGMySQLAssumption DEF HandleOK, Handles
      <4> QED BY <4>1, <4>2, <4>4, <2>0, <3>1 DEF Outcome, Errors, Kinds, Handles
    <3>4. CASE ~stream
      <4>1. PICK s \in StoreResult(q) :
              o = Outcome(s, IF s.errno = "none" THEN "stored" ELSE "absent", q.size, "none")
        BY <3>2, <3>4 DEF Fetched
      <4>2. HandleOK(s) /\ Unused(s) BY <3>1, IdleOK DEF StoreResult
      <4> QED BY <4>1, <4>2, <2>0, <3>1 DEF Outcome, Errors, Kinds, Handles, Unmoved, Unused
    <3> QED BY <3>3, <3>4
  <2> QED BY <1>4, <2>1, <2>2, <2>3 DEF RealQuery, Answers
<1> QED BY <1>2, <1>3, <1>4 DEF Handles

(* A result set notices a change of the handle only if it owns the handle. *)
LEMMA Frame ==
  ASSUME NEW h, NEW k, NEW r, NEW s, SetOK(s, h, r),
         h.owner = r <=> k.owner = r,
         h.owner = r => h.size = k.size /\ h.unread = k.unread
  PROVE  SetOK(s, k, r)
<1>1. Left(s, h) = Left(s, k) BY DEF SetOK, Left
<1> QED BY <1>1 DEF SetOK

(* A new result set, before its first row. *)
LEMMA NewOK ==
  ASSUME NEW r \in ResultSets, NEW o, NEW holders \in SUBSET Holders, holders # {},
         HandleOK(o.h), o.res \in {"stored", "stream"}, o.rows \in 0..MaxRows,
         o.res = "stored" => o.h.owner # r,
         o.res = "stream" => o.h.owner = r /\ o.h.size = o.rows /\ o.h.unread = o.rows
  PROVE  LET s == NewResultSet(o, holders)
         IN SetOK(s, o.h, r) /\ s.ptr /\ s.kind = o.res /\ Position(s) = 0
<1> DEFINE s == NewResultSet(o, holders)
<1>1. s.kind = o.res /\ s.ptr = TRUE /\ s.fetched = FALSE /\ s.row = 0 /\ s.holders = holders
      /\ s.eof = FALSE /\ s.total = o.rows /\ s.unread = IF o.res = "stored" THEN o.rows ELSE 0
  BY DEF NewResultSet
<1>2. s \in Sets
  BY NGMySQLAssumption DEF NewResultSet, Sets, Kinds
<1>3. Position(s) = 0 BY <1>1 DEF Position
<1>4. Attached(s) <=> o.h.owner = r BY <1>1 DEF Attached
<1>5. Left(s, o.h) = o.rows BY <1>1 DEF Attached, Left
<1>6. s.holders # {} /\ s.kind # "absent" BY <1>1
<1>7. SetOK(s, o.h, r)
  <2> HIDE DEF s
  <2>1. Attached(s) => s.total = o.h.size BY <1>1, <1>4
  <2>2. Position(s) + Left(s, o.h) = s.total /\ Position(s) <= s.total
    BY <1>1, <1>3, <1>5, NGMySQLAssumption
  <2> QED BY <1>1, <1>2, <1>4, <1>6, <2>1, <2>2 DEF SetOK
<1> QED BY <1>1, <1>3, <1>7

(* A result set keeps to its rows when one is read, or when none comes.    *)
LEMMA MovedOK ==
  ASSUME NEW r \in ResultSets, NEW h, NEW k, NEW s, NEW row \in 0..MaxRows,
         SetOK(s, h, r), s.ptr, s.kind \in {"stored", "stream"},
         HandleOK(h), HandleOK(k),
         row = 0 => k.owner # r,
         row # 0 => /\ row = Position(s) + 1 /\ row <= s.total
                    /\ k.owner = r <=> h.owner = r
                    /\ h.owner = r => k.size = h.size /\ k.unread = h.unread - 1
                    /\ h.owner # r => s.unread > 0
  PROVE  SetOK(Moved(s, row), k, r)
<1> DEFINE m == Moved(s, row)
<1>0. s \in Sets /\ MaxRows \in Nat BY NGMySQLAssumption DEF SetOK
<1>1. ASSUME row = 0 PROVE SetOK(m, k, r)
  <2>1. m = [s EXCEPT !.row = 0, !.eof = TRUE, !.ptr = FALSE, !.unread = 0]
    BY <1>1 DEF Moved
  <2>2. 0 \in 0..MaxRows BY <1>0
  <2>3. m \in Sets BY <2>1, <2>2, <1>0 DEF Sets
  <2>4. m.ptr = FALSE /\ m.row = 0 /\ m.kind = s.kind /\ m.holders = s.holders
        /\ m.total = s.total /\ m.fetched = s.fetched /\ m.rowIndex = s.rowIndex
    BY <2>1, <1>0 DEF Sets
  <2> HIDE DEF m
  <2>5. ~Attached(m) BY <2>4 DEF Attached
  <2>7. Position(m) <= m.total BY <2>4 DEF SetOK, Position
  <2> QED BY <2>3, <2>4, <2>5, <2>7, <1>1 DEF SetOK
<1>2. ASSUME row # 0 PROVE SetOK(m, k, r)
  <2> DEFINE index == IF s.fetched THEN s.rowIndex + 1 ELSE 0
             unread == IF s.kind = "stored" THEN s.unread - 1 ELSE 0
  <2>1. m = [s EXCEPT !.row = row, !.eof = FALSE, !.fetched = TRUE,
                      !.rowIndex = index, !.unread = unread]
    BY <1>2 DEF Moved
  <2>2. Position(s) \in Nat /\ index = Position(s) /\ index \in 0..MaxRows
    <3>1. s.rowIndex \in 0..MaxRows /\ s.fetched \in BOOLEAN /\ s.total \in 0..MaxRows
      BY <1>0 DEF Sets
    <3>2. CASE s.fetched = TRUE
      BY <3>1, <3>2, <1>0, <1>2 DEF Position
    <3>3. CASE s.fetched = FALSE
      BY <3>3, <1>0 DEF Position
    <3> QED BY <3>1, <3>2, <3>3
  <2>3. Attached(s) <=> h.owner = r BY DEF SetOK
  <2>4. unread \in 0..MaxRows
    BY <1>0, <1>2, <2>3 DEF Sets, Attached
  <2>5. /\ m \in Sets /\ m.kind = s.kind /\ m.ptr = s.ptr /\ m.holders = s.holders
        /\ m.total = s.total /\ m.row = row /\ m.rowIndex = index /\ m.fetched = TRUE
        /\ m.eof = FALSE
        /\ m.unread = unread
    BY <1>0, <2>1, <2>2, <2>4 DEF Sets
  <2> HIDE DEF m
  <2>6. Position(m) = Position(s) + 1 BY <2>2, <2>5 DEF Position
  <2>7. Attached(m) <=> k.owner = r BY <2>3, <2>5, <1>2 DEF Attached
  <2>8. Left(m, k) = Left(s, h) - 1
    BY <2>3, <2>5, <2>7, <1>2 DEF Left, Attached
  <2>9. Left(s, h) \in Nat
    BY <1>0 DEF Left, Sets, HandleOK, Handles
  <2>10. Position(m) + Left(m, k) = m.total
    BY <2>2, <2>5, <2>6, <2>8, <2>9 DEF SetOK
  <2>11. Attached(m) => m.total = k.size BY <2>3, <2>5, <2>7, <1>2 DEF SetOK
  <2> QED BY <2>5, <2>6, <2>7, <2>10, <2>11, <1>2 DEF SetOK
<1> QED BY <1>1, <1>2

(* What a read of one result set does to the handle the others see. *)
OnlyReader(h, k, r) ==
  IF h.owner = r THEN k.owner \in {r, NoReader} ELSE k = h

(* mysql_fetch_row and moveNext. *)
LEMMA FetchOK ==
  ASSUME NEW r \in ResultSets, NEW h, NEW s, HandleOK(h), SetOK(s, h, r), s.ptr,
         NEW f \in FetchRow(h, s)
  PROVE  /\ HandleOK(f.h) /\ SetOK(Moved(s, f.row), f.h, r)
         /\ OnlyReader(h, f.h, r)
<1>0. s \in Sets /\ h \in Handles /\ MaxRows \in Nat /\ r # NoReader
  BY NGMySQLAssumption DEF SetOK, HandleOK
<1>1. s.kind \in {"stored", "stream"} BY <1>0 DEF SetOK, Sets, Kinds
<1>2. (Attached(s) <=> h.owner = r) /\ (Attached(s) <=> s.kind = "stream")
  BY DEF SetOK, Attached
<1>3. Position(s) \in Nat /\ Position(s) + Left(s, h) = s.total
      /\ s.total \in 0..MaxRows /\ s.unread \in 0..MaxRows
      /\ h.unread \in 0..MaxRows /\ h.size \in 0..MaxRows
  BY <1>0 DEF SetOK, Sets, Handles, Position
<1>4. CASE s.kind = "stored"
  <2>1. f = [h |-> h, row |-> IF s.unread > 0 THEN s.total - s.unread + 1 ELSE 0]
    BY <1>4 DEF FetchRow
  <2>2. Left(s, h) = s.unread /\ h.owner # r BY <1>2, <1>4 DEF Left
  <2>3. f.row \in 0..MaxRows
        /\ (f.row # 0 => f.row = Position(s) + 1 /\ f.row <= s.total /\ s.unread > 0)
    BY <2>1, <2>2, <1>0, <1>3
  <2> QED BY <2>1, <2>2, <2>3, <1>1, MovedOK DEF OnlyReader
<1>5. CASE s.kind = "stream"
  <2>1. h.owner = r /\ h.status = "USE_RESULT" /\ s.total = h.size
    BY <1>0, <1>2, <1>5 DEF HandleOK, SetOK
  <2>2. CASE f.row = 0 /\ f.h \in {Idle(h)} \cup Broken(h)
    <3>1. HandleOK(f.h) /\ f.h.owner = NoReader BY <1>0, <2>2, IdleOK DEF Unused
    <3>2. f.row \in 0..MaxRows /\ f.h.owner # r BY <1>0, <2>2, <3>1
    <3>3. SetOK(Moved(s, f.row), f.h, r) BY <1>1, <2>2, <3>1, <3>2, MovedOK
    <3> QED BY <2>1, <3>1, <3>3 DEF OnlyReader
  <2>3. CASE h.unread > 0 /\ f = [h |-> [h EXCEPT !.unread = h.unread - 1],
                                   row |-> h.size - h.unread + 1]
    <3>1. f.h.owner = r /\ f.h.size = h.size /\ f.h.unread = h.unread - 1
          /\ f.h.status = h.status /\ f.h \in Handles
      BY <1>0, <1>3, <2>1, <2>3 DEF Handles
    <3>2. HandleOK(f.h) BY <3>1, <2>1, <1>0, <1>3 DEF HandleOK
    <3>3. Left(s, h) = h.unread BY <1>2, <2>1 DEF Left
    <3>4. f.row \in 0..MaxRows /\ f.row = Position(s) + 1 /\ f.row <= s.total
      BY <1>0, <1>3, <2>1, <2>3, <3>3
    <3>5. f.row # 0 BY <1>3, <3>4
    <3>6. SetOK(Moved(s, f.row), f.h, r) BY <1>1, <2>1, <3>1, <3>2, <3>4, <3>5, MovedOK
    <3> QED BY <2>1, <3>1, <3>2, <3>6 DEF OnlyReader
  <2> QED BY <1>5, <2>1, <2>2, <2>3, <1>3 DEF FetchRow
<1> QED BY <1>1, <1>4, <1>5

(* What a read leaves of a result set. *)
LEMMA MovedKeeps ==
  ASSUME NEW s \in Sets, NEW row
  PROVE  /\ Moved(s, row).kind = s.kind /\ Moved(s, row).holders = s.holders
         /\ Moved(s, row).total = s.total
         /\ row > 0 => Moved(s, row).ptr = s.ptr
<1>1. CASE row > 0 BY <1>1 DEF Moved, Sets
<1>2. CASE ~(row > 0) BY <1>2 DEF Moved, Sets
<1> QED BY <1>1, <1>2

(* Freeing a result set makes the handle ready if it was still reading.    *)
LEMMA FreedOK ==
  ASSUME NEW r \in ResultSets, NEW h, NEW s, HandleOK(h), SetOK(s, h, r),
         NEW k \in Freed(h, s)
  PROVE  /\ HandleOK(k)
         /\ IF h.owner = r THEN k.owner = NoReader ELSE k = h
<1>1. Attached(s) <=> h.owner = r BY DEF SetOK
<1>2. h \in Handles /\ (h.owner = r => h.status = "USE_RESULT")
  BY NGMySQLAssumption DEF HandleOK
<1>3. CASE h.owner = r
  <2>1. k \in {Idle(h)} \cup Broken(h) BY <1>1, <1>2, <1>3 DEF Freed
  <2> QED BY <1>2, <1>3, <2>1, IdleOK DEF Unused
<1>4. CASE h.owner # r
  <2>1. k = h BY <1>1, <1>4 DEF Freed
  <2> QED BY <1>4, <2>1
<1> QED BY <1>3, <1>4

(* Who holds a result set is no business of the handle.                    *)
LEMMA HoldersOK ==
  ASSUME NEW s, NEW h, NEW r, SetOK(s, h, r), s.kind # "absent",
         NEW holders \in SUBSET Holders, NEW t, t = [s EXCEPT !.holders = holders]
  PROVE  SetOK(t, h, r) /\ t.kind = s.kind /\ t.holders = holders /\ t.ptr = s.ptr
<1>1. s \in Sets BY DEF SetOK
<1>2. t \in Sets BY <1>1 DEF Sets
<1>3. t.kind = s.kind /\ t.ptr = s.ptr /\ t.total = s.total /\ t.row = s.row
      /\ t.unread = s.unread /\ t.eof = s.eof /\ t.fetched = s.fetched
      /\ t.rowIndex = s.rowIndex /\ t.holders = holders
  BY <1>1 DEF Sets
<1>4. Position(t) = Position(s) /\ (Attached(t) <=> Attached(s)) /\ Left(t, h) = Left(s, h)
  BY <1>3 DEF Position, Attached, Left
<1> QED BY <1>2, <1>3, <1>4 DEF SetOK

-----------------------------------------------------------------------------
(* The handle k differs from h only in what concerns the result set r. *)
Spares(h, k, r) ==
  \A q \in ResultSets \ {r} :
    /\ h.owner = q <=> k.owner = q
    /\ h.owner = q => h.size = k.size /\ h.unread = k.unread

LEMMA Replace ==
  ASSUME NEW f, NEW h, NEW k, SetsOK(f, h), NEW r \in ResultSets, NEW s,
         Spares(h, k, r), SetOK(s, k, r)
  PROVE  SetsOK([f EXCEPT ![r] = s], k)
<1> DEFINE g == [f EXCEPT ![r] = s]
<1>1. g \in [ResultSets -> Sets] BY DEF SetsOK, SetOK
<1>2. ASSUME NEW q \in ResultSets PROVE SetOK(g[q], k, q)
  <2>1. CASE q = r BY <2>1, <1>1 DEF SetsOK
  <2>2. CASE q # r
    <3>1. g[q] = f[q] /\ SetOK(f[q], h, q) BY <2>2 DEF SetsOK
    <3> QED BY <2>2, <3>1, Frame DEF Spares
  <2> QED BY <2>1, <2>2
<1> QED BY <1>1, <1>2 DEF SetsOK

LEMMA SparesOK ==
  ASSUME NEW h, NEW k, NEW r \in ResultSets,
         \/ Unmoved(h, k)
         \/ OnlyReader(h, k, r)
         \/ h.owner = NoReader /\ k.owner = r
  PROVE  Spares(h, k, r)
BY NGMySQLAssumption DEF Spares, Unmoved, OnlyReader

(* The shared part of query:withArray:status: and of the helpers: exec,    *)
(* then a new result set around the result.                                *)
LEMMA QueryOK ==
  ASSUME HandleOK(mysql), SetsOK(rs, mysql), NEW r \in ResultSets, rs[r] = Absent,
         NEW select \in BOOLEAN, NEW stream \in BOOLEAN,
         NEW o \in Exec(mysql, select, stream, r),
         NEW holders \in SUBSET Holders, holders # {}
  PROVE  /\ HandleOK(o.h) /\ o.err \in Errors
         /\ SetsOK(Wrapped(r, o, holders), o.h)
         /\ o.res # "absent" => LET new == NewResultSet(o, holders)
                               IN SetOK(new, o.h, r) /\ new.ptr /\ Position(new) = 0
<1>1. /\ HandleOK(o.h) /\ o.err \in Errors /\ o.rows \in 0..MaxRows /\ o.res \in Kinds
      /\ o.res # "stream" => Unmoved(mysql, o.h)
      /\ o.res = "stream" => /\ mysql.owner = NoReader /\ o.h.owner = r
                            /\ o.h.size = o.rows /\ o.h.unread = o.rows
  BY ExecOutcome
<1>2. mysql.owner # r BY DEF SetsOK, SetOK, Attached, Absent
<1>3. Spares(mysql, o.h, r) BY <1>1, SparesOK
<1>4. CASE o.res = "absent"
  <2>1. SetOK(rs[r], o.h, r) BY <1>1, <1>2, <1>4, Frame DEF SetsOK, Unmoved
  <2>2. SetsOK([rs EXCEPT ![r] = rs[r]], o.h) BY <1>3, <2>1, Replace
  <2>3. [rs EXCEPT ![r] = rs[r]] = rs BY DEF SetsOK
  <2> QED BY <1>1, <1>4, <2>2, <2>3 DEF Wrapped
<1>5. CASE o.res # "absent"
  <2>1. o.res \in {"stored", "stream"} BY <1>1, <1>5 DEF Kinds
  <2>2. o.res = "stored" => o.h.owner # r BY <1>1, <1>2 DEF Unmoved
  <2>3. LET new == NewResultSet(o, holders)
        IN SetOK(new, o.h, r) /\ new.ptr /\ Position(new) = 0
    BY <1>1, <2>1, <2>2, NewOK
  <2> QED BY <1>1, <1>3, <1>5, <2>3, Replace DEF Wrapped
<1> QED BY <1>4, <1>5

(* A statement executed for its effect. *)
LEMMA DiscardedOK ==
  ASSUME HandleOK(mysql), SetsOK(rs, mysql), NEW select \in BOOLEAN, NEW stream \in BOOLEAN,
         NEW o \in Exec(mysql, select, stream, Orphan)
  PROVE  HandleOK(o.h) /\ o.err \in Errors /\ SetsOK(rs, o.h)
<1>1. /\ HandleOK(o.h) /\ o.err \in Errors
      /\ Unmoved(mysql, o.h) \/ (mysql.owner = NoReader /\ o.h.owner = Orphan)
  BY ExecOutcome
<1>2. ASSUME NEW q \in ResultSets PROVE SetOK(rs[q], o.h, q)
  BY <1>1, Frame, NGMySQLAssumption DEF SetsOK, Unmoved
<1> QED BY <1>1, <1>2 DEF SetsOK

-----------------------------------------------------------------------------
Ops == {"none", "connect", "query", "execute", "row", "rows"}
Values == {"nil", "object", "NO", "YES"}

LEMMA ReturnsOK ==
  ASSUME NEW op \in Ops, NEW value \in Values, NEW err \in Errors
  PROVE  /\ NoCall \in Calls /\ Returns(op, value, err) \in Calls
         /\ \A n \in 0..MaxRows : [Returns(op, value, err) EXCEPT !.missing = n] \in Calls
<1>1. NoCall \in Calls
  BY NGMySQLAssumption DEF NoCall, Calls, Errors
<1>2. Returns(op, value, err) \in Calls
  BY <1>1 DEF Returns, Calls, Ops, Values
<1> QED BY <1>1, <1>2 DEF Calls

(* The initial state, for any handle that has just been made. *)
LEMMA FreshOK == HandleOK(FreshHandle) /\ SetsOK([r \in ResultSets |-> Absent], FreshHandle)
<1>1. FreshHandle \in Handles /\ Absent \in Sets
  BY NGMySQLAssumption DEF FreshHandle, Handles, Errors, Absent, Sets, Kinds
<1>2. HandleOK(FreshHandle) BY <1>1 DEF HandleOK, FreshHandle
<1>3. ASSUME NEW r \in ResultSets PROVE SetOK(Absent, FreshHandle, r)
  BY <1>1, NGMySQLAssumption DEF SetOK, Attached, Absent, FreshHandle, Position
<1> QED BY <1>1, <1>2, <1>3 DEF SetsOK

(* No result set left: any new handle will do. *)
LEMMA NoneLeft ==
  ASSUME NEW f \in [ResultSets -> Sets], \A r \in ResultSets : f[r] = Absent
  PROVE  SetsOK(f, FreshHandle)
<1>1. f = [r \in ResultSets |-> Absent] OBVIOUS
<1> QED BY <1>1, FreshOK

LEMMA OwnersFinite ==
  /\ IsFiniteSet(Live) /\ Cardinality(Live) \in Nat
  /\ IsFiniteSet(Owners) /\ Cardinality(Owners) \in Nat
<1>1. IsFiniteSet(Live) BY NGMySQLAssumption, FS_Subset DEF Live
<1>2. IsFiniteSet(IF pc = "release" THEN {object} ELSE {})
  <2>1. IsFiniteSet({object}) BY FS_Singleton
  <2>2. IsFiniteSet({}) BY FS_EmptySet
  <2> QED BY <2>1, <2>2
<1>3. IsFiniteSet(Owners) BY <1>1, <1>2, FS_Union DEF Owners
<1> QED BY <1>1, <1>3, FS_CardinalityType

LEMMA InvInit == Init => Inv
<1> SUFFICES ASSUME Init PROVE Inv OBVIOUS
<1>1. HandleOK(mysql) /\ SetsOK(rs, mysql) BY FreshOK DEF Init
<1>2. NoCall \in Calls BY ReturnsOK DEF Ops, Values, Errors
<1>3. OthersOK BY <1>2 DEF Init, OthersOK, NoStatement
<1>4. ThreadOK BY DEF Init, ThreadOK, Places
<1>5. CountOK
  <2>1. Owners = {} BY DEF Init, Owners, Live
  <2>2. Cardinality(Owners) = 0 BY <2>1, FS_EmptySet
  <2> QED BY <2>2 DEF Init, CountOK, Bit, NoStatement
<1> QED BY <1>1, <1>3, <1>4, <1>5 DEF Inv, Core

(* When the count is one, whoever lets the connection go is the last.      *)
LEMMA LastOwner ==
  ASSUME Inv, refs = 1, held \/ stmt.holders # {} \/ pc = "release"
  PROVE  Live = {}
<1>0. /\ refs = Bit(held) + Bit(stmt.holders # {}) + Cardinality(Owners)
      /\ Bit(held) \in {0, 1} /\ Bit(stmt.holders # {}) \in {0, 1}
  BY DEF Inv, CountOK, Bit
<1>1. CASE held \/ stmt.holders # {}
  <2>1. Bit(held) = 1 \/ Bit(stmt.holders # {}) = 1 BY <1>1 DEF Bit
  <2>2. Cardinality(Owners) = 0 BY <1>0, <2>1, OwnersFinite
  <2>3. Owners = {} BY <2>2, OwnersFinite, FS_EmptySet
  <2> QED BY <2>3 DEF Owners
<1>2. CASE pc = "release"
  <2>1. object \notin Live /\ Owners = Live \cup {object}
    BY <1>2 DEF Inv, ThreadOK, Live, Owners
  <2>2. Cardinality(Owners) = Cardinality(Live) + 1
    BY <2>1, OwnersFinite, FS_AddElement
  <2>3. Cardinality(Live) = 0 BY <1>0, <2>2, OwnersFinite
  <2> QED BY <2>3, OwnersFinite, FS_EmptySet
<1> QED BY <1>1, <1>2

(* The owner of a reference lets it go. *)
LEMMA LetGoOK ==
  ASSUME Inv, LetConnectionGo, held \/ stmt.holders # {} \/ pc = "release", rs' = rs
  PROVE  /\ HandleOK(mysql') /\ SetsOK(rs', mysql') /\ open' \in BOOLEAN
         /\ refs' = refs - 1 /\ refs >= 1 /\ (open' <=> refs' > 0)
<1>0. /\ refs = Bit(held) + Bit(stmt.holders # {}) + Cardinality(Owners)
      /\ Bit(held) \in {0, 1} /\ Bit(stmt.holders # {}) \in {0, 1}
      /\ open <=> refs > 0
  BY DEF Inv, CountOK, Bit
<1>1. refs \in Nat /\ refs >= 1
  <2>1. CASE held \/ stmt.holders # {}
    <3>1. Bit(held) = 1 \/ Bit(stmt.holders # {}) = 1 BY <2>1 DEF Bit
    <3> QED BY <1>0, <3>1, OwnersFinite
  <2>2. CASE pc = "release"
    <3>1. object \in Owners BY <2>2 DEF Owners
    <3>2. Cardinality(Owners) # 0 BY <3>1, OwnersFinite, FS_EmptySet
    <3> QED BY <1>0, <3>2, OwnersFinite
  <2> QED BY <2>1, <2>2
<1>2. HandleOK(mysql) /\ SetsOK(rs, mysql) /\ open \in BOOLEAN
  BY DEF Inv, Core, OthersOK
<1>3. CASE refs = 1
  <2>1. open' = FALSE /\ mysql' = FreshHandle /\ refs' = refs - 1
    BY <1>3 DEF LetConnectionGo
  <2>2. \A r \in ResultSets : rs[r] = Absent BY <1>3, LastOwner DEF Live
  <2>3. HandleOK(mysql') /\ SetsOK(rs', mysql')
    BY <1>2, <2>1, <2>2, FreshOK, NoneLeft DEF SetsOK
  <2>4. open' \in BOOLEAN /\ ~open' BY <2>1
  <2>5. refs' = 0 /\ refs' = refs - 1 /\ refs >= 1 BY <1>3, <2>1
  <2>6. ~(refs' > 0) BY <2>5
  <2>7. open' <=> refs' > 0 BY <2>4, <2>6, Zenon
  <2> QED BY <2>3, <2>4, <2>5, <2>7
<1>4. CASE refs # 1
  <2>1. open' = open /\ mysql' = mysql /\ refs' = refs - 1
    BY <1>4 DEF LetConnectionGo
  <2> QED BY <1>0, <1>1, <1>2, <1>4, <2>1
<1> QED BY <1>3, <1>4

(* What a query does to the result sets and the count.                     *)
Makes(r, s) ==
  /\ rs[r] = Absent /\ rs' = [rs EXCEPT ![r] = s]
  /\ s.kind # "absent" /\ s.holders # {}
  /\ refs' = refs + 1
  /\ UNCHANGED thread \/ (pc' = "rows" /\ object' = r /\ draining' = draining /\ s.ptr)

LEMMA QueryMakes ==
  ASSUME Inv, NEW r \in ResultSets,
         Query(r) \/ StatementQuery(r) \/ RowForQuery(r) \/ RowsForQuery(r)
  PROVE  /\ Running /\ (held \/ stmt.holders # {})
         /\ UNCHANGED <<open, held, stmt>>
         /\ UNCHANGED <<rs, refs, thread>> \/ \E s : Makes(r, s)
<1>1. /\ Running /\ (held \/ stmt.holders # {}) /\ rs[r] = Absent
      /\ UNCHANGED <<open, held, stmt>>
  BY DEF Query, StatementQuery, RowForQuery, RowsForQuery, CanQuery
<1>2. ASSUME NEW o, NEW holders \in SUBSET Holders, holders # {}, o.res # "absent"
      PROVE  LET s == NewResultSet(o, holders)
             IN s.kind # "absent" /\ s.holders # {} /\ s.ptr
  BY <1>2 DEF NewResultSet
<1>3. ASSUME Query(r) \/ StatementQuery(r)
      PROVE  UNCHANGED <<rs, refs, thread>> \/ \E s : Makes(r, s)
  <2>1. PICK holders, o : /\ holders \in {{"app"}, {"pool"}}
                         /\ rs' = Wrapped(r, o, holders) /\ refs' = Retained(o)
    BY <1>3 DEF Query, StatementQuery
  <2>2. thread' = thread BY <1>3 DEF Query, StatementQuery
  <2>3. CASE o.res = "absent" BY <2>1, <2>2, <2>3 DEF Wrapped, Retained
  <2>4. CASE o.res # "absent"
    <3>1. Makes(r, NewResultSet(o, holders))
      BY <1>1, <1>2, <2>1, <2>2, <2>4 DEF Makes, Wrapped, Retained, Holders
    <3> QED BY <3>1
  <2> QED BY <2>3, <2>4
<1>4. ASSUME RowsForQuery(r)
      PROVE  UNCHANGED <<rs, refs, thread>> \/ \E s : Makes(r, s)
  <2>1. PICK o : /\ rs' = Wrapped(r, o, {"pool"}) /\ refs' = Retained(o)
                 /\ IF o.res = "absent" THEN UNCHANGED <<pc, object>>
                    ELSE pc' = "rows" /\ object' = r
    BY <1>4 DEF RowsForQuery
  <2>2. draining' = draining BY <1>4 DEF RowsForQuery
  <2>3. CASE o.res = "absent" BY <2>1, <2>2, <2>3 DEF Wrapped, Retained, thread
  <2>4. CASE o.res # "absent"
    <3>1. Makes(r, NewResultSet(o, {"pool"}))
      BY <1>1, <1>2, <2>1, <2>2, <2>4 DEF Makes, Wrapped, Retained, Holders
    <3> QED BY <3>1
  <2> QED BY <2>3, <2>4
<1>5. ASSUME RowForQuery(r)
      PROVE  UNCHANGED <<rs, refs, thread>> \/ \E s : Makes(r, s)
  <2>1. PICK o \in Exec(mysql, TRUE, unbuffered, r) :
                 /\ refs' = Retained(o)
                 /\ IF o.res = "absent" THEN rs' = rs
                    ELSE \E f : rs' = [rs EXCEPT ![r] = Moved(NewResultSet(o, {"pool"}), f.row)]
    BY <1>5 DEF RowForQuery
  <2>2. thread' = thread BY <1>5 DEF RowForQuery
  <2>3. CASE o.res = "absent" BY <2>1, <2>2, <2>3 DEF Retained
  <2>4. CASE o.res # "absent"
    <3> DEFINE new == NewResultSet(o, {"pool"})
    <3>1. PICK f : rs' = [rs EXCEPT ![r] = Moved(new, f.row)] BY <2>1, <2>4
    <3>2. new \in Sets
      <4>1. unbuffered \in BOOLEAN /\ TRUE \in BOOLEAN /\ HandleOK(mysql) /\ SetsOK(rs, mysql)
            /\ {"pool"} \in SUBSET Holders /\ {"pool"} # {}
        BY DEF Inv, Core, OthersOK, Holders
      <4>2. SetOK(new, o.h, r) BY <1>1, <2>4, <4>1, QueryOK
      <4> QED BY <4>2 DEF SetOK
    <3>3. new.kind # "absent" /\ new.holders # {} BY <1>2, <2>4 DEF Holders
    <3> HIDE DEF new
    <3>4. Makes(r, Moved(new, f.row))
      BY <1>1, <2>1, <2>2, <2>4, <3>1, <3>2, <3>3, MovedKeeps DEF Makes, Retained
    <3> QED BY <3>4
  <2> QED BY <2>3, <2>4
<1> QED BY <1>1, <1>3, <1>4, <1>5

(* What a read of the result set r does to the result sets. *)
LEMMA ReadChanges ==
  ASSUME Inv, NEW r \in ResultSets, rs[r].ptr, NEW row, rs' = [rs EXCEPT ![r] = Moved(rs[r], row)]
  PROVE  /\ rs[r] # Absent /\ rs'[r] # Absent /\ rs'[r].holders = rs[r].holders
         /\ row > 0 => rs'[r].ptr
<1>1. rs \in [ResultSets -> Sets] /\ SetOK(rs[r], mysql, r) BY DEF Inv, Core, SetsOK
<1>2. rs'[r] = Moved(rs[r], row) BY <1>1
<1>3. rs[r] # Absent /\ rs[r].kind # "absent" /\ rs[r] \in Sets BY <1>1 DEF Absent, SetOK
<1>4. rs'[r].kind # "absent" BY <1>2, <1>3, MovedKeeps
<1> QED BY <1>2, <1>3, <1>4, MovedKeeps DEF Absent

-----------------------------------------------------------------------------
(* The handle, the result sets and the types.                              *)
LEMMA CoreNext == ASSUME Inv, [Next]_vars PROVE Core'
<1> USE DEF Core
<1>0. /\ unbuffered \in BOOLEAN /\ held \in BOOLEAN /\ open \in BOOLEAN
      /\ stmt.holders \in SUBSET Holders /\ stmt.unbuffered \in BOOLEAN
      /\ stmt \in [holders : SUBSET Holders, unbuffered : BOOLEAN]
      /\ ret \in Calls
      /\ HandleOK(mysql) /\ SetsOK(rs, mysql) /\ rs \in [ResultSets -> Sets]
      /\ Discards \in BOOLEAN /\ {"pool"} \in SUBSET Holders /\ {"app"} \in SUBSET Holders
      /\ {"pool"} # {} /\ {"app"} # {} /\ TRUE \in BOOLEAN /\ FALSE \in BOOLEAN
  BY NGMySQLAssumption DEF Inv, OthersOK, SetsOK, Holders
<1>a. NoCall \in Calls BY ReturnsOK DEF Ops, Values, Errors
<1>1. CASE Connect
  <2>1. \A r \in ResultSets : rs[r] = Absent
    <3>1. refs = 0 /\ Bit(held) \in Nat /\ Bit(stmt.holders # {}) \in Nat
      BY <1>1, OwnersFinite DEF Connect, Inv, CountOK, Bit
    <3>2. Cardinality(Owners) = 0 BY <3>1, OwnersFinite DEF Inv, CountOK
    <3>3. Owners = {} BY <3>2, OwnersFinite, FS_EmptySet
    <3> QED BY <3>3 DEF Owners, Live
  <2>2. HandleOK(mysql') /\ SetsOK(rs', mysql')
    BY <1>0, <1>1, <2>1, FreshOK, NoneLeft DEF Connect
  <2>3. ret' \in Calls BY <1>1, ReturnsOK DEF Connect, Ops, Values, Errors
  <2>4. OthersOK' BY <1>0, <1>1, <2>3 DEF Connect, OthersOK
  <2> QED BY <2>2, <2>4
<1>2. ASSUME NEW flag \in Modes, SetUnbuffered(flag) PROVE Core'
  <2>1. flag \in BOOLEAN BY NGMySQLAssumption
  <2> QED BY <1>0, <1>a, <1>2, <2>1 DEF SetUnbuffered, OthersOK
<1>3. CASE Execute
  <2>0. PICK select \in BOOLEAN : \E o \in Exec(mysql, select, unbuffered, Orphan) : Discarded(o)
    BY <1>0, <1>3 DEF Execute
  <2>1. PICK o \in Exec(mysql, select, unbuffered, Orphan) : Discarded(o) BY <2>0
  <2>2. HandleOK(o.h) /\ o.err \in Errors /\ SetsOK(rs, o.h) BY <1>0, DiscardedOK
  <2>3. ret' \in Calls BY <2>1, <2>2, ReturnsOK DEF Discarded, Ops, Values
  <2> QED BY <1>0, <1>3, <2>1, <2>2, <2>3 DEF Execute, Discarded, OthersOK, connection
<1>4. CASE StatementExecute
  <2>0. PICK select \in BOOLEAN : \E o \in Exec(mysql, select, stmt.unbuffered, Orphan) : Discarded(o)
    BY <1>0, <1>4 DEF StatementExecute
  <2>1. PICK o \in Exec(mysql, select, stmt.unbuffered, Orphan) : Discarded(o) BY <2>0
  <2>2. HandleOK(o.h) /\ o.err \in Errors /\ SetsOK(rs, o.h) BY <1>0, DiscardedOK
  <2>3. ret' \in Calls BY <2>1, <2>2, ReturnsOK DEF Discarded, Ops, Values
  <2> QED BY <1>0, <1>4, <2>1, <2>2, <2>3 DEF StatementExecute, Discarded, OthersOK, connection
<1>5. CASE Prepare
  BY <1>0, <1>a, <1>5 DEF Prepare, OthersOK
<1>6. CASE RetainStatement
  BY <1>0, <1>a, <1>6 DEF RetainStatement, OthersOK, connection
<1>7. ASSUME NEW r \in ResultSets, Query(r) PROVE Core'
  <2>0. PICK select \in BOOLEAN : \E o \in Exec(mysql, select, unbuffered, r) :
          /\ mysql' = o.h /\ rs' = Wrapped(r, o, {"pool"})
          /\ ret' = Returns("query", IF o.res = "absent" THEN "nil" ELSE "object", o.err)
    BY <1>7 DEF Query
  <2>1. PICK o \in Exec(mysql, select, unbuffered, r) :
          /\ mysql' = o.h /\ rs' = Wrapped(r, o, {"pool"})
          /\ ret' = Returns("query", IF o.res = "absent" THEN "nil" ELSE "object", o.err)
    BY <2>0
  <2>2. HandleOK(o.h) /\ o.err \in Errors /\ SetsOK(rs', o.h)
    BY <1>0, <1>7, <2>1, QueryOK DEF Query, CanQuery
  <2>3. ret' \in Calls BY <2>1, <2>2, ReturnsOK DEF Ops, Values
  <2> QED BY <1>0, <1>7, <2>1, <2>2, <2>3 DEF Query, OthersOK
<1>8. ASSUME NEW r \in ResultSets, RowForQuery(r) PROVE Core'
  <2>1. PICK o \in Exec(mysql, TRUE, unbuffered, r) :
          IF o.res = "absent"
          THEN mysql' = o.h /\ rs' = rs /\ ret' = Returns("row", "nil", o.err)
          ELSE \E f \in FetchRow(o.h, NewResultSet(o, {"pool"})) :
                 /\ mysql' = f.h
                 /\ rs' = [rs EXCEPT ![r] = Moved(NewResultSet(o, {"pool"}), f.row)]
                 /\ ret' = Returns("row", IF f.row > 0 THEN "object" ELSE "nil", "none")
    BY <1>8 DEF RowForQuery
  <2> DEFINE new == NewResultSet(o, {"pool"})
  <2>2. HandleOK(o.h) /\ o.err \in Errors /\ SetsOK(Wrapped(r, o, {"pool"}), o.h)
        /\ (o.res # "absent" => SetOK(new, o.h, r) /\ new.ptr)
    BY <1>0, <1>8, QueryOK DEF RowForQuery, CanQuery
  <2>3. HandleOK(mysql') /\ SetsOK(rs', mysql') /\ ret' \in Calls
    <3>1. CASE o.res = "absent"
      BY <2>1, <2>2, <3>1, ReturnsOK DEF Wrapped, Ops, Values
    <3>2. CASE o.res # "absent"
      <4>1. PICK f \in FetchRow(o.h, new) :
              /\ mysql' = f.h /\ rs' = [rs EXCEPT ![r] = Moved(new, f.row)]
              /\ ret' = Returns("row", IF f.row > 0 THEN "object" ELSE "nil", "none")
        BY <2>1, <3>2
      <4>2. HandleOK(f.h) /\ SetOK(Moved(new, f.row), f.h, r) /\ OnlyReader(o.h, f.h, r)
        BY <2>2, <3>2, FetchOK
      <4>3. SetsOK([[rs EXCEPT ![r] = new] EXCEPT ![r] = Moved(new, f.row)], f.h)
        <5>1. SetsOK([rs EXCEPT ![r] = new], o.h) BY <2>2, <3>2 DEF Wrapped
        <5>2. Spares(o.h, f.h, r) BY <4>2, SparesOK
        <5> QED BY <4>2, <5>1, <5>2, Replace
      <4>4. [[rs EXCEPT ![r] = new] EXCEPT ![r] = Moved(new, f.row)]
              = [rs EXCEPT ![r] = Moved(new, f.row)]
        BY <1>0
      <4>5. ret' \in Calls BY <4>1, ReturnsOK DEF Ops, Values, Errors
      <4> QED BY <4>1, <4>2, <4>3, <4>4, <4>5
    <3> QED BY <3>1, <3>2
  <2> QED BY <1>0, <1>8, <2>3 DEF RowForQuery, OthersOK
<1>9. ASSUME NEW r \in ResultSets, RowsForQuery(r) PROVE Core'
  <2>1. PICK o \in Exec(mysql, TRUE, unbuffered, r) :
          /\ mysql' = o.h /\ rs' = Wrapped(r, o, {"pool"})
          /\ ret' \in {Returns("rows", "nil", o.err), NoCall}
    BY <1>9 DEF RowsForQuery
  <2>2. HandleOK(o.h) /\ o.err \in Errors /\ SetsOK(rs', o.h)
    BY <1>0, <1>9, <2>1, QueryOK DEF RowsForQuery, CanQuery
  <2>3. ret' \in Calls BY <1>a, <2>1, <2>2, ReturnsOK DEF Ops, Values
  <2> QED BY <1>0, <1>9, <2>1, <2>2, <2>3 DEF RowsForQuery, OthersOK
<1>10. ASSUME NEW r \in ResultSets, StatementQuery(r) PROVE Core'
  <2>0. PICK select \in BOOLEAN : \E o \in Exec(mysql, select, FALSE, r) :
          /\ mysql' = o.h /\ rs' = Wrapped(r, o, {"app"})
          /\ ret' = Returns("query", IF o.res = "absent" THEN "nil" ELSE "object", o.err)
    BY <1>10 DEF StatementQuery
  <2>1. PICK o \in Exec(mysql, select, FALSE, r) :
          /\ mysql' = o.h /\ rs' = Wrapped(r, o, {"app"})
          /\ ret' = Returns("query", IF o.res = "absent" THEN "nil" ELSE "object", o.err)
    BY <2>0
  <2>2. HandleOK(o.h) /\ o.err \in Errors /\ SetsOK(rs', o.h)
    BY <1>0, <1>10, <2>1, QueryOK DEF StatementQuery
  <2>3. ret' \in Calls BY <2>1, <2>2, ReturnsOK DEF Ops, Values
  <2> QED BY <1>0, <1>10, <2>1, <2>2, <2>3 DEF StatementQuery, OthersOK
<1>11. ASSUME NEW r \in ResultSets, rs[r].ptr, NEW f \in FetchRow(mysql, rs[r]),
              mysql' = f.h, rs' = [rs EXCEPT ![r] = Moved(rs[r], f.row)]
       PROVE  HandleOK(mysql') /\ SetsOK(rs', mysql')
  <2>1. HandleOK(f.h) /\ SetOK(Moved(rs[r], f.row), f.h, r) /\ OnlyReader(mysql, f.h, r)
    BY <1>0, <1>11, FetchOK DEF SetsOK
  <2> QED BY <1>0, <1>11, <2>1, SparesOK, Replace
<1>12. ASSUME NEW r \in ResultSets, MoveNext(r) PROVE Core'
  BY <1>0, <1>a, <1>11, <1>12 DEF MoveNext, OthersOK, connection
<1>13. CASE ReadOn
  <2>1. object \in ResultSets /\ rs[object].ptr BY <1>13 DEF ReadOn, Inv, ThreadOK
  <2>2. PICK f \in FetchRow(mysql, rs[object]) :
          /\ mysql' = f.h /\ rs' = [rs EXCEPT ![object] = Moved(rs[object], f.row)]
          /\ \/ ret' = ret
             \/ ret' = [Returns("rows", "object", "none")
                          EXCEPT !.missing = Moved(rs[object], f.row).total
                                               - Position(Moved(rs[object], f.row))]
    BY <1>13 DEF ReadOn
  <2>3. HandleOK(mysql') /\ SetsOK(rs', mysql') BY <1>11, <2>1, <2>2
  <2> DEFINE s == Moved(rs[object], f.row)
  <2>4. SetOK(s, f.h, object) BY <1>0, <2>1, FetchOK DEF SetsOK
  <2> HIDE DEF s
  <2>5. s.total - Position(s) \in 0..MaxRows
    <3>1. s.total \in 0..MaxRows /\ s.rowIndex \in 0..MaxRows /\ Position(s) <= s.total
      BY <2>4 DEF SetOK, Sets
    <3>2. Position(s) \in Nat BY <3>1, NGMySQLAssumption DEF Position
    <3> QED BY <3>1, <3>2, NGMySQLAssumption
  <2>6. ret' \in Calls
    BY <1>0, <2>2, <2>5, ReturnsOK DEF Ops, Values, Errors, s
  <2> QED BY <1>0, <1>13, <2>3, <2>6 DEF ReadOn, OthersOK, connection
<1>14. ASSUME NEW r \in ResultSets, NEW holders \in SUBSET Holders, rs[r].kind # "absent",
              rs' = [rs EXCEPT ![r].holders = holders], mysql' = mysql
       PROVE  HandleOK(mysql') /\ SetsOK(rs', mysql')
  <2> DEFINE t == [rs[r] EXCEPT !.holders = holders]
  <2>1. rs' = [rs EXCEPT ![r] = t] BY <1>14
  <2>2. SetOK(t, mysql, r) BY <1>0, <1>14, HoldersOK DEF SetsOK
  <2> HIDE DEF t
  <2>3. Spares(mysql, mysql, r) BY SparesOK DEF Unmoved
  <2>4. SetsOK(rs', mysql) BY <1>0, <2>1, <2>2, <2>3, Replace
  <2> QED BY <1>0, <1>14, <2>4
<1>15. ASSUME NEW r \in ResultSets, Retain(r) PROVE Core'
  <2>1. rs[r].kind # "absent" BY <1>0, <1>15 DEF Retain, SetsOK, SetOK, Absent
  <2> QED BY <1>0, <1>a, <1>14, <1>15, <2>1 DEF Retain, OthersOK, connection
<1>16. ASSUME NEW r \in ResultSets, NEW holder, LetGo(r, holder) PROVE Core'
  <2>1. rs[r].kind # "absent" BY <1>0, <1>16 DEF LetGo, SetsOK, SetOK, Absent
  <2>2. rs[r].holders \ {holder} \in SUBSET Holders BY <1>0 DEF Sets
  <2>3. rs' = [rs EXCEPT ![r].holders = rs[r].holders \ {holder}] /\ mysql' = mysql
    BY <1>16 DEF LetGo
  <2>4. HandleOK(mysql') /\ SetsOK(rs', mysql') BY <1>14, <2>1, <2>2, <2>3
  <2> QED BY <1>0, <1>a, <1>16, <2>4 DEF LetGo, OthersOK, connection
<1>17. ASSUME NEW holder, LetStatementGo(holder) PROVE Core'
  <2>1. stmt' \in [holders : SUBSET Holders, unbuffered : BOOLEAN]
    <3>1. NoStatement \in [holders : SUBSET Holders, unbuffered : BOOLEAN] BY DEF NoStatement
    <3>2. [stmt EXCEPT !.holders = @ \ {holder}] \in [holders : SUBSET Holders, unbuffered : BOOLEAN]
      BY <1>0
    <3> QED BY <1>17, <3>1, <3>2 DEF LetStatementGo
  <2>2. stmt.holders # {} /\ rs' = rs BY <1>17 DEF LetStatementGo
  <2>3. HandleOK(mysql') /\ SetsOK(rs', mysql') /\ open' \in BOOLEAN
    <3>1. CASE LetConnectionGo BY <2>2, <3>1, LetGoOK
    <3>2. CASE UNCHANGED <<open, refs, mysql>> BY <1>0, <2>2, <3>2
    <3> QED BY <1>17, <3>1, <3>2 DEF LetStatementGo
  <2> QED BY <1>0, <1>a, <1>17, <2>1, <2>3 DEF LetStatementGo, OthersOK
<1>18. CASE ReleaseConnection
  <2>1. HandleOK(mysql') /\ SetsOK(rs', mysql') /\ open' \in BOOLEAN
    BY <1>18, LetGoOK DEF ReleaseConnection
  <2> QED BY <1>0, <1>a, <1>18, <2>1 DEF ReleaseConnection, OthersOK
<1>19. CASE ReleaseFromResult
  <2>1. HandleOK(mysql') /\ SetsOK(rs', mysql') /\ open' \in BOOLEAN
    BY <1>19, LetGoOK DEF ReleaseFromResult
  <2> QED BY <1>0, <1>19, <2>1 DEF ReleaseFromResult, OthersOK
<1>20. CASE FreeResult
  <2>1. object \in ResultSets /\ rs' = [rs EXCEPT ![object] = Absent]
        /\ mysql' \in Freed(mysql, rs[object])
    BY <1>20 DEF FreeResult, Inv, ThreadOK
  <2>2. /\ HandleOK(mysql')
        /\ IF mysql.owner = object THEN mysql'.owner = NoReader ELSE mysql' = mysql
    BY <1>0, <2>1, FreedOK DEF SetsOK
  <2>3. mysql'.owner # object BY <2>1, <2>2, NGMySQLAssumption
  <2>4. SetOK(Absent, mysql', object)
    <3>1. Absent \in Sets BY NGMySQLAssumption DEF Absent, Sets, Kinds
    <3> QED BY <2>3, <3>1, NGMySQLAssumption DEF SetOK, Attached, Absent, Position
  <2>5. Spares(mysql, mysql', object) BY <2>1, <2>2, SparesOK DEF OnlyReader
  <2>6. SetsOK(rs', mysql') BY <1>0, <2>1, <2>4, <2>5, Replace
  <2> QED BY <1>0, <1>20, <2>2, <2>6 DEF FreeResult, OthersOK, connection
<1>21. CASE DrainPool \/ PoolDrained
  BY <1>0, <1>a, <1>21 DEF DrainPool, PoolDrained, OthersOK, connection
<1>22. CASE UNCHANGED vars
  BY <1>0, <1>22 DEF vars, OthersOK, connection
<1> QED BY <1>1, <1>2, <1>3, <1>4, <1>5, <1>6, <1>7, <1>8, <1>9, <1>10, <1>12, <1>13, <1>15,
           <1>16, <1>17, <1>18, <1>19, <1>20, <1>21, <1>22
       DEF Next, GoOn, Release, PoolReleases, ReleaseStatement, PoolReleasesStatement

-----------------------------------------------------------------------------
(* What the thread is in the middle of. *)
LEMMA ThreadNext == ASSUME Inv, [Next]_vars PROVE ThreadOK'
<1>0. ThreadOK /\ rs \in [ResultSets -> Sets] /\ NoReader \notin ResultSets
  BY NGMySQLAssumption DEF Inv, Core, SetsOK
<1>1. CASE UNCHANGED <<rs, thread>> BY <1>0, <1>1 DEF ThreadOK, thread
<1>2. ASSUME NEW r \in ResultSets, Running, NEW s, Makes(r, s) PROVE ThreadOK'
  <2>1. s # Absent /\ s.holders # {} /\ rs'[r] = s BY <1>0, <1>2 DEF Makes, Absent
  <2>2. \A q \in ResultSets : q # r => rs'[q] = rs[q] BY <1>0, <1>2 DEF Makes
  <2>3. \/ pc' = "program" /\ object' = object /\ draining' = draining
        \/ pc' = "rows" /\ object' = r /\ draining' = draining /\ s.ptr
    BY <1>2 DEF Makes, Running, thread
  <2>4. \A q \in ResultSets : rs'[q].holders = {} => rs'[q] = Absent
    BY <1>0, <1>2, <2>1, <2>2 DEF ThreadOK, Running
  <2> QED BY <1>0, <2>1, <2>3, <2>4 DEF ThreadOK, Places
<1>3. ASSUME NEW r \in ResultSets, rs[r].ptr, NEW row, rs' = [rs EXCEPT ![r] = Moved(rs[r], row)],
             pc \in {"program", "rows"},
             \/ UNCHANGED thread /\ (pc = "rows" => object = r /\ row > 0)
             \/ pc' = "program" /\ object' = NoReader /\ draining' = draining
      PROVE  ThreadOK'
  <2>1. /\ rs[r] # Absent /\ rs'[r] # Absent /\ rs'[r].holders = rs[r].holders
        /\ row > 0 => rs'[r].ptr
    BY <1>3, ReadChanges
  <2>2. \A q \in ResultSets : q # r => rs'[q] = rs[q] BY <1>0, <1>3
  <2>3. \A q \in ResultSets : rs'[q].holders = {} => rs'[q] = Absent
    BY <1>0, <1>3, <2>1, <2>2 DEF ThreadOK
  <2> QED BY <1>0, <1>3, <2>1, <2>3 DEF ThreadOK, Places, thread
<1>4. ASSUME NEW r \in ResultSets, Retain(r) PROVE ThreadOK'
  <2>1. rs'[r].holders # {} BY <1>0, <1>4 DEF Retain, Sets, Holders
  <2>2. \A q \in ResultSets : q # r => rs'[q] = rs[q] BY <1>0, <1>4 DEF Retain
  <2>3. \A q \in ResultSets : rs'[q].holders = {} => rs'[q] = Absent
    BY <1>0, <1>4, <2>1, <2>2 DEF ThreadOK, Retain, Running
  <2> QED BY <1>0, <1>4, <2>3 DEF ThreadOK, Retain, Running, thread
<1>5. ASSUME NEW r \in ResultSets, NEW holder, LetGo(r, holder), pc = "program" PROVE ThreadOK'
  <2>0. rs[r].kind # "absent" /\ rs[r] \in Sets
    BY <1>0, <1>5 DEF LetGo, Inv, Core, SetsOK, SetOK, Absent
  <2>1. rs'[r] = [rs[r] EXCEPT !.holders = @ \ {holder}] BY <1>0, <1>5 DEF LetGo
  <2>2. rs'[r].holders = rs[r].holders \ {holder} /\ rs'[r].kind = rs[r].kind
    BY <2>0, <2>1 DEF Sets
  <2>3. rs'[r] # Absent BY <2>0, <2>2 DEF Absent
  <2>4. \A q \in ResultSets : q # r => rs'[q] = rs[q] BY <1>0, <1>5 DEF LetGo
  <2>5. \A q \in ResultSets : q # r => (rs'[q].holders = {} => rs'[q] = Absent)
    BY <1>0, <1>5, <2>4 DEF ThreadOK
  <2>6. CASE rs[r].holders = {holder}
    <3>1. pc' = "free" /\ object' = r /\ draining' = draining
      BY <1>5, <2>6 DEF LetGo, DeallocSteps
    <3> QED BY <1>0, <2>3, <2>5, <3>1 DEF ThreadOK, Places
  <2>7. CASE rs[r].holders # {holder}
    <3>1. rs'[r].holders # {} BY <1>5, <2>2, <2>7 DEF LetGo
    <3>2. pc' = pc /\ object' = object /\ draining' = draining
      BY <1>5, <2>7 DEF LetGo
    <3> QED BY <1>0, <1>5, <2>5, <3>1, <3>2 DEF ThreadOK
  <2> QED BY <2>6, <2>7
<1>6. CASE FreeResult
  <2>1. pc = "free" /\ object \in ResultSets BY <1>0, <1>6 DEF FreeResult, ThreadOK
  <2>2. pc' = "release" /\ object' = object /\ draining' = draining
    BY <1>6 DEF FreeResult, DeallocFrom, DeallocSteps
  <2>3. rs'[object] = Absent /\ \A q \in ResultSets : q # object => rs'[q] = rs[q]
    BY <1>0, <1>6, <2>1 DEF FreeResult
  <2>4. \A q \in ResultSets : rs'[q].holders = {} => rs'[q] = Absent
    BY <1>0, <2>1, <2>3 DEF ThreadOK
  <2> QED BY <1>0, <2>1, <2>2, <2>3, <2>4 DEF ThreadOK, Places
<1>7. CASE ReleaseFromResult
  <2>1. pc = "release" /\ pc' = "program" /\ object' = NoReader /\ draining' = draining /\ rs' = rs
    BY <1>7 DEF ReleaseFromResult, DeallocFrom, DeallocSteps
  <2> QED BY <1>0, <2>1 DEF ThreadOK, Places
<1>8. CASE DrainPool \/ PoolDrained
  BY <1>0, <1>8 DEF DrainPool, PoolDrained, ThreadOK
<1>9. ASSUME \/ Connect \/ Execute \/ Prepare \/ StatementExecute \/ RetainStatement
             \/ ReleaseConnection \/ \E flag \in Modes : SetUnbuffered(flag)
             \/ \E holder : LetStatementGo(holder)
      PROVE  UNCHANGED <<rs, thread>>
  BY <1>9 DEF Connect, Execute, Prepare, StatementExecute, RetainStatement, ReleaseConnection,
              SetUnbuffered, LetStatementGo
<1>10. ASSUME NEW r \in ResultSets,
              Query(r) \/ StatementQuery(r) \/ RowForQuery(r) \/ RowsForQuery(r)
       PROVE  ThreadOK'
  BY <1>1, <1>2, <1>10, QueryMakes
<1>11. ASSUME NEW r \in ResultSets, MoveNext(r) PROVE ThreadOK'
  <2>1. PICK f \in FetchRow(mysql, rs[r]) : rs' = [rs EXCEPT ![r] = Moved(rs[r], f.row)]
    BY <1>11 DEF MoveNext
  <2>2. rs[r].ptr /\ pc = "program" /\ UNCHANGED thread BY <1>11 DEF MoveNext, Running
  <2> QED BY <1>3, <2>1, <2>2
<1>12. CASE ReadOn
  <2>1. object \in ResultSets /\ rs[object].ptr /\ pc = "rows" BY <1>0, <1>12 DEF ReadOn, ThreadOK
  <2>2. PICK f \in FetchRow(mysql, rs[object]) :
          /\ rs' = [rs EXCEPT ![object] = Moved(rs[object], f.row)]
          /\ IF f.row > 0 THEN UNCHANGED <<pc, object>> ELSE pc' = "program" /\ object' = NoReader
    BY <1>12 DEF ReadOn
  <2>3. draining' = draining BY <1>12 DEF ReadOn
  <2> QED BY <1>3, <2>1, <2>2, <2>3 DEF thread
<1>13. CASE UNCHANGED vars BY <1>1, <1>13 DEF vars
<1> QED BY <1>1, <1>4, <1>5, <1>6, <1>7, <1>8, <1>9, <1>10, <1>11, <1>12, <1>13
       DEF Next, GoOn, Release, PoolReleases, ReleaseStatement, PoolReleasesStatement, Running

-----------------------------------------------------------------------------
(* The count.  Most steps change no owner. *)
LEMMA CountNext == ASSUME Inv, [Next]_vars PROVE CountOK'
<1>0. CountOK /\ ThreadOK /\ rs \in [ResultSets -> Sets]
      /\ Bit(held) \in {0, 1} /\ Bit(stmt.holders # {}) \in {0, 1}
  BY DEF Inv, Core, SetsOK, Bit
<1>1. ASSUME UNCHANGED <<open, refs, held>>, stmt'.holders # {} <=> stmt.holders # {},
             Owners' = Owners
      PROVE  CountOK'
  BY <1>0, <1>1 DEF CountOK, Bit
<1>2. ASSUME NEW r \in ResultSets, Running, held \/ stmt.holders # {},
             UNCHANGED <<open, held, stmt>>, NEW s, Makes(r, s)
      PROVE  CountOK'
  <2>1. s # Absent /\ rs'[r] = s /\ rs[r] = Absent BY <1>0, <1>2 DEF Makes, Absent
  <2>2. \A q \in ResultSets : q # r => rs'[q] = rs[q] BY <1>0, <1>2 DEF Makes
  <2>3. pc # "release" /\ pc' # "release" BY <1>2 DEF Makes, Running, thread
  <2>4. Owners' = Owners \cup {r} /\ r \notin Owners BY <2>1, <2>2, <2>3 DEF Owners, Live
  <2>5. Cardinality(Owners') = Cardinality(Owners) + 1 BY <2>4, OwnersFinite, FS_AddElement
  <2>6. refs' = refs + 1 BY <1>2 DEF Makes
  <2>7. refs > 0
    <3>1. Bit(held) = 1 \/ Bit(stmt.holders # {}) = 1 BY <1>2 DEF Bit
    <3> QED BY <1>0, <3>1, OwnersFinite DEF CountOK
  <2>8. Bit(held') = Bit(held) /\ Bit(stmt'.holders # {}) = Bit(stmt.holders # {})
    BY <1>2
  <2> QED BY <1>0, <1>2, <2>5, <2>6, <2>7, <2>8, OwnersFinite DEF CountOK
<1>3. ASSUME NEW r \in ResultSets, rs[r] # Absent, rs'[r] # Absent,
             \A q \in ResultSets : q # r => rs'[q] = rs[q],
             UNCHANGED <<connection, stmt>>, pc # "release", pc' # "release"
      PROVE  CountOK'
  <2>1. Owners' = Owners BY <1>3 DEF Owners, Live
  <2> QED BY <1>1, <1>3, <2>1 DEF connection
<1>4. CASE Connect
  <2>1. refs = 0 BY <1>0, <1>4, OwnersFinite DEF Connect, CountOK, Bit
  <2>2. Bit(held) = 0 /\ Bit(stmt.holders # {}) = 0 /\ Cardinality(Owners) = 0
    BY <1>0, <2>1, OwnersFinite DEF CountOK
  <2>3. Owners' = Owners /\ stmt' = stmt BY <1>4 DEF Connect, Owners, Live, thread
  <2>4. CASE UNCHANGED <<open, refs, held>> BY <1>1, <2>3, <2>4
  <2>5. CASE open' = TRUE /\ refs' = 1 /\ held' = TRUE
    <3>1. Bit(held') = 1 /\ Bit(stmt'.holders # {}) = 0 BY <2>2, <2>3, <2>5 DEF Bit
    <3> QED BY <2>2, <2>3, <2>5, <3>1 DEF CountOK
  <2> QED BY <1>4, <2>4, <2>5 DEF Connect
<1>5. CASE Prepare
  <2>1. Owners' = Owners /\ held' = held /\ held /\ open' = open /\ refs' = refs + 1
    BY <1>5 DEF Prepare, Owners, Live, thread
  <2>2. Bit(stmt.holders # {}) = 0 /\ Bit(stmt'.holders # {}) = 1 /\ Bit(held) = 1 /\ Bit(held') = 1
    BY <1>5, <2>1 DEF Prepare, Bit
  <2>3. Cardinality(Owners') = Cardinality(Owners) BY <2>1
  <2>4. refs = 1 + 0 + Cardinality(Owners) /\ (open <=> refs > 0) BY <1>0, <2>2 DEF CountOK
  <2>5. refs' = 1 + 1 + Cardinality(Owners') BY <2>1, <2>3, <2>4, OwnersFinite
  <2>6. open' <=> refs' > 0 BY <2>1, <2>4, OwnersFinite
  <2>7. refs' = Bit(held') + Bit(stmt'.holders # {}) + Cardinality(Owners') BY <2>2, <2>5
  <2> QED BY <2>6, <2>7 DEF CountOK
<1>6. ASSUME \/ Execute \/ StatementExecute \/ RetainStatement
             \/ \E flag \in Modes : SetUnbuffered(flag)
      PROVE  CountOK'
  <2>1. UNCHANGED <<open, refs, held>> /\ (stmt'.holders # {} <=> stmt.holders # {}) /\ UNCHANGED <<rs, thread>>
    <3>1. CASE RetainStatement
      <4>1. stmt'.holders = Holders
        <5>1. stmt \in [holders : SUBSET Holders, unbuffered : BOOLEAN]
          BY DEF Inv, Core, OthersOK
        <5> QED BY <3>1, <5>1 DEF RetainStatement
      <4> QED BY <3>1, <4>1 DEF RetainStatement, connection, Holders
    <3>2. CASE Execute \/ StatementExecute \/ \E flag \in Modes : SetUnbuffered(flag)
      BY <3>2 DEF Execute, StatementExecute, SetUnbuffered, connection
    <3> QED BY <1>6, <3>1, <3>2
  <2>2. Owners' = Owners BY <2>1 DEF Owners, Live, thread
  <2> QED BY <1>1, <2>1, <2>2
<1>7. ASSUME NEW holder, LetStatementGo(holder) PROVE CountOK'
  <2>1. Owners' = Owners /\ held' = held /\ stmt.holders # {} /\ rs' = rs
    BY <1>7 DEF LetStatementGo, Owners, Live, thread
  <2>2. CASE stmt.holders = {holder}
    <3>1. stmt' = NoStatement /\ LetConnectionGo BY <1>7, <2>2 DEF LetStatementGo
    <3>2. refs' = refs - 1 /\ (open' <=> refs' > 0) BY <2>1, <3>1, LetGoOK
    <3>3. Bit(stmt.holders # {}) = 1 /\ Bit(stmt'.holders # {}) = 0 /\ Bit(held') = Bit(held)
      BY <2>1, <3>1 DEF Bit, NoStatement
    <3> QED BY <1>0, <2>1, <3>2, <3>3, OwnersFinite DEF CountOK
  <2>3. CASE stmt.holders # {holder}
    <3>1. stmt' = [stmt EXCEPT !.holders = @ \ {holder}] /\ UNCHANGED <<open, refs, mysql>>
      BY <1>7, <2>3 DEF LetStatementGo
    <3>2. stmt'.holders # {}
      <4>1. stmt \in [holders : SUBSET Holders, unbuffered : BOOLEAN]
        BY DEF Inv, Core, OthersOK
      <4>2. stmt'.holders = stmt.holders \ {holder} BY <3>1, <4>1
      <4> QED BY <1>7, <2>3, <4>2 DEF LetStatementGo
    <3> QED BY <1>1, <2>1, <3>1, <3>2
  <2> QED BY <2>2, <2>3
<1>8. CASE ReleaseConnection
  <2>1. Owners' = Owners /\ held' = FALSE /\ held /\ stmt' = stmt /\ rs' = rs /\ LetConnectionGo
    BY <1>8 DEF ReleaseConnection, Owners, Live, thread
  <2>2. refs' = refs - 1 /\ (open' <=> refs' > 0) BY <2>1, LetGoOK
  <2>3. Bit(held) = 1 /\ Bit(held') = 0 /\ Bit(stmt'.holders # {}) = Bit(stmt.holders # {})
    BY <2>1 DEF Bit
  <2>4. refs = 1 + Bit(stmt.holders # {}) + Cardinality(Owners) BY <1>0, <2>3 DEF CountOK
  <2>5. Cardinality(Owners') = Cardinality(Owners) BY <2>1
  <2>6. refs' = 0 + Bit(stmt.holders # {}) + Cardinality(Owners')
    BY <1>0, <2>2, <2>4, <2>5, OwnersFinite
  <2>7. refs' = Bit(held') + Bit(stmt'.holders # {}) + Cardinality(Owners') BY <2>3, <2>6
  <2> QED BY <2>2, <2>7 DEF CountOK
<1>9. CASE ReleaseFromResult
  <2>1. /\ pc = "release" /\ pc' = "program" /\ rs' = rs /\ held' = held /\ stmt' = stmt
        /\ LetConnectionGo
    BY <1>9 DEF ReleaseFromResult, DeallocFrom, DeallocSteps
  <2>2. refs' = refs - 1 /\ (open' <=> refs' > 0) BY <2>1, LetGoOK
  <2>3. Owners = Owners' \cup {object} /\ object \notin Owners'
    BY <1>0, <2>1 DEF Owners, Live, ThreadOK
  <2>4. Owners' = Live BY <2>1 DEF Owners, Live
  <2>5. Cardinality(Owners) = Cardinality(Live) + 1
    BY <2>3, <2>4, OwnersFinite, FS_AddElement
  <2>6. Bit(held') = Bit(held) /\ Bit(stmt'.holders # {}) = Bit(stmt.holders # {})
    BY <2>1
  <2> QED BY <1>0, <2>2, <2>4, <2>5, <2>6, OwnersFinite DEF CountOK
<1>10. CASE FreeResult
  <2>1. pc = "free" /\ object \in ResultSets /\ rs[object] # Absent
    BY <1>0, <1>10 DEF FreeResult, ThreadOK
  <2>2. pc' = "release" /\ object' = object
    BY <1>10 DEF FreeResult, DeallocFrom, DeallocSteps
  <2>3. rs'[object] = Absent /\ \A q \in ResultSets : q # object => rs'[q] = rs[q]
    BY <1>0, <1>10, <2>1 DEF FreeResult
  <2>4. Owners' = Owners BY <2>1, <2>2, <2>3 DEF Owners, Live
  <2> QED BY <1>1, <1>10, <2>4 DEF FreeResult, connection
<1>11. ASSUME NEW r \in ResultSets, MoveNext(r) PROVE CountOK'
  <2>1. PICK f \in FetchRow(mysql, rs[r]) : rs' = [rs EXCEPT ![r] = Moved(rs[r], f.row)]
    BY <1>11 DEF MoveNext
  <2>2. rs[r].ptr /\ pc = "program" /\ pc' = pc /\ UNCHANGED <<connection, stmt>>
    BY <1>11 DEF MoveNext, Running, thread
  <2>3. rs[r] # Absent /\ rs'[r] # Absent BY <2>1, <2>2, ReadChanges
  <2>4. \A q \in ResultSets : q # r => rs'[q] = rs[q] BY <1>0, <2>1
  <2> QED BY <1>3, <2>2, <2>3, <2>4
<1>12. CASE ReadOn
  <2>1. object \in ResultSets /\ rs[object].ptr /\ pc = "rows" BY <1>0, <1>12 DEF ReadOn, ThreadOK
  <2>2. PICK f \in FetchRow(mysql, rs[object]) :
          rs' = [rs EXCEPT ![object] = Moved(rs[object], f.row)] /\ pc' \in {pc, "program"}
    BY <1>12 DEF ReadOn
  <2>3. rs[object] # Absent /\ rs'[object] # Absent BY <2>1, <2>2, ReadChanges
  <2>4. \A q \in ResultSets : q # object => rs'[q] = rs[q] BY <1>0, <2>2
  <2> QED BY <1>3, <1>12, <2>1, <2>2, <2>3, <2>4 DEF ReadOn
<1>13. ASSUME NEW r \in ResultSets, NEW holders, rs[r].kind # "absent",
              rs' = [rs EXCEPT ![r].holders = holders],
              UNCHANGED <<connection, stmt>>, pc # "release", pc' # "release"
       PROVE  CountOK'
  <2>1. rs'[r].kind = rs[r].kind BY <1>0, <1>13 DEF Sets
  <2>2. rs[r] # Absent /\ rs'[r] # Absent BY <1>13, <2>1 DEF Absent
  <2>3. \A q \in ResultSets : q # r => rs'[q] = rs[q] BY <1>0, <1>13
  <2> QED BY <1>3, <1>13, <2>2, <2>3
<1>14. ASSUME NEW r \in ResultSets, rs[r].holders # {} PROVE rs[r].kind # "absent"
  BY <1>14 DEF Inv, Core, SetsOK, SetOK, Absent
<1>15. ASSUME NEW r \in ResultSets, Retain(r) PROVE CountOK'
  <2>1. pc = "program" /\ pc' = pc /\ rs[r].kind # "absent"
    BY <1>14, <1>15 DEF Retain, Running, thread
  <2> QED BY <1>13, <1>15, <2>1 DEF Retain
<1>16. ASSUME NEW r \in ResultSets, NEW holder, LetGo(r, holder), pc = "program" PROVE CountOK'
  <2>1. pc' # "release" /\ rs[r].kind # "absent" BY <1>14, <1>16 DEF LetGo, DeallocSteps
  <2>2. rs' = [rs EXCEPT ![r].holders = rs[r].holders \ {holder}] BY <1>16 DEF LetGo
  <2> QED BY <1>13, <1>16, <2>1, <2>2 DEF LetGo
<1>17. CASE DrainPool \/ PoolDrained
  <2>1. Owners' = Owners BY <1>17 DEF DrainPool, PoolDrained, Owners, Live
  <2> QED BY <1>1, <1>17, <2>1 DEF DrainPool, PoolDrained, connection
<1>18. ASSUME NEW r \in ResultSets,
              Query(r) \/ StatementQuery(r) \/ RowForQuery(r) \/ RowsForQuery(r)
       PROVE  CountOK'
  <2>1. /\ Running /\ (held \/ stmt.holders # {}) /\ UNCHANGED <<open, held, stmt>>
        /\ UNCHANGED <<rs, refs, thread>> \/ \E s : Makes(r, s)
    BY <1>18, QueryMakes
  <2>2. CASE UNCHANGED <<rs, refs, thread>>
    <3>1. Owners' = Owners BY <2>2 DEF Owners, Live, thread
    <3> QED BY <1>1, <2>1, <2>2, <3>1
  <2> QED BY <1>2, <2>1, <2>2
<1>19. CASE UNCHANGED vars
  <2>1. Owners' = Owners BY <1>19 DEF vars, thread, Owners, Live
  <2> QED BY <1>1, <1>19, <2>1 DEF vars, connection
<1> QED BY <1>4, <1>5, <1>6, <1>7, <1>8, <1>9, <1>10, <1>11, <1>12, <1>15, <1>16, <1>17, <1>18,
           <1>19
       DEF Next, GoOn, Release, PoolReleases, ReleaseStatement, PoolReleasesStatement, Running

(* Every reachable state satisfies the inductive invariant. *)
THEOREM Invariance == Spec => []Inv
<1>1. Inv /\ [Next]_vars => Inv' BY CoreNext, ThreadNext, CountNext DEF Inv
<1> QED BY <1>1, InvInit, PTL DEF Spec

LEMMA InvImplies == Inv => TypeOK /\ OneReader /\ InStep /\ ClosedWithLastUser
<1> SUFFICES ASSUME Inv PROVE TypeOK /\ OneReader /\ InStep /\ ClosedWithLastUser OBVIOUS
<1>0. Core /\ ThreadOK /\ CountOK BY DEF Inv
<1>1. refs \in 0..Cardinality(ResultSets) + 2
  <2>1. Owners \subseteq ResultSets BY <1>0 DEF ThreadOK, Owners, Live
  <2>2. Cardinality(Owners) <= Cardinality(ResultSets) /\ Cardinality(ResultSets) \in Nat
    BY <2>1, NGMySQLAssumption, FS_Subset, FS_CardinalityType
  <2>3. Bit(held) \in {0, 1} /\ Bit(stmt.holders # {}) \in {0, 1} BY DEF Bit
  <2> QED BY <1>0, <2>2, <2>3, OwnersFinite DEF CountOK
<1>2. TypeOK BY <1>0, <1>1 DEF Core, OthersOK, HandleOK, SetsOK, ThreadOK, TypeOK
<1>3. OneReader BY <1>0 DEF Core, HandleOK, SetsOK, SetOK, OneReader
<1>4. InStep BY <1>0 DEF Core, SetsOK, SetOK, Left, InStep
<1>5. ClosedWithLastUser
  <2>1. Owners = {} <=> (\A r \in ResultSets : rs[r] = Absent) /\ pc # "release"
    BY DEF Owners, Live
  <2>2. Cardinality(Owners) = 0 <=> Owners = {} BY OwnersFinite, FS_EmptySet
  <2>3. refs > 0 <=> held \/ stmt.holders # {} \/ Cardinality(Owners) # 0
    BY <1>0, OwnersFinite DEF CountOK, Bit
  <2> QED BY <1>0, <2>1, <2>2, <2>3 DEF CountOK, ClosedWithLastUser
<1> QED BY <1>2, <1>3, <1>4, <1>5

(* The variables keep their types: in particular no row index ever exceeds *)
(* the number of rows of its result.                                       *)
THEOREM TypeCorrect == Spec => []TypeOK
BY Invariance, InvImplies, PTL

(* A streamed result has one reader, and the handle knows it. *)
THEOREM SingleReader == Spec => []OneReader
BY Invariance, InvImplies, PTL

(* Rows delivered and rows left always add up. *)
THEOREM RowsInStep == Spec => []InStep
BY Invariance, InvImplies, PTL

(* The count of references, kept by every retain, release and dealloc,     *)
(* closes the handle with its last user and not before.                    *)
THEOREM NoUseAfterClose == Spec => []ClosedWithLastUser
BY Invariance, InvImplies, PTL

-----------------------------------------------------------------------------
(* Why commands are refused, when executeSQL: is given no statement with   *)
(* rows: then no result is ever left on the wire without a result set, and *)
(* a dealloc begins only after the refused call has been forgotten.        *)
Explained == mysql.owner # Orphan /\ RefusedOnlyWhileReading
Reasoned == Explained /\ (pc = "free" => ret.err # "sync")

(* Calls that say nothing of the server. *)
LEMMA QuietSteps ==
  ASSUME \/ Connect \/ Prepare \/ RetainStatement \/ ReleaseConnection \/ DrainPool
         \/ \E flag \in Modes : SetUnbuffered(flag)
         \/ \E holder : LetStatementGo(holder)
         \/ \E r \in ResultSets : MoveNext(r) \/ Retain(r) \/ \E holder : LetGo(r, holder)
  PROVE  ret'.err # "sync"
<1>1. NoCall.err # "sync" BY DEF NoCall
<1>2. CASE Connect BY <1>2 DEF Connect, Returns, NoCall
<1>3. CASE ~Connect
  <2>1. ret' = NoCall
    BY <1>3 DEF Prepare, RetainStatement, ReleaseConnection, DrainPool, SetUnbuffered,
                LetStatementGo, MoveNext, Retain, LetGo
  <2> QED BY <1>1, <2>1
<1> QED BY <1>2, <1>3

LEMMA Refusal ==
  ASSUME NEW h, HandleOK(h), NEW select \in BOOLEAN, NEW stream \in BOOLEAN,
         NEW reader, NEW o \in Exec(h, select, stream, reader)
  PROVE  /\ o.err = "sync" => h.status = "USE_RESULT" /\ o.res = "absent"
         /\ ~select => o.res = "absent"
<1>0. h \in Handles BY DEF HandleOK
<1>1. PICK q \in RealQuery(h, select) :
        o \in IF q.errno # "none" THEN {Outcome(q, "absent", 0, q.errno)}
              ELSE IF q.status = "READY" THEN {Outcome(q, "absent", 0, "none")}
              ELSE Fetched(q, stream, reader)
  BY DEF Exec
<1>2. CASE q.errno # "none"
  <2>1. o.res = "absent" /\ o.err = q.errno BY <1>1, <1>2 DEF Outcome
  <2>2. q.errno = "sync" => h.status # "READY"
    BY <1>0 DEF RealQuery, Broken, Answers, Idle, Handles
  <2> QED BY <2>1, <2>2 DEF HandleOK
<1>3. CASE q.errno = "none"
  <2>1. o.err # "sync" BY <1>1, <1>3 DEF Outcome, Fetched
  <2>2. ~select => q.status = "READY"
    BY <1>0, <1>3 DEF RealQuery, Broken, Answers, Idle, Handles
  <2>3. ~select => o.res = "absent" BY <1>1, <1>3, <2>2 DEF Outcome
  <2> QED BY <2>1, <2>3
<1> QED BY <1>2, <1>3

(* Whoever is refused finds the result set that is reading. *)
LEMMA ReaderThere ==
  ASSUME Inv, mysql.owner # Orphan, mysql.status = "USE_RESULT"
  PROVE  \E r \in ResultSets : Attached(rs[r])
<1>1. mysql.owner \in ResultSets BY DEF Inv, Core, HandleOK, Handles
<1> QED BY <1>1 DEF Inv, Core, SetsOK, SetOK

(* A dealloc begins with a call that has just returned nothing. *)
LEMMA DeallocQuiet ==
  ASSUME ThreadOK, [Next]_vars, pc = "free" => ret.err # "sync"
  PROVE  pc' = "free" => ret'.err # "sync"
<1>1. ASSUME NEW r \in ResultSets, NEW holder, LetGo(r, holder) PROVE ret'.err # "sync"
  BY <1>1 DEF LetGo, NoCall
<1>2. CASE \/ Connect \/ Execute \/ Prepare \/ StatementExecute \/ RetainStatement
           \/ ReleaseStatement \/ ReleaseConnection \/ DrainPool
           \/ \E flag \in Modes : SetUnbuffered(flag)
           \/ \E r \in ResultSets : \/ Query(r) \/ RowForQuery(r) \/ StatementQuery(r)
                                    \/ MoveNext(r) \/ Retain(r)
  <2>1. pc = "program" /\ pc' = pc
    BY <1>2 DEF Connect, Execute, Prepare, StatementExecute, RetainStatement, ReleaseStatement,
                LetStatementGo, ReleaseConnection, DrainPool, SetUnbuffered, Query, RowForQuery,
                CanQuery, StatementQuery, MoveNext, Retain, Running, thread
  <2> QED BY <2>1
<1>3. CASE \/ ReadOn \/ PoolReleasesStatement \/ PoolDrained
           \/ \E r \in ResultSets : RowsForQuery(r)
  <2>1. pc \in {"program", "rows"} /\ pc' \in {pc, "program", "rows"}
    BY <1>3 DEF ReadOn, PoolReleasesStatement, LetStatementGo, PoolDrained, RowsForQuery,
                CanQuery, Running, thread
  <2> QED BY <2>1
<1>4. CASE FreeResult \/ ReleaseFromResult
  <2>1. pc' # "free" BY <1>4 DEF FreeResult, ReleaseFromResult, DeallocFrom, DeallocSteps
  <2> QED BY <2>1
<1>5. CASE UNCHANGED vars BY <1>5 DEF vars, thread
<1> QED BY <1>1, <1>2, <1>3, <1>4, <1>5 DEF Next, GoOn, Release, PoolReleases

LEMMA ReasonedInit == Init => Reasoned
BY NGMySQLAssumption DEF Init, FreshHandle, NoCall, Reasoned, Explained, RefusedOnlyWhileReading

LEMMA ReasonedNext == ASSUME Discards = FALSE, Inv, Reasoned, [Next]_vars PROVE Reasoned'
<1>0. unbuffered \in BOOLEAN /\ stmt.unbuffered \in BOOLEAN /\ HandleOK(mysql) /\ SetsOK(rs, mysql)
      /\ mysql.owner # Orphan /\ TRUE \in BOOLEAN /\ FALSE \in BOOLEAN /\ ThreadOK
      /\ RefusedOnlyWhileReading /\ (pc = "free" => ret.err # "sync")
  BY DEF Inv, Core, OthersOK, Reasoned, Explained
<1>1. ASSUME UNCHANGED vars PROVE Explained'
  BY <1>0, <1>1 DEF vars, Explained, RefusedOnlyWhileReading
<1>2. ASSUME Execute \/ StatementExecute PROVE Explained'
  <2>1. PICK stream \in BOOLEAN : \E o \in Exec(mysql, FALSE, stream, Orphan) : Discarded(o)
    BY <1>0, <1>2 DEF Execute, StatementExecute
  <2>2. PICK o \in Exec(mysql, FALSE, stream, Orphan) : Discarded(o) BY <2>1
  <2>3. o.res = "absent" /\ (o.err = "sync" => mysql.status = "USE_RESULT") BY <1>0, Refusal
  <2>4. o.h.owner = mysql.owner
    <3>1. Orphan \in ResultSets \cup {Orphan} /\ o.res # "stream" BY <2>3
    <3>2. Unmoved(mysql, o.h) BY <1>0, <3>1, ExecOutcome
    <3> QED BY <3>2 DEF Unmoved
  <2>5. mysql' = o.h /\ ret'.err = o.err /\ rs' = rs
    BY <1>2, <2>2 DEF Discarded, Execute, StatementExecute, Returns, NoCall
  <2> QED BY <1>0, <2>3, <2>4, <2>5, ReaderThere DEF Explained, RefusedOnlyWhileReading
<1>3. ASSUME NEW r \in ResultSets, NEW stream \in BOOLEAN, NEW select \in BOOLEAN,
             NEW o \in Exec(mysql, select, stream, r)
      PROVE  /\ o.h.owner # Orphan
             /\ o.err = "sync" => o.res = "absent" /\ \E q \in ResultSets : Attached(rs[q])
  <2>1. o.err = "sync" => mysql.status = "USE_RESULT" /\ o.res = "absent" BY <1>0, Refusal
  <2>2. o.h.owner \in {mysql.owner, r} BY <1>0, ExecOutcome DEF Unmoved
  <2> QED BY <1>0, <2>1, <2>2, ReaderThere, NGMySQLAssumption
<1>4. ASSUME NEW r \in ResultSets, Query(r) \/ StatementQuery(r) \/ RowsForQuery(r)
      PROVE  Explained'
  <2>1. PICK select \in BOOLEAN, stream \in BOOLEAN :
          \E o \in Exec(mysql, select, stream, r) :
            /\ mysql' = o.h /\ ret'.err \in {o.err, "none"}
            /\ o.res = "absent" => rs' = rs
    <3>1. CASE Query(r) BY <1>0, <3>1 DEF Query, Wrapped, Returns, NoCall
    <3>2. CASE StatementQuery(r) BY <1>0, <3>2 DEF StatementQuery, Wrapped, Returns, NoCall
    <3>3. CASE RowsForQuery(r)
      <4>1. PICK o \in Exec(mysql, TRUE, unbuffered, r) :
              /\ mysql' = o.h /\ rs' = Wrapped(r, o, {"pool"})
              /\ ret' \in {Returns("rows", "nil", o.err), NoCall}
        BY <3>3 DEF RowsForQuery
      <4>2. Returns("rows", "nil", o.err).err = o.err /\ NoCall.err = "none"
        BY DEF Returns, NoCall
      <4>3. ret'.err \in {o.err, "none"} BY <4>1, <4>2
      <4> QED BY <1>0, <4>1, <4>3 DEF Wrapped
    <3> QED BY <1>4, <3>1, <3>2, <3>3
  <2> QED BY <1>3, <2>1 DEF Explained, RefusedOnlyWhileReading
<1>5. ASSUME NEW r \in ResultSets, RowForQuery(r) PROVE Explained'
  <2>1. PICK o \in Exec(mysql, TRUE, unbuffered, r) :
          IF o.res = "absent"
          THEN mysql' = o.h /\ rs' = rs /\ ret'.err = o.err
          ELSE /\ \E f \in FetchRow(o.h, NewResultSet(o, {"pool"})) : mysql' = f.h
               /\ ret'.err = "none"
    BY <1>5 DEF RowForQuery, Returns, NoCall
  <2>2. CASE o.res = "absent"
    BY <1>0, <1>3, <2>1, <2>2 DEF Explained, RefusedOnlyWhileReading
  <2>3. CASE o.res # "absent"
    <3> DEFINE new == NewResultSet(o, {"pool"})
    <3>0. {"pool"} \in SUBSET Holders /\ {"pool"} # {} /\ rs[r] = Absent
      BY <1>5 DEF Holders, RowForQuery, CanQuery
    <3>1. HandleOK(o.h) /\ SetOK(new, o.h, r) /\ new.ptr
      BY <1>0, <2>3, <3>0, QueryOK
    <3> HIDE DEF new
    <3>2. OnlyReader(o.h, mysql', r) BY <2>1, <2>3, <3>1, FetchOK DEF new
    <3>3. mysql'.owner # Orphan
      BY <1>0, <1>3, <3>2, NGMySQLAssumption DEF OnlyReader
    <3> QED BY <2>1, <2>3, <3>3 DEF Explained, RefusedOnlyWhileReading
  <2> QED BY <2>2, <2>3
<1>6. ASSUME NEW r \in ResultSets, rs[r].ptr, NEW f \in FetchRow(mysql, rs[r]), mysql' = f.h
      PROVE  mysql'.owner # Orphan
  <2>1. OnlyReader(mysql, f.h, r) BY <1>0, <1>6, FetchOK DEF SetsOK
  <2> QED BY <1>0, <1>6, <2>1, NGMySQLAssumption DEF OnlyReader
<1>7. ASSUME NEW r \in ResultSets, MoveNext(r) PROVE Explained'
  <2>1. mysql'.owner # Orphan BY <1>6, <1>7 DEF MoveNext
  <2> QED BY <1>7, <2>1, QuietSteps DEF Explained, RefusedOnlyWhileReading
<1>8. ASSUME ReadOn PROVE Explained'
  <2>1. object \in ResultSets /\ rs[object].ptr BY <1>0, <1>8 DEF ReadOn, ThreadOK
  <2>2. mysql'.owner # Orphan BY <1>6, <1>8, <2>1 DEF ReadOn
  <2>3. PICK f \in FetchRow(mysql, rs[object]) :
          /\ rs' = [rs EXCEPT ![object] = Moved(rs[object], f.row)]
          /\ IF f.row > 0 THEN ret' = ret
             ELSE ret' = [Returns("rows", "object", "none")
                            EXCEPT !.missing = Moved(rs[object], f.row).total
                                                 - Position(Moved(rs[object], f.row))]
    BY <1>8 DEF ReadOn
  <2>4. CASE ~(f.row > 0)
    <3>1. ret'.err = "none" BY <2>3, <2>4 DEF Returns, NoCall
    <3> QED BY <2>2, <3>1 DEF Explained, RefusedOnlyWhileReading
  <2>5. CASE f.row > 0
    <3>1. ret' = ret BY <2>3, <2>5
    <3>2. \A q \in ResultSets : Attached(rs[q]) => Attached(rs'[q])
      <4>1. rs \in [ResultSets -> Sets] BY <1>0 DEF SetsOK
      <4>2. /\ Moved(rs[object], f.row).kind = rs[object].kind
            /\ Moved(rs[object], f.row).ptr = rs[object].ptr
        BY <2>1, <2>5, <4>1, MovedKeeps
      <4> QED BY <2>1, <2>3, <4>1, <4>2 DEF Attached
    <3> QED BY <1>0, <2>2, <3>1, <3>2 DEF Explained, RefusedOnlyWhileReading
  <2> QED BY <2>4, <2>5
<1>9. ASSUME \/ Connect \/ Prepare \/ RetainStatement \/ ReleaseConnection \/ DrainPool
             \/ \E flag \in Modes : SetUnbuffered(flag)
             \/ \E holder : LetStatementGo(holder)
             \/ \E r \in ResultSets : Retain(r) \/ \E holder : LetGo(r, holder)
      PROVE  Explained'
  <2>1. mysql' \in {mysql, FreshHandle}
    BY <1>9 DEF Connect, Prepare, RetainStatement, SetUnbuffered, Retain, LetGo, DrainPool,
                ReleaseConnection, LetStatementGo, LetConnectionGo
  <2>2. mysql'.owner # Orphan BY <1>0, <2>1, NGMySQLAssumption DEF FreshHandle
  <2>3. ret'.err # "sync" BY <1>9, QuietSteps
  <2> QED BY <2>2, <2>3 DEF Explained, RefusedOnlyWhileReading
<1>10. ASSUME PoolDrained \/ ReleaseFromResult PROVE Explained'
  <2>1. mysql' \in {mysql, FreshHandle} /\ ret' = ret /\ rs' = rs
    BY <1>10 DEF PoolDrained, ReleaseFromResult, LetConnectionGo
  <2>2. mysql'.owner # Orphan BY <1>0, <2>1, NGMySQLAssumption DEF FreshHandle
  <2> QED BY <1>0, <2>1, <2>2 DEF Explained, RefusedOnlyWhileReading
<1>11. ASSUME FreeResult PROVE Explained'
  <2>1. object \in ResultSets /\ ret' = ret /\ pc = "free"
        /\ mysql' \in Freed(mysql, rs[object])
    BY <1>0, <1>11 DEF FreeResult, ThreadOK
  <2>2. mysql'.owner # Orphan
    BY <1>0, <2>1, FreedOK, NGMySQLAssumption DEF SetsOK
  <2>3. ret.err # "sync" BY <1>0, <2>1
  <2> QED BY <2>1, <2>2, <2>3 DEF Explained, RefusedOnlyWhileReading
<1>12. Explained'
  BY <1>1, <1>2, <1>4, <1>5, <1>7, <1>8, <1>9, <1>10, <1>11
     DEF Next, GoOn, Release, PoolReleases, ReleaseStatement, PoolReleasesStatement
<1> QED BY <1>0, <1>12, DeallocQuiet DEF Reasoned

(* A program that gives executeSQL: no statement with rows is refused a    *)
(* command only while a result set of its own is still reading.            *)
THEOREM RefusalHasCause == ASSUME Discards = FALSE PROVE Spec => []RefusedOnlyWhileReading
<1>1. Inv /\ Reasoned /\ [Next]_vars => Reasoned' BY ReasonedNext
<1>2. Reasoned => RefusedOnlyWhileReading BY DEF Reasoned, Explained
<1> QED BY <1>1, <1>2, ReasonedInit, Invariance, PTL DEF Spec

-----------------------------------------------------------------------------
(* The refinement of RowCursor.  The state of the cursors is a function of *)
(* rs alone, so a step that leaves rs as it was is a stuttering step.      *)
CursorsOf(f) == [r \in ResultSets |-> CursorOf(f[r])]

LEMMA CursorType ==
  ASSUME NEW s, NEW h, NEW r, SetOK(s, h, r)
  PROVE  CursorOf(s) \in Cursors!CursorStates /\ CursorOf(s).pos <= CursorOf(s).total
<1>1. s \in Sets /\ s.total \in 0..MaxRows /\ MaxRows \in Nat
  BY NGMySQLAssumption DEF SetOK, Sets
<1>2. Position(s) \in 0..MaxRows
  BY <1>1 DEF SetOK, Position, Sets
<1>3. (s.kind = "stream") \in BOOLEAN OBVIOUS
<1> QED BY <1>1, <1>2, <1>3 DEF CursorOf, SetOK, Cursors!CursorStates

(* The kinds of steps of a result set, seen as steps of its cursor. *)
Creates(r, s) ==
  /\ rs[r] = Absent
  /\ rs' = [rs EXCEPT ![r] = s]
  /\ s.kind \in {"stored", "stream"}
  /\ s.eof => s.kind = "stream" \/ Position(s) = s.total

LEMMA CreateStep ==
  ASSUME Inv, Inv', NEW r \in ResultSets, NEW s, Creates(r, s)
  PROVE  Cursors!Create(r)
<1>1. rs \in [ResultSets -> Sets] /\ SetOK(s, mysql', r)
  BY DEF Inv, Core, SetsOK, Creates
<1>2. CursorOf(Absent) = Cursors!NoCursor
  BY DEF CursorOf, Absent, Position, Cursors!NoCursor
<1>3. CursorOf(s) \in Cursors!CursorStates /\ CursorOf(s).pos <= CursorOf(s).total
  BY <1>1, CursorType
<1>4. \/ CursorOf(s).phase = "open"
      \/ CursorOf(s).phase = "ended" /\ Cursors!MayEnd(CursorOf(s))
  BY DEF Creates, CursorOf, Cursors!MayEnd
<1>5. CursorsOf(rs)' = [CursorsOf(rs) EXCEPT ![r] = CursorOf(s)]
  BY <1>1 DEF Creates, CursorsOf
<1>6. CursorsOf(rs)[r] = Cursors!NoCursor BY <1>2 DEF CursorsOf, Creates
<1>7. CursorsOf(rs)'[r] = CursorOf(s) BY <1>5 DEF CursorsOf
<1>8. CursorOf(s) \in Cursors!Fresh BY <1>3, <1>4 DEF Cursors!Fresh
<1> QED BY <1>5, <1>6, <1>7, <1>8 DEF Cursors!Create, CursorsOf

(* moveNext delivers the next row, or announces the end: that of all the   *)
(* rows when they are buffered.                                            *)
LEMMA FetchStep ==
  ASSUME NEW r \in ResultSets, NEW h, NEW s, HandleOK(h), SetOK(s, h, r), s.ptr,
         NEW f \in FetchRow(h, s), NEW m, m = Moved(s, f.row)
  PROVE  /\ m.kind = s.kind /\ m.total = s.total /\ s.kind \in {"stored", "stream"} /\ ~s.eof
         /\ \/ ~m.eof /\ Position(m) = Position(s) + 1
            \/ m.eof /\ Position(m) = Position(s)
               /\ (s.kind = "stored" => Position(s) = s.total)
<1>0. s \in Sets /\ MaxRows \in Nat /\ s.kind \in {"stored", "stream"} /\ ~s.eof
  BY NGMySQLAssumption DEF SetOK, Sets, Kinds
<1>1. s.kind = "stored" => Position(s) + s.unread = s.total
  BY <1>0 DEF SetOK, Attached, Left
<1>2. s.rowIndex \in Nat /\ s.unread \in Nat /\ s.total \in Nat /\ Position(s) \in Nat
  BY <1>0 DEF Sets, Position
<1>3. f.row > 0 \/ (f.row = 0 /\ (s.kind = "stored" => s.unread = 0))
  BY <1>0, <1>1, <1>2 DEF FetchRow, HandleOK, Handles
<1>4. CASE f.row > 0
  <2>1. m.kind = s.kind /\ m.total = s.total /\ m.eof = FALSE /\ m.fetched = TRUE
        /\ m.rowIndex = IF s.fetched THEN s.rowIndex + 1 ELSE 0
    BY <1>0, <1>4 DEF Moved, Sets
  <2>2. Position(m) = m.rowIndex + 1 BY <2>1 DEF Position
  <2>3. CASE s.fetched BY <2>1, <2>2, <2>3, <1>0 DEF Position
  <2>4. CASE ~s.fetched BY <2>1, <2>2, <2>4, <1>0 DEF Position
  <2> QED BY <2>3, <2>4
<1>5. CASE f.row = 0 /\ (s.kind = "stored" => s.unread = 0)
  <2>1. m.kind = s.kind /\ m.total = s.total /\ m.eof = TRUE /\ m.fetched = s.fetched
        /\ m.rowIndex = s.rowIndex
    BY <1>0, <1>5 DEF Moved, Sets
  <2>2. Position(m) = Position(s) BY <2>1 DEF Position
  <2> QED BY <2>1, <2>2, <1>0, <1>1, <1>2, <1>5
<1> QED BY <1>3, <1>4, <1>5

(* What query:withArray:status: and the helpers make of the outcome. *)
LEMMA QueryStep ==
  ASSUME Inv, Inv', NEW r \in ResultSets, rs[r] = Absent,
         NEW o, NEW holders, rs' = Wrapped(r, o, holders), o.res \in Kinds
  PROVE  rs' = rs \/ Cursors!Create(r)
<1>1. CASE o.res = "absent" BY <1>1 DEF Wrapped
<1>2. CASE o.res # "absent"
  <2>1. rs' = [rs EXCEPT ![r] = NewResultSet(o, holders)] BY <1>2 DEF Wrapped
  <2>2. NewResultSet(o, holders).kind \in {"stored", "stream"} /\ ~NewResultSet(o, holders).eof
    BY <1>2 DEF NewResultSet, Kinds
  <2> QED BY <2>1, <2>2, CreateStep DEF Creates
<1> QED BY <1>1, <1>2

(* The end of a dealloc is the end of the cursor. *)
LEMMA DropStep ==
  ASSUME Inv, FreeResult
  PROVE  Cursors!Drop({object})
<1>1. object \in ResultSets /\ rs \in [ResultSets -> Sets] /\ rs' = [rs EXCEPT ![object] = Absent]
  BY DEF Inv, Core, SetsOK, ThreadOK, FreeResult
<1>2. CursorOf(Absent) = Cursors!NoCursor
  BY DEF CursorOf, Absent, Position, Cursors!NoCursor
<1>3. ASSUME NEW q \in ResultSets
      PROVE  CursorOf(rs'[q]) = IF q \in {object} THEN Cursors!NoCursor ELSE CursorOf(rs[q])
  <2>1. CASE q = object BY <1>1, <1>2, <2>1
  <2>2. CASE q # object BY <1>1, <2>2
  <2> QED BY <2>1, <2>2
<1> QED BY <1>3 DEF Cursors!Drop

(* Nor do the holders of a result set show in its cursor. *)
LEMMA HoldersStep ==
  ASSUME Inv, NEW r \in ResultSets, NEW holders, rs' = [rs EXCEPT ![r].holders = holders]
  PROVE  UNCHANGED CursorsOf(rs)
<1> DEFINE s == rs[r]  t == [rs[r] EXCEPT !.holders = holders]
<1>1. rs' = [rs EXCEPT ![r] = t] /\ s \in Sets /\ rs \in [ResultSets -> Sets]
  BY DEF Inv, Core, SetsOK
<1>2. t.kind = s.kind /\ t.eof = s.eof /\ t.total = s.total
      /\ t.fetched = s.fetched /\ t.rowIndex = s.rowIndex
  BY <1>1 DEF Sets
<1>3. CursorOf(t) = CursorOf(s)
  <2> HIDE DEF s, t
  <2> QED BY <1>2 DEF CursorOf, Position
<1> HIDE DEF t
<1> QED BY <1>1, <1>3 DEF CursorsOf

LEMMA RefinedInit == Init => Cursors!Init
<1>1. CursorOf(Absent) = Cursors!NoCursor
  BY DEF CursorOf, Absent, Position, Cursors!NoCursor
<1> QED BY <1>1 DEF Init, Cursors!Init

LEMMA RefinedNext ==
  ASSUME Inv, Inv', [Next]_vars
  PROVE  [Cursors!Next]_(CursorsOf(rs))
<1> USE DEF Inv
<1>0. unbuffered \in BOOLEAN /\ stmt.unbuffered \in BOOLEAN /\ Discards \in BOOLEAN
      /\ {"pool"} \in SUBSET Holders /\ {"app"} \in SUBSET Holders
      /\ rs \in [ResultSets -> Sets]
      /\ HandleOK(mysql) /\ SetsOK(rs, mysql) /\ ThreadOK
  BY NGMySQLAssumption DEF Core, OthersOK, Holders, SetsOK
<1>1. CASE rs' = rs BY <1>1 DEF CursorsOf
<1>2. ASSUME NEW r \in ResultSets, Cursors!Create(r) PROVE Cursors!Next
  BY <1>2 DEF Cursors!Next
<1>3. ASSUME NEW r \in ResultSets, Query(r) \/ StatementQuery(r) \/ RowsForQuery(r)
      PROVE  rs' = rs \/ Cursors!Next
  <2>1. PICK stream \in BOOLEAN, holders \in SUBSET Holders : \E select \in BOOLEAN :
          \E o \in Exec(mysql, select, stream, r) : rs' = Wrapped(r, o, holders)
    BY <1>0, <1>3 DEF Query, StatementQuery, RowsForQuery
  <2>2. PICK select \in BOOLEAN :
          \E o \in Exec(mysql, select, stream, r) : rs' = Wrapped(r, o, holders)
    BY <2>1
  <2>3. PICK o \in Exec(mysql, select, stream, r) : rs' = Wrapped(r, o, holders)
    BY <2>2
  <2>4. o.res \in Kinds BY <1>0, ExecOutcome
  <2>5. rs[r] = Absent BY <1>3 DEF Query, StatementQuery, RowsForQuery, CanQuery
  <2> QED BY <1>2, <2>3, <2>4, <2>5, QueryStep
<1>4. ASSUME NEW r \in ResultSets, RowForQuery(r)
      PROVE  rs' = rs \/ Cursors!Next
  <2>0. rs[r] = Absent BY <1>4 DEF RowForQuery, CanQuery
  <2>1. SUFFICES ASSUME rs' # rs PROVE Cursors!Next OBVIOUS
  <2>2. PICK o \in Exec(mysql, TRUE, unbuffered, r) :
          /\ o.res # "absent"
          /\ \E f \in FetchRow(o.h, NewResultSet(o, {"pool"})) :
               rs' = [rs EXCEPT ![r] = Moved(NewResultSet(o, {"pool"}), f.row)]
    BY <1>4, <2>1 DEF RowForQuery
  <2> DEFINE new == NewResultSet(o, {"pool"})
  <2>3. HandleOK(o.h) /\ SetOK(new, o.h, r) /\ new.ptr
    BY <1>0, <2>0, <2>2, QueryOK
  <2> HIDE DEF new
  <2>4. PICK f \in FetchRow(o.h, new) : rs' = [rs EXCEPT ![r] = Moved(new, f.row)]
    BY <2>2 DEF new
  <2> DEFINE m == Moved(new, f.row)
  <2>5. /\ m.kind = new.kind /\ m.total = new.total /\ new.kind \in {"stored", "stream"}
        /\ \/ ~m.eof
           \/ m.eof /\ Position(m) = Position(new)
              /\ (new.kind = "stored" => Position(new) = new.total)
    BY <2>3, FetchStep
  <2> HIDE DEF m
  <2>6. Creates(r, m) BY <2>0, <2>4, <2>5 DEF Creates, m
  <2> QED BY <1>2, <2>6, CreateStep
<1>5. ASSUME NEW r \in ResultSets, rs[r].ptr, NEW f \in FetchRow(mysql, rs[r]),
             rs' = [rs EXCEPT ![r] = Moved(rs[r], f.row)]
      PROVE  Cursors!Next
  <2>1. rs' = [rs EXCEPT ![r] = Moved(rs[r], f.row)] BY <1>5
  <2> DEFINE s == rs[r]  m == Moved(s, f.row)  c == CursorOf(s)  d == CursorOf(m)
  <2>2. SetOK(s, mysql, r) /\ s.ptr BY <1>0, <1>5 DEF SetsOK
  <2>3. /\ m.kind = s.kind /\ m.total = s.total /\ s.kind \in {"stored", "stream"} /\ ~s.eof
        /\ \/ ~m.eof /\ Position(m) = Position(s) + 1
           \/ m.eof /\ Position(m) = Position(s)
              /\ (s.kind = "stored" => Position(s) = s.total)
    BY <1>0, <1>5, <2>2, FetchStep
  <2>4. SetOK(m, mysql', r)
    <3>1. rs'[r] = m BY <1>0, <2>1
    <3> QED BY <3>1 DEF Core, SetsOK
  <2>5. CursorsOf(rs)' = [CursorsOf(rs) EXCEPT ![r] = d] /\ CursorsOf(rs)[r] = c
    BY <1>0, <2>1 DEF CursorsOf
  <2>6. c \in Cursors!CursorStates /\ d \in Cursors!CursorStates /\ d.pos <= d.total
    BY <2>2, <2>4, CursorType
  <2>7. /\ c.phase = "open" /\ c.streaming = (s.kind = "stream")
        /\ c.total = s.total /\ c.pos = Position(s)
        /\ d.streaming = c.streaming /\ d.total = c.total /\ d.pos = Position(m)
        /\ d.phase = IF m.eof THEN "ended" ELSE "open"
    <3> HIDE DEF s, m
    <3> QED BY <2>3 DEF CursorOf
  <2> HIDE DEF s, m, c, d
  <2>8. CASE ~m.eof /\ Position(m) = Position(s) + 1
    <3>1. d = [c EXCEPT !.pos = @ + 1] BY <2>6, <2>7, <2>8 DEF Cursors!CursorStates
    <3>2. c.pos < c.total BY <2>6, <2>7, <2>8 DEF Cursors!CursorStates
    <3>3. CursorsOf(rs)' = [CursorsOf(rs) EXCEPT ![r].pos = @ + 1]
      BY <2>5, <3>1
    <3>4. Cursors!Advance(r) BY <2>5, <2>7, <3>2, <3>3 DEF Cursors!Advance, CursorsOf
    <3> QED BY <3>4 DEF Cursors!Next
  <2>9. CASE m.eof /\ Position(m) = Position(s)
             /\ (s.kind = "stored" => Position(s) = s.total)
    <3>1. d = [c EXCEPT !.phase = "ended"] BY <2>6, <2>7, <2>9 DEF Cursors!CursorStates
    <3>2. Cursors!MayEnd(c) BY <2>3, <2>7, <2>9 DEF Cursors!MayEnd
    <3>3. CursorsOf(rs)' = [CursorsOf(rs) EXCEPT ![r].phase = "ended"]
      BY <2>5, <3>1
    <3>4. Cursors!Finish(r) BY <2>5, <2>7, <3>2, <3>3 DEF Cursors!Finish, CursorsOf
    <3> QED BY <3>4 DEF Cursors!Next
  <2> QED BY <2>3, <2>8, <2>9
<1>6. ASSUME NEW r \in ResultSets, MoveNext(r) PROVE Cursors!Next
  BY <1>5, <1>6 DEF MoveNext
<1>7. CASE ReadOn
  <2>1. object \in ResultSets /\ rs[object].ptr BY <1>0, <1>7 DEF ReadOn, ThreadOK
  <2> QED BY <1>5, <1>7, <2>1 DEF ReadOn
<1>8. ASSUME NEW r \in ResultSets, Retain(r) \/ \E holder : LetGo(r, holder)
      PROVE  UNCHANGED CursorsOf(rs)
  <2>1. \E holders : rs' = [rs EXCEPT ![r].holders = holders]
    BY <1>8 DEF Retain, LetGo
  <2> QED BY <2>1, HoldersStep
<1>9. CASE FreeResult
  <2>1. object \in ResultSets BY <1>0, <1>9 DEF FreeResult, ThreadOK
  <2> QED BY <1>9, <2>1, DropStep DEF Cursors!Next
<1>10. CASE \/ Connect \/ (\E flag \in Modes : SetUnbuffered(flag)) \/ Execute \/ Prepare
            \/ StatementExecute \/ RetainStatement \/ ReleaseConnection \/ DrainPool
            \/ PoolDrained \/ ReleaseFromResult \/ UNCHANGED vars
            \/ \E holder : LetStatementGo(holder)
  BY <1>1, <1>10 DEF Connect, SetUnbuffered, Execute, Prepare, StatementExecute, RetainStatement,
                     ReleaseConnection, LetStatementGo, DrainPool, PoolDrained, ReleaseFromResult,
                     vars
<1> QED BY <1>1, <1>3, <1>4, <1>6, <1>7, <1>8, <1>9, <1>10
       DEF Next, GoOn, Release, PoolReleases, ReleaseStatement, PoolReleasesStatement

(* Result sets are the cursors of RowCursor: rows in order, none twice,    *)
(* the end announced after the last one, or early on a broken stream.      *)
THEOREM Refinement == Spec => CursorContract
<1>1. Inv /\ Inv' /\ [Next]_vars => [Cursors!Next]_(CursorsOf(rs)) BY RefinedNext
<1> QED BY <1>1, RefinedInit, Invariance, PTL DEF Spec, CursorContract, Cursors!Spec, CursorsOf
=============================================================================
