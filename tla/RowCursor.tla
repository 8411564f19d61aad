----------------------------- MODULE RowCursor -----------------------------
(***************************************************************************)
(* What NGDBResultSet objects promise to the program that reads them with  *)
(* moveNext, eof and rowIndex (NGDBResultSet.h), whatever the driver: the  *)
(* rows of a result come one at a time and in order, none skipped and none *)
(* repeated, and once the end has been announced nothing more comes.  A    *)
(* buffered cursor announces the end only when every row has been handed   *)
(* out; a streaming one may also stop early, when the server fails while   *)
(* the rows are still on their way.  Cursors do not disturb one another.   *)
(***************************************************************************)
EXTENDS Naturals

CONSTANTS Cursors,       \* identities of the objects
          MaxRows        \* bound on the rows of a result

VARIABLE cursor          \* the state of every object

(* total: rows of the result; pos: rows handed to the program so far.      *)
CursorStates == [phase : {"absent", "open", "ended"}, streaming : BOOLEAN,
                 total : 0..MaxRows, pos : 0..MaxRows]

NoCursor == [phase |-> "absent", streaming |-> FALSE, total |-> 0, pos |-> 0]

TypeOK == cursor \in [Cursors -> CursorStates]

MayEnd(s) == s.pos = s.total \/ s.streaming

Init == cursor = [c \in Cursors |-> NoCursor]

(* A query creates the object.  The helpers that run a query and read it   *)
(* before they return create it with rows already handed out.              *)
Fresh == {s \in CursorStates :
            /\ s.pos <= s.total
            /\ s.phase = "open" \/ (s.phase = "ended" /\ MayEnd(s))}

Create(c) ==
  /\ cursor[c] = NoCursor
  /\ cursor'[c] \in Fresh
  /\ cursor' = [cursor EXCEPT ![c] = cursor'[c]]

Advance(c) ==
  /\ cursor[c].phase = "open" /\ cursor[c].pos < cursor[c].total
  /\ cursor' = [cursor EXCEPT ![c].pos = @ + 1]

Finish(c) ==
  /\ cursor[c].phase = "open" /\ MayEnd(cursor[c])
  /\ cursor' = [cursor EXCEPT ![c].phase = "ended"]

(* The last references to some of the objects go away.                     *)
Drop(D) ==
  cursor' = [c \in Cursors |-> IF c \in D THEN NoCursor ELSE cursor[c]]

Next == \/ \E D \in SUBSET Cursors : Drop(D)
        \/ \E c \in Cursors : Advance(c) \/ Finish(c) \/ Create(c)

Spec == Init /\ [][Next]_cursor
=============================================================================
