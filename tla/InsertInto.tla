----------------------------- MODULE InsertInto -----------------------------
(***************************************************************************)
(* -[NGDBConnection insertInto:values:status:]: one call, which turns the  *)
(* dictionaries or the arrays it is given into multiple-row INSERT         *)
(* statements of at most multipleInsertLimit rows (0: no limit) and        *)
(* executes each as soon as it is full.                                    *)
(*                                                                         *)
(* There is no transaction around the statements, and each of them may     *)
(* fail: refused before or after some of its rows were stored, or executed *)
(* in full with the answer lost on the way back.  Between two statements   *)
(* the rows already stored are there for everybody to see.                 *)
(***************************************************************************)
EXTENDS Naturals, Sequences

CONSTANTS MaxEntries,    \* bound on the entries of an array of values
          Limits,        \* the drivers' values of multipleInsertLimit
          KeyOrders,     \* the orders in which allKeys can list the columns
          Header,        \* the order the first array of an array of arrays gives
          NoKeys,        \* klist is nil
          Continued      \* a tuple without the INSERT INTO ... VALUES prefix

ASSUME InsertAssumption ==
         /\ MaxEntries \in Nat /\ Limits \subseteq Nat
         /\ Header \in KeyOrders
         /\ NoKeys \notin KeyOrders /\ Continued \notin KeyOrders \cup {NoKeys}

VARIABLES call,          \* the arguments, and the limit of the connection
          n,             \* index of the next entry
          first,         \* the keys of the statement are still to be taken
          klist,         \* the columns of the statement
          sqllist,       \* the tuples of the statement under construction
          table,         \* the tuples stored by the server
          result         \* what the call returned

vars == <<call, n, first, klist, sqllist, table, result>>

(* An entry: a dictionary, whose keys come in an order of its own choosing *)
(* (allKeys and allValues), an array of values, or anything else.          *)
Entries == [kind : {"dict"}, keys : KeyOrders]
           \cup [kind : {"array", "other"}, keys : {Header}]

Calls == [shape : {"dict", "array", "other"},
          entries : UNION {[1..k -> Entries] : k \in 0..MaxEntries},
          limit : Limits, status : BOOLEAN]

(* A row in a statement: the entry it comes from, the order of its values, *)
(* and the column list written in front of it.                             *)
Tuples == [row : 1..MaxEntries, keys : KeyOrders,
           columns : KeyOrders \cup {NoKeys, Continued}]

(* INSERT INTO t (columns) VALUES (...), (...), ...                        *)
WellFormed(sql) ==
  \A i \in DOMAIN sql : sql[i].columns = Continued <=> i > 1

(* EXEC_AND_FREE: the server stores some of the rows; it answers with      *)
(* success only when it has stored all of them.                            *)
Exec(sql, ok) ==
  \E stored \in 0..Len(sql) :
    /\ ~WellFormed(sql) => ~ok /\ stored = 0
    /\ ok => stored = Len(sql)
    /\ table' = table \o SubSeq(sql, 1, stored)

Init == /\ call \in Calls
        /\ call.shape # "array" => \E e \in Entries : e.kind = "dict" /\ call.entries = <<e>>
        /\ n = 1 /\ first = TRUE /\ klist = NoKeys
        /\ sqllist = <<>> /\ table = <<>> /\ result = "none"

Entry == call.entries[n]
Running == result = "none"
More == Running /\ call.shape = "array" /\ n <= Len(call.entries)

(* A single dictionary of keys and values.                                 *)
InsertDict ==
  /\ Running /\ call.shape = "dict"
  /\ \E ok \in BOOLEAN :
       /\ Exec(<<[row |-> 1, keys |-> Entry.keys, columns |-> Entry.keys]>>, ok)
       /\ result' = IF ok THEN "YES" ELSE "NO"
  /\ UNCHANGED <<call, n, first, klist, sqllist>>

RefuseValues ==
  /\ Running /\ call.shape = "other"
  /\ result' = "NO"
  /\ UNCHANGED <<call, n, first, klist, sqllist, table>>

(* The first array holds the names of the columns.                         *)
TakeHeader ==
  /\ More /\ Entry.kind = "array" /\ first
  /\ klist' = Entry.keys /\ first' = FALSE /\ n' = n + 1
  /\ UNCHANGED <<call, sqllist, table, result>>

(* The end of an iteration: a full statement is executed, and the next one *)
(* begins, in an array of dictionaries with the keys of the next entry.    *)
(* Mutant: a statement is full one row too late. *)
FullLate(batch) == call.limit # 0 /\ Len(batch) > call.limit

Full(batch) == call.limit # 0 /\ Len(batch) >= call.limit

(* Mutant: the rows of an executed statement stay in the list. *)
AddKeepingRows(tuple, restart, columns) ==
  LET batch == Append(sqllist, tuple)
  IN /\ sqllist' = batch /\ n' = n + 1 /\ first' = restart /\ klist' = columns
     /\ \E ok \in BOOLEAN :
          IF Full(batch)
          THEN Exec(batch, ok) /\ result' = IF ok THEN "none" ELSE "NO"
          ELSE UNCHANGED <<table, result>>

(* Mutant: the statement after a full one continues it. *)
AddContinuing(tuple, restart, columns) ==
  LET batch == Append(sqllist, tuple)
  IN /\ n' = n + 1 /\ first' = FALSE /\ klist' = columns
     /\ IF Full(batch)
        THEN \E ok \in BOOLEAN : /\ Exec(batch, ok)
                                 /\ sqllist' = <<>> /\ result' = IF ok THEN "none" ELSE "NO"
        ELSE sqllist' = batch /\ UNCHANGED <<table, result>>

Add(tuple, restart, columns) ==
  LET batch == Append(sqllist, tuple)
  IN /\ n' = n + 1
     /\ IF Full(batch)
        THEN \E ok \in BOOLEAN :
               /\ Exec(batch, ok)
               /\ sqllist' = <<>> /\ result' = IF ok THEN "none" ELSE "NO"
               /\ first' = restart /\ klist' = IF restart THEN NoKeys ELSE columns
        ELSE /\ sqllist' = batch /\ first' = FALSE /\ klist' = columns
             /\ UNCHANGED <<table, result>>

(* Mutant: after a full statement the next array is taken as a header. *)
AddArrayRestarting ==
  /\ More /\ Entry.kind = "array" /\ ~first
  /\ Add([row |-> n, keys |-> Entry.keys,
          columns |-> IF sqllist = <<>> THEN klist ELSE Continued], TRUE, klist)
  /\ UNCHANGED call

AddArray ==
  /\ More /\ Entry.kind = "array" /\ ~first
  /\ Add([row |-> n, keys |-> Entry.keys,
          columns |-> IF sqllist = <<>> THEN klist ELSE Continued], FALSE, klist)
  /\ UNCHANGED call

AddDict ==
  /\ More /\ Entry.kind = "dict"
  /\ LET columns == IF first THEN Entry.keys ELSE klist
     IN Add([row |-> n, keys |-> Entry.keys,
             columns |-> IF first THEN columns ELSE Continued], TRUE, columns)
  /\ UNCHANGED call

(* Neither: the error is stored without looking whether there is a place   *)
(* for it.  What is in sqllist is dropped, what was executed stays.        *)
RefuseEntry ==
  /\ More /\ Entry.kind = "other"
  /\ result' = IF call.status THEN "NO" ELSE "crash"
  /\ sqllist' = <<>>
  /\ UNCHANGED <<call, n, first, klist, table>>

(* Mutant: the rows that do not fill a statement are forgotten. *)
FinishForgetting ==
  /\ Running /\ call.shape = "array" /\ n > Len(call.entries)
  /\ IF sqllist = <<>> \/ call.limit # 0
     THEN result' = "YES" /\ UNCHANGED table
     ELSE \E ok \in BOOLEAN : Exec(sqllist, ok) /\ result' = IF ok THEN "YES" ELSE "NO"
  /\ UNCHANGED <<call, n, first, klist, sqllist>>

Finish ==
  /\ Running /\ call.shape = "array" /\ n > Len(call.entries)
  /\ IF sqllist = <<>>
     THEN result' = "YES" /\ UNCHANGED table
     ELSE \E ok \in BOOLEAN : Exec(sqllist, ok) /\ result' = IF ok THEN "YES" ELSE "NO"
  /\ UNCHANGED <<call, n, first, klist, sqllist>>

Next == \/ InsertDict \/ RefuseValues
        \/ TakeHeader \/ AddArray \/ AddDict \/ RefuseEntry \/ Finish

Spec == Init /\ [][Next]_vars

-----------------------------------------------------------------------------
(* Type invariant; the server never holds more rows than it was given. *)
TypeOK == /\ call \in Calls /\ n \in 1..(Len(call.entries) + 1) /\ first \in BOOLEAN
          /\ klist \in KeyOrders \cup {NoKeys}
          /\ sqllist \in Seq(Tuples) /\ table \in Seq(Tuples)
          /\ Len(table) <= Len(call.entries)
          /\ result \in {"none", "YES", "NO", "crash"}

(* An array of dictionaries, or of arrays of which the first is a header.  *)
ArrayOf(kind) ==
  call.shape = "array" /\ \A i \in DOMAIN call.entries : call.entries[i].kind \in {kind, "other"}

Uniform == call.shape = "dict" \/ ArrayOf("dict") \/ ArrayOf("array")
Headers == IF ArrayOf("array") /\ call.entries # <<>> THEN 1 ELSE 0

(* The rows reach the server in the order they were given, none skipped    *)
(* and none twice, however the batches fall.                               *)
StoredInOrder ==
  Uniform => \A i \in DOMAIN table : table[i].row = Headers + i

(* YES means that every row is stored.                                     *)
YesMeansAll ==
  Uniform /\ result = "YES" => Len(table) + Headers = Len(call.entries)

(* With a limit, a failure leaves at most the rows of one statement in     *)
(* doubt: all the rows of earlier statements are stored.                   *)
DoubtBounded ==
  Uniform /\ call.limit # 0 /\ result \in {"NO", "crash"} =>
    n - 1 - Headers - Len(table) <= call.limit

(* Of an array of one kind, a statement never continues one that was not   *)
(* begun, and never begins twice.                                          *)
StatementsWellFormed == Uniform => WellFormed(sqllist)

(* Each value is stored in the column of its key: when the rows are given  *)
(* as arrays, and when every statement holds one row.  j is the row whose  *)
(* prefix names the columns of row i.                                      *)
Heads(j, i) == /\ j <= i /\ table[j].columns # Continued
               /\ \A k \in (j + 1)..i : table[k].columns = Continued

UnderOwnKeys ==
  \A i, j \in DOMAIN table : Heads(j, i) => table[j].columns = table[i].keys

OwnColumns == ArrayOf("array") \/ (Uniform /\ call.limit = 1) => UnderOwnKeys

(* The documentation asks no more of dictionaries than that their keys be  *)
(* identical (NGDBConnection.m, -insertInto:values:status:), which those   *)
(* of this model are: only the order in which allKeys lists them varies.   *)
IdenticalKeysSuffice == Uniform => UnderOwnKeys
=============================================================================
