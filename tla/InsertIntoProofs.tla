-------------------------- MODULE InsertIntoProofs --------------------------
(***************************************************************************)
(* The invariants of insertInto:values:status: for arrays of any length,   *)
(* any limit and any number of columns orders.  They rest on an account of *)
(* where the rows are: every entry passed so far is the header, a row of   *)
(* the table, or a row of the statement under construction, in this order. *)
(***************************************************************************)
EXTENDS InsertInto, TLAPS

(* The entries passed that are not rows: the header, once it is taken. *)
Taken == IF n = 1 THEN 0 ELSE Headers

TypeInv ==
  /\ call.shape \in {"dict", "array", "other"} /\ call.limit \in Nat
  /\ call.entries \in Seq(Entries) /\ Len(call.entries) <= MaxEntries
  /\ call.shape = "dict" => Len(call.entries) = 1
  /\ call \in Calls
  /\ n \in 1..(Len(call.entries) + 1) /\ first \in BOOLEAN
  /\ klist \in KeyOrders \cup {NoKeys}
  /\ sqllist \in Seq(Tuples) /\ table \in Seq(Tuples)
  /\ result \in {"none", "YES", "NO", "crash"}
  /\ Len(table) <= Len(call.entries)

(* While the call runs, no entry is lost between the table and sqllist. *)
Account ==
  /\ call.shape # "array" => n = 1 /\ sqllist = <<>>
  /\ Len(table) + Len(sqllist) <= n - 1
  /\ call.limit # 0 => Len(sqllist) < call.limit
  /\ Uniform =>
       /\ n - 1 = Taken + Len(table) + Len(sqllist)
       /\ \A i \in DOMAIN sqllist : sqllist[i].row = Headers + Len(table) + i
       /\ WellFormed(sqllist)
  /\ call.shape = "array" /\ ArrayOf("array") => (first <=> n = 1)
  /\ call.shape = "array" /\ ArrayOf("dict") => (first <=> sqllist = <<>>)

Ind == /\ TypeInv
       /\ result = "none" => Account
       /\ call.shape = "dict" /\ result = "none" => table = <<>>
       /\ StoredInOrder /\ YesMeansAll /\ DoubtBounded /\ StatementsWellFormed

-----------------------------------------------------------------------------
(* What the server has after one statement: the rows it had, then some of  *)
(* those of the statement, all of them if it said so.                      *)
LEMMA ExecOK ==
  ASSUME table \in Seq(Tuples), NEW sql \in Seq(Tuples), NEW ok \in BOOLEAN, Exec(sql, ok)
  PROVE  /\ table' \in Seq(Tuples)
         /\ Len(table) <= Len(table') /\ Len(table') <= Len(table) + Len(sql)
         /\ ok => Len(table') = Len(table) + Len(sql)
         /\ \A i \in 1..Len(table) : table'[i] = table[i]
         /\ \A i \in (Len(table) + 1)..Len(table') : table'[i] = sql[i - Len(table)]
<1>1. PICK stored \in 0..Len(sql) : /\ ok => stored = Len(sql)
                                    /\ table' = table \o SubSeq(sql, 1, stored)
  BY DEF Exec
<1> DEFINE sub == SubSeq(sql, 1, stored)
<1>2. sub \in Seq(Tuples) /\ Len(sub) = stored /\ \A i \in 1..stored : sub[i] = sql[i]
  OBVIOUS
<1> HIDE DEF sub
<1>3. table' \in Seq(Tuples) /\ Len(table') = Len(table) + stored
  BY <1>1, <1>2 DEF sub
<1>4. \A i \in 1..Len(table') : table'[i] = IF i <= Len(table) THEN table[i] ELSE sub[i - Len(table)]
  BY <1>1, <1>2, <1>3 DEF sub
<1>5. ASSUME NEW i \in (Len(table) + 1)..Len(table') PROVE table'[i] = sql[i - Len(table)]
  <2>1. i - Len(table) \in 1..stored BY <1>3
  <2> QED BY <1>2, <1>3, <1>4, <2>1
<1>6. Len(table) \in Nat /\ Len(sql) \in Nat /\ Len(table') \in Nat /\ stored \in Nat
  BY <1>3
<1>7. ASSUME NEW i \in 1..Len(table) PROVE table'[i] = table[i]
  BY <1>3, <1>4, <1>6
<1>8. Len(table) <= Len(table') /\ Len(table') <= Len(table) + Len(sql)
  BY <1>3, <1>6
<1>9. ok => Len(table') = Len(table) + Len(sql)
  <2> SUFFICES ASSUME ok PROVE Len(table') = Len(table) + Len(sql) OBVIOUS
  <2>1. stored = Len(sql) BY <1>1
  <2> QED BY <2>1, <1>3
<1> QED BY <1>3, <1>5, <1>7, <1>8, <1>9

(* The arguments do not change during the call, nor what follows from them. *)
LEMMA CallKept ==
  ASSUME call' = call
  PROVE  /\ Uniform' = Uniform /\ Headers' = Headers /\ Headers \in {0, 1}
         /\ \A kind : ArrayOf(kind)' = ArrayOf(kind)
BY DEF Uniform, Headers, ArrayOf

LEMMA AppendOK ==
  ASSUME NEW s \in Seq(Tuples), NEW t \in Tuples
  PROVE  /\ Append(s, t) \in Seq(Tuples) /\ Len(Append(s, t)) = Len(s) + 1
         /\ DOMAIN Append(s, t) = 1..(Len(s) + 1)
         /\ \A i \in 1..Len(s) : Append(s, t)[i] = s[i]
         /\ Append(s, t)[Len(s) + 1] = t
OBVIOUS

(* The end of an iteration of the loop. *)
LEMMA AddOK ==
  ASSUME Ind, More, call' = call, NEW tuple \in Tuples, tuple.row = n,
         NEW restart \in BOOLEAN, NEW columns \in KeyOrders \cup {NoKeys},
         Add(tuple, restart, columns),
         Uniform => WellFormed(Append(sqllist, tuple)) /\ Taken = Headers,
         ArrayOf("array") => ~restart, ArrayOf("dict") => restart
  PROVE  Ind'
<1> DEFINE batch == Append(sqllist, tuple)
<1>1. TypeInv /\ Account /\ StoredInOrder /\ result = "none" /\ call.shape = "array"
      /\ n \in Nat /\ n >= 1 /\ n <= Len(call.entries) /\ n' = n + 1 /\ call.limit \in Nat
  BY DEF Ind, More, Running, Add, TypeInv
<1>2. Uniform' = Uniform /\ Headers' = Headers /\ Headers \in {0, 1}
      /\ \A kind : ArrayOf(kind)' = ArrayOf(kind)
  BY CallKept
<1>3. sqllist \in Seq(Tuples) /\ table \in Seq(Tuples)
      /\ Len(sqllist) \in Nat /\ Len(table) \in Nat
  BY <1>1 DEF TypeInv
<1>4. /\ batch \in Seq(Tuples) /\ Len(batch) = Len(sqllist) + 1
      /\ DOMAIN batch = 1..(Len(sqllist) + 1)
      /\ \A i \in 1..Len(sqllist) : batch[i] = sqllist[i]
      /\ batch[Len(sqllist) + 1] = tuple
  BY <1>3, AppendOK
<1>5. Uniform => \A i \in DOMAIN batch : batch[i].row = Headers + Len(table) + i
  <2> SUFFICES ASSUME Uniform, NEW i \in DOMAIN batch
               PROVE  batch[i].row = Headers + Len(table) + i
    OBVIOUS
  <2>1. CASE i \in 1..Len(sqllist) BY <2>1, <1>1, <1>3, <1>4 DEF Account
  <2>2. CASE i = Len(sqllist) + 1
    <3>1. n - 1 = Headers + Len(table) + Len(sqllist) BY <1>1 DEF Account
    <3>2. batch[i] = tuple BY <2>2, <1>4
    <3>3. n \in Nat /\ Len(table) \in Nat /\ Len(sqllist) \in Nat /\ Headers \in Nat
      BY <1>1, <1>2, <1>3
    <3> HIDE DEF batch
    <3>4. n = Headers + Len(table) + i BY <2>2, <3>1, <3>3
    <3> QED BY <3>2, <3>4
  <2> QED BY <2>1, <2>2, <1>3, <1>4
<1>6. Uniform => n = Headers + Len(table) + Len(batch) /\ WellFormed(batch)
  <2>1. Uniform => n - 1 = Headers + Len(table) + Len(sqllist) BY <1>1 DEF Account
  <2>2. Uniform => WellFormed(batch) OBVIOUS
  <2>3. Len(batch) = Len(sqllist) + 1 /\ Headers \in Nat BY <1>2, <1>4
  <2> HIDE DEF batch
  <2>4. Uniform => n = Headers + Len(table) + Len(batch)
    <3>1. n \in Nat /\ Len(table) \in Nat /\ Len(sqllist) \in Nat BY <1>1, <1>3
    <3> QED BY <2>1, <2>3, <3>1
  <2> QED BY <2>2, <2>4
<1>7. Len(table) + Len(batch) <= n /\ (call.limit # 0 => Len(batch) <= call.limit)
  BY <1>1, <1>3, <1>4 DEF Account
<1> HIDE DEF batch
<1>8. CASE ~Full(batch)
  <2>1. sqllist' = batch /\ first' = FALSE /\ klist' = columns /\ table' = table /\ result' = result
    BY <1>8 DEF Add, batch
  <2>2. TypeInv'
    <3>1. Len(table) <= Len(call.entries) /\ call.entries \in Seq(Entries)
          /\ n' \in 1..(Len(call.entries) + 1)
      BY <1>1 DEF TypeInv
    <3>2. first' \in BOOLEAN /\ klist' \in KeyOrders \cup {NoKeys}
          /\ result' \in {"none", "YES", "NO", "crash"}
      BY <1>1, <2>1
    <3>3. sqllist' \in Seq(Tuples) /\ table' \in Seq(Tuples) BY <1>3, <1>4, <2>1
    <3> QED BY <1>1, <2>1, <3>1, <3>2, <3>3 DEF TypeInv
  <2>3. Account'
    <3>1. batch # <<>> BY <1>3, <1>4
    <3>2. call.limit # 0 => Len(batch) < call.limit BY <1>7, <1>8, <1>1, <1>3, <1>4 DEF Full
    <3>3. Uniform => n' - 1 = Taken' + Len(table') + Len(sqllist')
      BY <1>1, <1>2, <1>3, <1>4, <1>6, <2>1 DEF Taken
    <3> QED BY <1>1, <1>2, <1>3, <1>4, <1>5, <1>6, <1>7, <2>1, <3>1, <3>2, <3>3 DEF Account, WellFormed
  <2>4. StoredInOrder' /\ YesMeansAll' /\ DoubtBounded'
    BY <1>1, <1>2, <2>1 DEF StoredInOrder, YesMeansAll, DoubtBounded
  <2>5. StatementsWellFormed' BY <1>2, <1>6, <2>1 DEF StatementsWellFormed, WellFormed
  <2> QED BY <1>1, <2>1, <2>2, <2>3, <2>4, <2>5 DEF Ind
<1>9. CASE Full(batch)
  <2>1. PICK ok \in BOOLEAN :
          /\ Exec(batch, ok) /\ sqllist' = <<>> /\ result' = IF ok THEN "none" ELSE "NO"
          /\ first' = restart /\ klist' = IF restart THEN NoKeys ELSE columns
    BY <1>9 DEF Add, batch
  <2>2. /\ table' \in Seq(Tuples)
        /\ Len(table) <= Len(table') /\ Len(table') <= Len(table) + Len(batch)
        /\ ok => Len(table') = Len(table) + Len(batch)
        /\ \A i \in 1..Len(table) : table'[i] = table[i]
        /\ \A i \in (Len(table) + 1)..Len(table') : table'[i] = batch[i - Len(table)]
    BY <1>3, <1>4, <2>1, ExecOK
  <2>3. Len(table') \in Nat /\ Len(batch) \in Nat /\ Len(sqllist') = 0
        /\ DOMAIN sqllist' = {} /\ sqllist' \in Seq(Tuples)
        /\ DOMAIN table' = 1..Len(table') /\ DOMAIN table = 1..Len(table)
        /\ DOMAIN batch = 1..Len(batch)
    BY <1>3, <1>4, <2>1, <2>2
  <2>10. /\ Len(table) <= Len(table') /\ Len(table') <= Len(table) + Len(batch)
         /\ Len(table) + Len(batch) <= n
    BY <2>2, <1>7
  <2>4. TypeInv'
    <3>1. Len(table') <= Len(call'.entries)
      BY <1>1, <1>3, <2>3, <2>10
    <3>2. n' \in 1..(Len(call'.entries) + 1) BY <1>1 DEF TypeInv
    <3>3. first' \in BOOLEAN /\ klist' \in KeyOrders \cup {NoKeys}
          /\ result' \in {"none", "YES", "NO", "crash"}
      BY <2>1
    <3>4. table' \in Seq(Tuples) BY <2>2
    <3> QED BY <1>1, <2>3, <3>1, <3>2, <3>3, <3>4 DEF TypeInv
  <2>5. StoredInOrder'
    <3> SUFFICES ASSUME Uniform, NEW i \in 1..Len(table') PROVE table'[i].row = Headers + i
      BY <1>2, <2>3 DEF StoredInOrder
    <3>1. CASE i <= Len(table)
      <4>1. i \in 1..Len(table) BY <3>1, <1>3, <2>3
      <4>2. table[i].row = Headers + i BY <4>1, <1>1, <2>3 DEF StoredInOrder
      <4>3. table'[i] = table[i] BY <4>1, <2>2
      <4> QED BY <4>2, <4>3
    <3>2. CASE i > Len(table)
      <4>0. i \in Nat /\ i <= Len(table') BY <2>3
      <4>1. i - Len(table) \in DOMAIN batch BY <3>2, <4>0, <1>3, <2>3, <2>10
      <4>2. batch[i - Len(table)].row = Headers + Len(table) + (i - Len(table)) BY <4>1, <1>5
      <4>3. table'[i] = batch[i - Len(table)]
        <5>1. i \in (Len(table) + 1)..Len(table') BY <3>2, <4>0, <1>3, <2>3
        <5> QED BY <5>1, <2>2
      <4> QED BY <4>2, <4>3, <1>2, <1>3
    <3> QED BY <3>1, <3>2, <1>3
  <2>6. result' = "none" => Account'
    <3> SUFFICES ASSUME ok PROVE Account' BY <2>1
    <3>1. Len(table') = Len(table) + Len(batch) BY <2>2
    <3>2. Uniform => n' - 1 = Taken' + Len(table') + Len(sqllist')
      BY <1>1, <1>2, <1>3, <1>6, <2>3, <3>1 DEF Taken
    <3>3. Len(table') + Len(sqllist') <= n' - 1 BY <1>1, <1>3, <1>7, <2>3, <3>1
    <3>4. WellFormed(sqllist)' BY <2>3 DEF WellFormed
    <3>5. call'.limit # 0 => Len(sqllist') < call'.limit BY <1>1, <2>3
    <3>6. /\ ArrayOf("array")' => (first' <=> n' = 1)
          /\ ArrayOf("dict")' => (first' <=> sqllist' = <<>>)
      <4>1. n' # 1 BY <1>1
      <4> QED BY <4>1, <1>2, <2>1
    <3> QED BY <1>1, <1>2, <2>3, <3>2, <3>3, <3>4, <3>5, <3>6 DEF Account
  <2>7. YesMeansAll' BY <2>1 DEF YesMeansAll
  <2>8. DoubtBounded'
    <3> SUFFICES ASSUME Uniform, call.limit # 0 PROVE n' - 1 - Headers - Len(table') <= call.limit
      BY <1>2 DEF DoubtBounded
    <3>1. n = Headers + Len(table) + Len(batch) /\ Len(batch) <= call.limit
      BY <1>6, <1>7
    <3> QED BY <1>1, <1>2, <1>3, <2>3, <2>10, <3>1
  <2>9. StatementsWellFormed' BY <2>3 DEF StatementsWellFormed, WellFormed
  <2> QED BY <1>1, <2>4, <2>5, <2>6, <2>7, <2>8, <2>9 DEF Ind
<1> QED BY <1>8, <1>9

LEMMA EntriesOK ==
  ASSUME NEW c \in Calls
  PROVE  /\ c.shape \in {"dict", "array", "other"} /\ c.limit \in Nat
         /\ c.entries \in Seq(Entries) /\ Len(c.entries) <= MaxEntries
<1>1. c.shape \in {"dict", "array", "other"} /\ c.limit \in Limits
      /\ c.entries \in UNION {[1..k -> Entries] : k \in 0..MaxEntries}
  BY DEF Calls
<1>2. PICK k \in 0..MaxEntries : c.entries \in [1..k -> Entries] BY <1>1
<1>3. k \in Nat BY <1>2, InsertAssumption
<1>4. c.entries \in Seq(Entries) /\ Len(c.entries) = k BY <1>2, <1>3
<1>5. c.limit \in Nat BY <1>1, InsertAssumption
<1>6. k <= MaxEntries BY <1>2
<1> QED BY <1>1, <1>4, <1>5, <1>6

LEMMA EntryOK ==
  ASSUME TypeInv, More
  PROVE  /\ n \in DOMAIN call.entries /\ n \in 1..MaxEntries
         /\ Entry \in Entries /\ Entry.keys \in KeyOrders
         /\ \A kind : ArrayOf(kind) => Entry.kind \in {kind, "other"}
<1>1. n \in DOMAIN call.entries BY DEF TypeInv, More
<1>2. n \in 1..MaxEntries BY InsertAssumption DEF TypeInv, More
<1>3. Entry \in Entries BY <1>1 DEF TypeInv, Entry
<1>4. Entry.keys \in KeyOrders BY <1>3, InsertAssumption DEF Entries
<1>5. \A kind : ArrayOf(kind) => Entry.kind \in {kind, "other"} BY <1>1 DEF ArrayOf, Entry
<1> QED BY <1>1, <1>2, <1>3, <1>4, <1>5

LEMMA IndInit == Init => Ind
<1> SUFFICES ASSUME Init PROVE Ind OBVIOUS
<1>1. /\ call.shape \in {"dict", "array", "other"} /\ call.limit \in Nat
      /\ call.entries \in Seq(Entries) /\ Len(call.entries) <= MaxEntries
  BY EntriesOK DEF Init
<1>2. call.shape # "array" => Len(call.entries) = 1
  <2> SUFFICES ASSUME call.shape # "array" PROVE Len(call.entries) = 1 OBVIOUS
  <2>1. PICK e \in Entries : call.entries = <<e>> BY DEF Init
  <2>2. Len(<<e>>) = 1 OBVIOUS
  <2> QED BY <2>1, <2>2
<1>3. Len(call.entries) \in Nat BY <1>1
<1>4. n = 1 /\ first = TRUE /\ klist = NoKeys /\ sqllist = <<>> /\ table = <<>> /\ result = "none"
  BY DEF Init
<1>5. Len(sqllist) = 0 /\ Len(table) = 0 /\ DOMAIN sqllist = {} /\ DOMAIN table = {}
      /\ sqllist \in Seq(Tuples) /\ table \in Seq(Tuples)
  BY <1>4
<1>6. TypeInv BY <1>1, <1>2, <1>3, <1>4, <1>5 DEF TypeInv, Init
<1>7. Account BY <1>1, <1>4, <1>5 DEF Account, Taken, WellFormed
<1>8. StoredInOrder /\ YesMeansAll /\ DoubtBounded /\ StatementsWellFormed
  BY <1>4, <1>5 DEF StoredInOrder, YesMeansAll, DoubtBounded, StatementsWellFormed, WellFormed
<1> QED BY <1>4, <1>6, <1>7, <1>8 DEF Ind

LEMMA IndNext == Ind /\ [Next]_vars => Ind'
<1> SUFFICES ASSUME Ind, [Next]_vars PROVE Ind' OBVIOUS
<1>0. TypeInv /\ (result = "none" => Account) BY DEF Ind
<1>1. CASE InsertDict
  <2> DEFINE t == [row |-> 1, keys |-> Entry.keys, columns |-> Entry.keys]
  <2>1. PICK ok \in BOOLEAN : Exec(<<t>>, ok) /\ result' = IF ok THEN "YES" ELSE "NO"
    BY <1>1 DEF InsertDict
  <2>2. call.shape = "dict" /\ Len(call.entries) = 1 /\ n = 1 /\ result = "none" /\ table = <<>>
        /\ UNCHANGED <<call, n, first, klist, sqllist>> /\ sqllist = <<>>
    BY <1>0, <1>1 DEF InsertDict, Running, Ind, TypeInv, Account
  <2>3. t \in Tuples
    <3>1. Entry \in Entries BY <1>0, <2>2 DEF TypeInv, Entry
    <3>2. Entry.keys \in KeyOrders BY <3>1, InsertAssumption DEF Entries
    <3>3. 1 \in 1..MaxEntries BY <1>0, <2>2, InsertAssumption DEF TypeInv
    <3> QED BY <3>2, <3>3 DEF Tuples
  <2>4. t.row = 1 OBVIOUS
  <2> HIDE DEF t
  <2>5. <<t>> \in Seq(Tuples) /\ Len(<<t>>) = 1 /\ <<t>>[1] = t BY <2>3
  <2>6. table \in Seq(Tuples) /\ Len(table) = 0 BY <2>2
  <2>7. /\ table' \in Seq(Tuples)
        /\ Len(table) <= Len(table') /\ Len(table') <= Len(table) + 1
        /\ ok => Len(table') = Len(table) + 1
        /\ \A i \in (Len(table) + 1)..Len(table') : table'[i] = <<t>>[i - Len(table)]
    BY <2>1, <2>5, <2>6, ExecOK
  <2>8. Len(table') \in {0, 1} /\ (ok => Len(table') = 1) /\ DOMAIN table' = 1..Len(table')
    BY <2>6, <2>7
  <2>9. \A i \in DOMAIN table' : table'[i].row = i
    <3> SUFFICES ASSUME NEW i \in DOMAIN table' PROVE table'[i].row = i OBVIOUS
    <3>1. i = 1 /\ Len(table') = 1 BY <2>8
    <3>2. table'[1] = <<t>>[1 - 0] BY <2>6, <2>7, <3>1
    <3> QED BY <2>4, <2>5, <3>1, <3>2
  <2>10. Headers' = 0 BY <2>2 DEF Headers, ArrayOf
  <2>11. TypeInv'
    <3>1. Len(table') <= Len(call.entries) BY <2>2, <2>8
    <3>2. result' \in {"none", "YES", "NO", "crash"} BY <2>1
    <3> QED BY <1>0, <2>2, <2>7, <3>1, <3>2 DEF TypeInv
  <2>12. StoredInOrder' BY <2>8, <2>9, <2>10 DEF StoredInOrder
  <2>13. YesMeansAll'
    <3>1. result' = "YES" => Len(table') + 0 = Len(call.entries) BY <2>1, <2>2, <2>8
    <3> QED BY <2>2, <2>10, <3>1 DEF YesMeansAll
  <2>14. DoubtBounded'
    <3>1. call'.limit \in Nat BY <2>11 DEF TypeInv
    <3> QED BY <2>2, <2>8, <2>10, <3>1 DEF DoubtBounded
  <2>15. StatementsWellFormed' BY <2>2 DEF StatementsWellFormed, WellFormed
  <2> QED BY <2>1, <2>11, <2>12, <2>13, <2>14, <2>15 DEF Ind
<1>2. CASE RefuseValues
  <2>1. call.shape = "other" /\ result' = "NO" /\ result = "none"
        /\ UNCHANGED <<call, n, first, klist, sqllist, table>>
    BY <1>2 DEF RefuseValues, Running
  <2>2. ~Uniform BY <2>1 DEF Uniform, ArrayOf
  <2>3. ~Uniform' BY <2>1 DEF Uniform, ArrayOf
  <2>4. TypeInv' BY <1>0, <2>1 DEF TypeInv
  <2> QED BY <2>1, <2>3, <2>4
         DEF Ind, StoredInOrder, YesMeansAll, DoubtBounded, StatementsWellFormed
<1>3. CASE TakeHeader
  <2>1. More /\ Entry.kind = "array" /\ first = TRUE /\ klist' = Entry.keys /\ first' = FALSE
        /\ n' = n + 1 /\ UNCHANGED <<call, sqllist, table, result>>
    BY <1>0, <1>3 DEF TakeHeader, TypeInv
  <2>2. /\ n \in DOMAIN call.entries /\ Entry.keys \in KeyOrders
        /\ \A kind : ArrayOf(kind) => Entry.kind \in {kind, "other"}
    BY <1>0, <2>1, EntryOK
  <2>3. /\ result = "none" /\ call.shape = "array" /\ Account /\ ~ArrayOf("dict")
        /\ n \in Nat /\ n >= 1 /\ n <= Len(call.entries) /\ Len(call.entries) \in Nat
    BY <1>0, <2>1, <2>2 DEF More, Running, TypeInv
  <2>4. Uniform' = Uniform /\ Headers' = Headers /\ \A kind : ArrayOf(kind)' = ArrayOf(kind)
    BY <2>1, CallKept
  <2>5. TypeInv'
    <3>1. n' \in 1..(Len(call.entries) + 1) BY <2>1, <2>3
    <3> QED BY <1>0, <2>1, <2>2, <3>1 DEF TypeInv
  <2>6. Account'
    <3>1. Len(table) \in Nat /\ Len(sqllist) \in Nat BY <1>0 DEF TypeInv
    <3>2. ASSUME Uniform PROVE n' - 1 = Taken' + Len(table') + Len(sqllist')
      <4>1. ArrayOf("array") /\ n = 1 BY <2>1, <2>3, <3>2 DEF Uniform, Account
      <4>2. Headers = 1 /\ Taken' = 1 BY <2>1, <2>2, <2>4, <4>1 DEF Headers, Taken
      <4>3. 0 = Len(table) + Len(sqllist) BY <2>3, <3>1, <3>2, <4>1 DEF Account, Taken
      <4> QED BY <2>1, <3>1, <4>1, <4>2, <4>3
    <3>3. Len(table') + Len(sqllist') <= n' - 1 BY <2>1, <2>3, <3>1 DEF Account
    <3>4. n' # 1 BY <2>1, <2>3
    <3> QED BY <2>1, <2>3, <2>4, <3>2, <3>3, <3>4 DEF Account, WellFormed
  <2> QED BY <2>1, <2>3, <2>4, <2>5, <2>6
         DEF Ind, StoredInOrder, YesMeansAll, DoubtBounded, StatementsWellFormed, WellFormed
<1>4. CASE AddArray
  <2> DEFINE t == [row |-> n, keys |-> Entry.keys,
                   columns |-> IF sqllist = <<>> THEN klist ELSE Continued]
  <2>1. More /\ Entry.kind = "array" /\ first = FALSE /\ Add(t, FALSE, klist) /\ call' = call
    BY <1>0, <1>4 DEF AddArray, TypeInv
  <2>2. /\ n \in 1..MaxEntries /\ Entry.keys \in KeyOrders /\ ~ArrayOf("dict")
        /\ result = "none" /\ call.shape = "array" /\ Account /\ klist \in KeyOrders \cup {NoKeys}
        /\ sqllist \in Seq(Tuples)
    BY <1>0, <2>1, EntryOK DEF More, Running, TypeInv
  <2>3. t \in Tuples BY <2>2 DEF Tuples
  <2>4. t.row = n /\ (t.columns = Continued <=> sqllist # <<>>) BY <2>2, InsertAssumption
  <2> HIDE DEF t
  <2>5. ASSUME Uniform PROVE WellFormed(Append(sqllist, t)) /\ Taken = Headers
    <3>1. ArrayOf("array") /\ n # 1 /\ WellFormed(sqllist)
      BY <2>1, <2>2, <2>5 DEF Uniform, Account
    <3>2. WellFormed(Append(sqllist, t))
      BY <2>2, <2>3, <2>4, <3>1, AppendOK DEF WellFormed
    <3> QED BY <3>1, <3>2 DEF Taken
  <2> QED BY <2>1, <2>2, <2>3, <2>4, <2>5, AddOK
<1>5. CASE AddDict
  <2> DEFINE columns == IF first THEN Entry.keys ELSE klist
             t == [row |-> n, keys |-> Entry.keys,
                   columns |-> IF first THEN columns ELSE Continued]
  <2>1. More /\ Entry.kind = "dict" /\ Add(t, TRUE, columns) /\ call' = call
    BY <1>5 DEF AddDict
  <2>2. /\ n \in 1..MaxEntries /\ Entry.keys \in KeyOrders /\ ~ArrayOf("array")
        /\ result = "none" /\ call.shape = "array" /\ Account
        /\ columns \in KeyOrders \cup {NoKeys} /\ sqllist \in Seq(Tuples) /\ first \in BOOLEAN
    BY <1>0, <2>1, EntryOK DEF More, Running, TypeInv
  <2>3. t \in Tuples BY <2>2 DEF Tuples
  <2>4. t.row = n /\ (t.columns = Continued <=> ~first) BY <2>2, InsertAssumption
  <2> HIDE DEF t, columns
  <2>5. ASSUME Uniform PROVE WellFormed(Append(sqllist, t)) /\ Taken = Headers
    <3>1. ArrayOf("dict") /\ WellFormed(sqllist) /\ (first <=> sqllist = <<>>) /\ Headers = 0
      BY <2>2, <2>5 DEF Uniform, Account, Headers
    <3>2. WellFormed(Append(sqllist, t))
      BY <2>2, <2>3, <2>4, <3>1, AppendOK DEF WellFormed
    <3> QED BY <3>1, <3>2 DEF Taken
  <2> QED BY <2>1, <2>2, <2>3, <2>4, <2>5, AddOK
<1>6. CASE RefuseEntry
  <2>1. /\ result = "none" /\ call.shape = "array" /\ result' \in {"NO", "crash"} /\ sqllist' = <<>>
        /\ UNCHANGED <<call, n, first, klist, table>> /\ Account
    BY <1>0, <1>6 DEF RefuseEntry, More, Running
  <2>2. Uniform' = Uniform /\ Headers' = Headers /\ Headers \in {0, 1} BY <2>1, CallKept
  <2>3. DOMAIN sqllist' = {} /\ sqllist' \in Seq(Tuples) BY <2>1
  <2>4. TypeInv' BY <1>0, <2>1, <2>3 DEF TypeInv
  <2>5. DoubtBounded'
    <3> SUFFICES ASSUME Uniform, call.limit # 0 PROVE n - 1 - Headers - Len(table) <= call.limit
      BY <2>1, <2>2 DEF DoubtBounded
    <3>1. Len(table) \in Nat /\ Len(sqllist) \in Nat /\ n \in Nat /\ n >= 1 /\ call.limit \in Nat
      BY <1>0 DEF TypeInv
    <3>2. n - 1 = Taken + Len(table) + Len(sqllist) /\ Len(sqllist) < call.limit
      BY <2>1 DEF Account
    <3>3. Taken <= Headers /\ Taken \in {0, 1} BY <2>2 DEF Taken
    <3> QED BY <2>2, <3>1, <3>2, <3>3
  <2> QED BY <2>1, <2>2, <2>3, <2>4, <2>5
         DEF Ind, StoredInOrder, YesMeansAll, StatementsWellFormed, WellFormed
<1>7. CASE Finish
  <2>1. /\ result = "none" /\ call.shape = "array" /\ n > Len(call.entries) /\ Account
        /\ UNCHANGED <<call, n, first, klist, sqllist>> /\ result' \in {"YES", "NO"}
    BY <1>0, <1>7 DEF Finish, Running
  <2>2. Uniform' = Uniform /\ Headers' = Headers /\ Headers \in {0, 1} BY <2>1, CallKept
  <2>3. /\ Len(table) \in Nat /\ Len(sqllist) \in Nat /\ n \in Nat /\ call.limit \in Nat
        /\ Len(call.entries) \in Nat /\ n = Len(call.entries) + 1
    BY <1>0, <2>1 DEF TypeInv
  <2>14. /\ table \in Seq(Tuples) /\ sqllist \in Seq(Tuples)
         /\ DOMAIN table = 1..Len(table) /\ DOMAIN sqllist = 1..Len(sqllist)
    BY <1>0 DEF TypeInv
  <2>4. Uniform => n - 1 = Headers + Len(table) + Len(sqllist)
    <3>1. n = 1 => Headers = 0
      <4>1. n = 1 => call.entries = <<>> BY <1>0, <2>3 DEF TypeInv
      <4> QED BY <4>1 DEF Headers
    <3>2. Uniform => n - 1 = Taken + Len(table) + Len(sqllist) BY <2>1 DEF Account
    <3> QED BY <3>1, <3>2 DEF Taken
  <2>5. /\ table' \in Seq(Tuples)
        /\ Len(table) <= Len(table') /\ Len(table') <= Len(table) + Len(sqllist)
        /\ result' = "YES" => Len(table') = Len(table) + Len(sqllist)
        /\ \A i \in 1..Len(table) : table'[i] = table[i]
        /\ \A i \in (Len(table) + 1)..Len(table') : table'[i] = sqllist[i - Len(table)]
    <3>1. CASE sqllist = <<>>
      <4>1. table' = table /\ Len(sqllist) = 0 BY <1>7, <3>1 DEF Finish
      <4> QED BY <2>3, <2>14, <4>1
    <3>2. CASE sqllist # <<>>
      <4>1. PICK ok \in BOOLEAN : Exec(sqllist, ok) /\ result' = IF ok THEN "YES" ELSE "NO"
        BY <1>7, <3>2 DEF Finish
      <4>2. result' = "YES" => ok BY <4>1
      <4> QED BY <2>14, <4>1, <4>2, ExecOK
    <3> QED BY <3>1, <3>2
  <2>6. Len(table') \in Nat BY <2>5
  <2>15. DOMAIN table' = 1..Len(table') BY <2>5
  <2>7. Len(table) <= Len(table') /\ Len(table') <= Len(table) + Len(sqllist) BY <2>5
  <2>8. Len(table) + Len(sqllist) <= n - 1 BY <2>1 DEF Account
  <2>9. TypeInv'
    <3>1. Len(table') <= Len(call.entries) BY <2>3, <2>6, <2>7, <2>8
    <3> QED BY <1>0, <2>1, <2>5, <3>1 DEF TypeInv
  <2>10. StoredInOrder'
    <3> SUFFICES ASSUME Uniform, NEW i \in 1..Len(table') PROVE table'[i].row = Headers + i
      BY <2>2, <2>15 DEF StoredInOrder
    <3>1. CASE i <= Len(table)
      <4>1. i \in 1..Len(table) BY <2>3, <2>6, <3>1
      <4>2. table[i].row = Headers + i BY <4>1, <2>14 DEF Ind, StoredInOrder
      <4>3. table'[i] = table[i] BY <4>1, <2>5
      <4> QED BY <4>2, <4>3
    <3>2. CASE i > Len(table)
      <4>0. i \in Nat /\ i <= Len(table') BY <2>6
      <4>1. i \in (Len(table) + 1)..Len(table') /\ i - Len(table) \in 1..Len(sqllist)
        BY <2>3, <2>6, <2>7, <3>2, <4>0
      <4>2. sqllist[i - Len(table)].row = Headers + Len(table) + (i - Len(table))
        BY <2>1, <2>14, <4>1 DEF Account
      <4>3. table'[i] = sqllist[i - Len(table)] BY <2>5, <4>1
      <4> QED BY <2>2, <2>3, <4>0, <4>2, <4>3
    <3> QED BY <2>3, <2>6, <3>1, <3>2
  <2>11. YesMeansAll'
    <3> SUFFICES ASSUME Uniform, result' = "YES" PROVE Len(table') + Headers = Len(call.entries)
      BY <2>1, <2>2 DEF YesMeansAll
    <3>1. Len(table') = Len(table) + Len(sqllist) BY <2>5
    <3> QED BY <2>2, <2>3, <2>4, <3>1
  <2>12. DoubtBounded'
    <3> SUFFICES ASSUME Uniform, call.limit # 0 PROVE n - 1 - Headers - Len(table') <= call.limit
      BY <2>1, <2>2 DEF DoubtBounded
    <3>1. Len(sqllist) < call.limit BY <2>1 DEF Account
    <3> QED BY <2>2, <2>3, <2>4, <2>6, <2>7, <3>1
  <2>13. StatementsWellFormed' BY <2>1, <2>2 DEF StatementsWellFormed, Account, WellFormed
  <2> QED BY <2>1, <2>9, <2>10, <2>11, <2>12, <2>13 DEF Ind
<1>8. CASE UNCHANGED vars
  <2>1. Uniform' = Uniform /\ Headers' = Headers /\ \A kind : ArrayOf(kind)' = ArrayOf(kind)
    BY <1>8, CallKept DEF vars
  <2>2. TypeInv' BY <1>0, <1>8 DEF TypeInv, vars
  <2>3. result' = "none" => Account'
    BY <1>0, <1>8, <2>1 DEF vars, Account, Taken, WellFormed
  <2> QED BY <1>8, <2>1, <2>2, <2>3
         DEF vars, Ind, StoredInOrder, YesMeansAll, DoubtBounded, StatementsWellFormed, WellFormed
<1> QED BY <1>1, <1>2, <1>3, <1>4, <1>5, <1>6, <1>7, <1>8 DEF Next

-----------------------------------------------------------------------------
LEMMA Accounted == Spec => []Ind
BY IndInit, IndNext, PTL DEF Spec

(* The server never holds more rows than it was given. *)
THEOREM TypeCorrect == Spec => []TypeOK
<1>1. Ind => TypeOK BY DEF Ind, TypeInv, TypeOK
<1> QED BY <1>1, Accounted, PTL

(* However the batches fall and fail, rows arrive in order, each once. *)
THEOREM InOrder == Spec => []StoredInOrder
<1>1. Ind => StoredInOrder BY DEF Ind
<1> QED BY <1>1, Accounted, PTL

(* insertInto: answers YES only when all the rows are stored. *)
THEOREM YesIsComplete == Spec => []YesMeansAll
<1>1. Ind => YesMeansAll BY DEF Ind
<1> QED BY <1>1, Accounted, PTL

(* When it answers NO, no more rows than one statement holds are in doubt. *)
THEOREM DoubtIsBounded == Spec => []DoubtBounded
<1>1. Ind => DoubtBounded BY DEF Ind
<1> QED BY <1>1, Accounted, PTL

(* Every statement begins once. *)
THEOREM Statements == Spec => []StatementsWellFormed
<1>1. Ind => StatementsWellFormed BY DEF Ind
<1> QED BY <1>1, Accounted, PTL

-----------------------------------------------------------------------------
(* Columns.  Arrays have the order of the header, and so has every row and *)
(* every column list made from them; where a statement holds one row, the  *)
(* row has its own keys in front of it.                                    *)
UnderHeader(rows) ==
  \A i \in DOMAIN rows : rows[i].keys = Header /\ rows[i].columns \in {Header, Continued}

OwnHeaded(rows) == \A i \in DOMAIN rows : rows[i].columns = rows[i].keys

Singly == Uniform /\ call.limit = 1

Columns == /\ ArrayOf("array") => /\ UnderHeader(table) /\ UnderHeader(sqllist)
                                  /\ n > 1 => klist = Header
           /\ Singly => OwnHeaded(table)

LEMMA ExecColumns ==
  ASSUME table \in Seq(Tuples), NEW sql \in Seq(Tuples), NEW ok \in BOOLEAN, Exec(sql, ok)
  PROVE  /\ UnderHeader(table) /\ UnderHeader(sql) => UnderHeader(table')
         /\ OwnHeaded(table) /\ OwnHeaded(sql) => OwnHeaded(table')
<1>1. /\ table' \in Seq(Tuples)
      /\ \A i \in 1..Len(table) : table'[i] = table[i]
      /\ \A i \in (Len(table) + 1)..Len(table') : table'[i] = sql[i - Len(table)]
      /\ Len(table') <= Len(table) + Len(sql)
  BY ExecOK
<1>2. Len(table) \in Nat /\ Len(table') \in Nat /\ Len(sql) \in Nat
      /\ DOMAIN table = 1..Len(table) /\ DOMAIN table' = 1..Len(table')
      /\ DOMAIN sql = 1..Len(sql)
  BY <1>1
<1>3. ASSUME NEW i \in DOMAIN table'
      PROVE  \/ i \in DOMAIN table /\ table'[i] = table[i]
             \/ \E j \in DOMAIN sql : table'[i] = sql[j]
  <2>1. CASE i <= Len(table)
    <3>1. i \in 1..Len(table) BY <1>2, <2>1
    <3> QED BY <1>1, <1>2, <3>1
  <2>2. CASE i > Len(table)
    <3>1. i \in (Len(table) + 1)..Len(table') /\ i - Len(table) \in DOMAIN sql
      BY <1>1, <1>2, <2>2
    <3> QED BY <1>1, <3>1
  <2> QED BY <1>2, <2>1, <2>2
<1>4. UnderHeader(table) /\ UnderHeader(sql) => UnderHeader(table')
  BY <1>3 DEF UnderHeader
<1>5. OwnHeaded(table) /\ OwnHeaded(sql) => OwnHeaded(table')
  BY <1>3 DEF OwnHeaded
<1> QED BY <1>4, <1>5

(* One entry more, in both kinds of array. *)
LEMMA AddColumns ==
  ASSUME table \in Seq(Tuples), sqllist \in Seq(Tuples), n \in Nat, n >= 1,
         Columns, Account, call' = call,
         NEW tuple \in Tuples, NEW restart \in BOOLEAN,
         NEW columns \in KeyOrders \cup {NoKeys},
         Add(tuple, restart, columns),
         ArrayOf("array") => /\ tuple.keys = Header /\ tuple.columns \in {Header, Continued}
                             /\ columns = Header /\ ~restart,
         Singly => tuple.columns = tuple.keys
  PROVE  Columns'
<1> DEFINE batch == Append(sqllist, tuple)
<1>1. /\ batch \in Seq(Tuples) /\ Len(batch) = Len(sqllist) + 1
      /\ DOMAIN batch = 1..(Len(sqllist) + 1)
      /\ \A i \in 1..Len(sqllist) : batch[i] = sqllist[i]
      /\ batch[Len(sqllist) + 1] = tuple
  BY AppendOK
<1>2. Len(sqllist) \in Nat /\ DOMAIN sqllist = 1..Len(sqllist) OBVIOUS
<1>3. ArrayOf("array")' = ArrayOf("array") /\ Singly' = Singly
  BY CallKept DEF Singly
<1>4. ArrayOf("array") => UnderHeader(batch)
  <2> SUFFICES ASSUME ArrayOf("array"), NEW i \in DOMAIN batch
               PROVE  batch[i].keys = Header /\ batch[i].columns \in {Header, Continued}
    BY DEF UnderHeader
  <2>1. CASE i \in 1..Len(sqllist) BY <1>1, <1>2, <2>1 DEF Columns, UnderHeader
  <2>2. CASE i = Len(sqllist) + 1 BY <1>1, <2>2
  <2> QED BY <1>1, <1>2, <2>1, <2>2
<1>5. Singly => OwnHeaded(batch)
  <2> SUFFICES ASSUME Singly, NEW i \in DOMAIN batch PROVE batch[i].columns = batch[i].keys
    BY DEF OwnHeaded
  <2>1. Len(sqllist) = 0 BY <1>2 DEF Singly, Account
  <2>2. i = 1 BY <1>1, <2>1
  <2> QED BY <1>1, <2>1, <2>2
<1>6. Singly => OwnHeaded(table) BY DEF Columns
<1>7. ArrayOf("array") => UnderHeader(table) BY DEF Columns
<1> HIDE DEF batch
<1>8. CASE ~Full(batch)
  <2>1. sqllist' = batch /\ klist' = columns /\ table' = table
    BY <1>8 DEF Add, batch
  <2> QED BY <1>3, <1>4, <1>6, <1>7, <2>1 DEF Columns, UnderHeader, OwnHeaded
<1>9. CASE Full(batch)
  <2>1. PICK ok \in BOOLEAN :
          /\ Exec(batch, ok) /\ sqllist' = <<>>
          /\ klist' = IF restart THEN NoKeys ELSE columns
    BY <1>9 DEF Add, batch
  <2>2. DOMAIN sqllist' = {} BY <2>1
  <2>3. ArrayOf("array") => UnderHeader(table') BY <1>1, <1>4, <1>7, <2>1, ExecColumns
  <2>4. Singly => OwnHeaded(table') BY <1>1, <1>5, <1>6, <2>1, ExecColumns
  <2> QED BY <1>3, <2>1, <2>2, <2>3, <2>4 DEF Columns, UnderHeader, OwnHeaded
<1> QED BY <1>8, <1>9

LEMMA ColumnsInit == Init => Columns
BY DEF Init, Columns, UnderHeader, OwnHeaded

LEMMA ColumnsNext == Ind /\ Columns /\ [Next]_vars => Columns'
<1> SUFFICES ASSUME Ind, Columns, [Next]_vars PROVE Columns' OBVIOUS
<1>0. /\ TypeInv /\ (result = "none" => Account)
      /\ table \in Seq(Tuples) /\ sqllist \in Seq(Tuples) /\ n \in Nat /\ n >= 1
  BY DEF Ind, TypeInv
<1>1. CASE InsertDict
  <2> DEFINE t == [row |-> 1, keys |-> Entry.keys, columns |-> Entry.keys]
  <2>1. PICK ok \in BOOLEAN : Exec(<<t>>, ok) BY <1>1 DEF InsertDict
  <2>2. call.shape = "dict" /\ Len(call.entries) = 1 /\ n = 1 /\ table = <<>>
        /\ UNCHANGED <<call, n, klist, sqllist>>
    BY <1>0, <1>1 DEF InsertDict, Running, Ind, TypeInv, Account
  <2>3. t \in Tuples
    <3>1. Entry \in Entries BY <1>0, <2>2 DEF TypeInv, Entry
    <3>2. Entry.keys \in KeyOrders BY <3>1, InsertAssumption DEF Entries
    <3>3. 1 \in 1..MaxEntries BY <1>0, <2>2, InsertAssumption DEF TypeInv
    <3> QED BY <3>2, <3>3 DEF Tuples
  <2>4. t.columns = t.keys OBVIOUS
  <2> HIDE DEF t
  <2>5. <<t>> \in Seq(Tuples) /\ OwnHeaded(<<t>>) BY <2>3, <2>4 DEF OwnHeaded
  <2>6. OwnHeaded(table) BY <2>2 DEF OwnHeaded
  <2>7. OwnHeaded(table') BY <1>0, <2>1, <2>5, <2>6, ExecColumns
  <2>8. ~ArrayOf("array")' BY <2>2 DEF ArrayOf
  <2> QED BY <2>7, <2>8 DEF Columns
<1>3. CASE TakeHeader
  <2>1. More /\ Entry.kind = "array" /\ klist' = Entry.keys
        /\ UNCHANGED <<call, sqllist, table>>
    BY <1>3 DEF TakeHeader
  <2>2. n \in DOMAIN call.entries BY <1>0, <2>1, EntryOK
  <2>3. Entry \in Entries BY <1>0, <2>1, EntryOK
  <2>4. Entry.keys = Header BY <2>1, <2>3 DEF Entries
  <2>5. ArrayOf("array")' = ArrayOf("array") /\ Singly' = Singly
    BY <2>1, CallKept DEF Singly
  <2> QED BY <2>1, <2>4, <2>5 DEF Columns, UnderHeader, OwnHeaded
<1>4. CASE AddArray
  <2> DEFINE t == [row |-> n, keys |-> Entry.keys,
                   columns |-> IF sqllist = <<>> THEN klist ELSE Continued]
  <2>1. More /\ Entry.kind = "array" /\ first = FALSE /\ Add(t, FALSE, klist) /\ call' = call
    BY <1>0, <1>4 DEF AddArray, TypeInv
  <2>2. /\ n \in 1..MaxEntries /\ Entry \in Entries /\ ~ArrayOf("dict")
        /\ call.shape = "array" /\ Account /\ klist \in KeyOrders \cup {NoKeys}
    BY <1>0, <2>1, EntryOK DEF More, Running, TypeInv
  <2>3. Entry.keys = Header BY <2>1, <2>2 DEF Entries
  <2>4. t \in Tuples BY <2>2, <2>3, InsertAssumption DEF Tuples
  <2>5. ArrayOf("array") => n > 1 /\ klist = Header
    <3>1. ArrayOf("array") => n # 1 BY <2>1, <2>2 DEF Account
    <3> QED BY <1>0, <3>1 DEF Columns
  <2>6. ArrayOf("array") => t.keys = Header /\ t.columns \in {Header, Continued}
    BY <2>3, <2>5
  <2>7. Singly => ArrayOf("array")
    BY <2>2 DEF Singly, Uniform
  <2>8. Singly => t.columns = t.keys
    <3>1. Singly => Len(sqllist) = 0 BY <1>0, <2>2 DEF Singly, Account
    <3>2. Singly => sqllist = <<>> BY <1>0, <3>1
    <3> QED BY <2>3, <2>5, <2>7, <3>2
  <2> HIDE DEF t
  <2> QED BY <1>0, <2>1, <2>2, <2>4, <2>5, <2>6, <2>8, AddColumns
<1>5. CASE AddDict
  <2> DEFINE columns == IF first THEN Entry.keys ELSE klist
             t == [row |-> n, keys |-> Entry.keys,
                   columns |-> IF first THEN columns ELSE Continued]
  <2>1. More /\ Entry.kind = "dict" /\ Add(t, TRUE, columns) /\ call' = call
    BY <1>5 DEF AddDict
  <2>2. /\ n \in 1..MaxEntries /\ Entry.keys \in KeyOrders /\ ~ArrayOf("array")
        /\ call.shape = "array" /\ Account
        /\ columns \in KeyOrders \cup {NoKeys} /\ first \in BOOLEAN
    BY <1>0, <2>1, EntryOK DEF More, Running, TypeInv
  <2>3. t \in Tuples BY <2>2 DEF Tuples
  <2>4. Singly => first
    <3>1. Singly => Len(sqllist) = 0 /\ ArrayOf("dict")
      BY <1>0, <2>2 DEF Singly, Uniform, Account
    <3>2. Singly => sqllist = <<>> BY <1>0, <3>1
    <3> QED BY <2>2, <3>1, <3>2 DEF Account
  <2>5. Singly => t.columns = t.keys BY <2>4
  <2> HIDE DEF t, columns
  <2> QED BY <1>0, <2>1, <2>2, <2>3, <2>5, AddColumns
<1>6. CASE RefuseEntry
  <2>1. sqllist' = <<>> /\ UNCHANGED <<call, n, klist, table>> BY <1>6 DEF RefuseEntry
  <2>2. DOMAIN sqllist' = {} BY <2>1
  <2>3. ArrayOf("array")' = ArrayOf("array") /\ Singly' = Singly
    BY <2>1, CallKept DEF Singly
  <2> QED BY <2>1, <2>2, <2>3 DEF Columns, UnderHeader, OwnHeaded
<1>7. CASE Finish
  <2>1. result = "none" /\ UNCHANGED <<call, n, klist, sqllist>>
    BY <1>7 DEF Finish, Running
  <2>2. ArrayOf("array")' = ArrayOf("array") /\ Singly' = Singly
    BY <2>1, CallKept DEF Singly
  <2>3. CASE sqllist = <<>>
    <3>1. table' = table BY <1>7, <2>3 DEF Finish
    <3> QED BY <2>1, <2>2, <3>1 DEF Columns, UnderHeader, OwnHeaded
  <2>4. CASE sqllist # <<>>
    <3>1. PICK ok \in BOOLEAN : Exec(sqllist, ok) BY <1>7, <2>4 DEF Finish
    <3>2. ~Singly
      <4>1. Len(sqllist) # 0 BY <1>0, <2>4
      <4>2. Len(sqllist) \in Nat BY <1>0
      <4> QED BY <1>0, <2>1, <4>1, <4>2 DEF Singly, Account
    <3>3. ArrayOf("array") => UnderHeader(table') BY <1>0, <3>1, ExecColumns DEF Columns
    <3>4. UnderHeader(sqllist)' = UnderHeader(sqllist) BY <2>1 DEF UnderHeader
    <3> QED BY <2>1, <2>2, <3>2, <3>3, <3>4 DEF Columns, UnderHeader
  <2> QED BY <2>3, <2>4
<1>8. CASE RefuseValues \/ UNCHANGED vars
  <2>1. UNCHANGED <<call, n, klist, sqllist, table>>
    BY <1>8 DEF RefuseValues, vars
  <2>2. ArrayOf("array")' = ArrayOf("array") /\ Singly' = Singly
    BY <2>1, CallKept DEF Singly
  <2> QED BY <2>1, <2>2 DEF Columns, UnderHeader, OwnHeaded
<1> QED BY <1>1, <1>3, <1>4, <1>5, <1>6, <1>7, <1>8 DEF Next

(* Values given as arrays, and values inserted row by row, are stored in   *)
(* the columns of their keys, whatever the order of the keys.              *)
THEOREM OwnColumnsHold == Spec => []OwnColumns
<1>1. Columns /\ TypeInv => OwnColumns
  <2> SUFFICES ASSUME Columns, TypeInv, ArrayOf("array") \/ Singly,
                      NEW i \in DOMAIN table, NEW j \in DOMAIN table, Heads(j, i)
               PROVE  table[j].columns = table[i].keys
    BY DEF OwnColumns, UnderOwnKeys, Singly
  <2>1. DOMAIN table = 1..Len(table) /\ Len(table) \in Nat BY DEF TypeInv
  <2>2. CASE ArrayOf("array")
    <3>1. table[j].columns # Continued BY DEF Heads
    <3> QED BY <2>2, <3>1 DEF Columns, UnderHeader
  <2>3. CASE Singly
    <3>1. table[i].columns = table[i].keys BY <2>3 DEF Columns, OwnHeaded
    <3>2. table[i].keys \in KeyOrders
      <4>1. table \in Seq(Tuples) BY DEF TypeInv
      <4>2. table[i] \in Tuples BY <2>1, <4>1
      <4> QED BY <4>2 DEF Tuples
    <3>3. table[i].columns # Continued BY <3>1, <3>2, InsertAssumption
    <3>4. j = i
      <4>1. j <= i /\ \A k \in (j + 1)..i : table[k].columns = Continued BY DEF Heads
      <4>2. i \notin (j + 1)..i BY <3>3, <4>1
      <4> QED BY <2>1, <4>1, <4>2
    <3> QED BY <3>1, <3>4
  <2> QED BY <2>2, <2>3
<1>2. Ind => TypeInv BY DEF Ind
<1> QED BY <1>1, <1>2, Accounted, ColumnsInit, ColumnsNext, PTL DEF Spec
=============================================================================
