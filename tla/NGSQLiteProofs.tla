--------------------------- MODULE NGSQLiteProofs ---------------------------
(***************************************************************************)
(* The SQLite result sets, for any number of them, of rows and of changes  *)
(* to the table.  The scan keeps an account of the rows behind it: each of *)
(* them has been delivered once or has not been in the table all along.    *)
(* The retain count keeps another, of those who have the connection.       *)
(***************************************************************************)
EXTENDS NGSQLite, FiniteSetTheorems, WellFoundedInduction, TLAPS

(* The account of one result set, over the table tab. *)
ScanOK(s, tab) ==
  /\ s.first => s.stmt = "row" /\ ~s.buffer /\ s.seen = {} /\ s.rowIndex = 0 /\ s.at \in Keys
  /\ s.stmt = "reset" => s.at = 0 /\ s.seen = {} /\ s.buffer /\ ~s.first
  /\ s.stmt = "row" /\ ~s.first => s.seen # {}
  /\ \A k \in s.seen : k <= s.at
  /\ s.row # 0 => s.row = s.at /\ s.at \in s.seen
  /\ s.stmt # "done" => s.eof = FALSE
  /\ Position(s) = Cardinality(s.seen)

KeptOK(s, tab) ==
  /\ s.kept \subseteq tab
  /\ \A k \in s.kept : k <= s.at => k \in s.seen \/ (s.first /\ k = s.at)
  /\ s.eof => s.kept \subseteq s.seen
  /\ s.stmt # "absent" /\ ~s.disturbed =>
       s.kept = tab /\ s.seen \subseteq s.kept /\ (s.first => s.at \in s.kept)
  /\ s.buffer /\ ~s.disturbed => s.rows = Cardinality(s.kept)

SetOK(s, tab) == s \in Sets /\ ScanOK(s, tab) /\ KeptOK(s, tab)

SetsOK == \A r \in ResultSets : SetOK(rs[r], table)

(* The retain count is the number of those who have the connection, and    *)
(* the handle is open while it is not zero.                                *)
Live == {r \in ResultSets : rs[r].stmt # "absent"}
Holding == IF held THEN 1 ELSE 0
Releasing == IF pc = "release" THEN 1 ELSE 0

CountOK == /\ refs = Holding + Releasing + Cardinality(Live)
           /\ conn = "open" <=> refs > 0
           /\ conn = "lost" => leaked

Inv == TypeOK /\ SetsOK /\ CountOK

-----------------------------------------------------------------------------
(* The least element of a set of natural numbers, and the greatest.        *)
LEMMA MinFact ==
  ASSUME NEW S \in SUBSET Nat, S # {}
  PROVE  Min(S) \in S /\ \A y \in S : Min(S) <= y
<1> DEFINE R == OpToRel(<, Nat)
<1>1. IsWellFoundedOn(R, Nat) BY NatLessThanWellFounded
<1>2. R = {ss \in Nat \X Nat : ss[1] < ss[2]} BY DEF OpToRel
<1> HIDE DEF R
<1>3. PICK x \in S : \A y \in S : ~ (<<y, x>> \in R) BY <1>1, WFMin
<1>4. ASSUME NEW y \in S PROVE x <= y
  <2>1. y \in Nat /\ x \in Nat OBVIOUS
  <2>2. ~(y < x) BY <1>2, <1>3, <2>1
  <2> QED BY <2>1, <2>2
<1> QED BY <1>4 DEF Min

LEMMA MaxFact ==
  ASSUME NEW S \in SUBSET Nat, NEW m \in S, \A k \in S : k <= m
  PROVE  Max(S) = m
<1>1. \A y \in S : m >= y OBVIOUS
<1>2. ASSUME NEW x \in S, \A y \in S : x >= y PROVE x = m
  <2>1. x \in Nat /\ m \in Nat /\ x >= m /\ x <= m BY <1>2
  <2> QED BY <2>1
<1> QED BY <1>1, <1>2 DEF Max

LEMMA KeySets ==
  ASSUME NEW S \in SUBSET Keys
  PROVE  /\ IsFiniteSet(S) /\ Cardinality(S) \in 0..MaxRows /\ S \in SUBSET Nat
<1>1. MaxRows \in Nat BY NGSQLiteAssumption
<1>2. IsFiniteSet(Keys) /\ Cardinality(Keys) = MaxRows BY <1>1, FS_Interval DEF Keys
<1>3. IsFiniteSet(S) /\ Cardinality(S) <= MaxRows BY <1>2, FS_Subset
<1>4. Cardinality(S) \in Nat BY <1>3, FS_CardinalityType
<1>5. S \in SUBSET Nat BY <1>1 DEF Keys
<1> QED BY <1>1, <1>3, <1>4, <1>5

LEMMA AbsentOK == ASSUME NEW tab PROVE SetOK(Absent, tab)
<1>1. Absent \in Sets BY NGSQLiteAssumption DEF Absent, Sets
<1>2. Cardinality({}) = 0 BY FS_EmptySet
<1>3. ScanOK(Absent, tab) BY <1>2 DEF ScanOK, Absent, Position
<1>4. KeptOK(Absent, tab) BY DEF KeptOK, Absent
<1> QED BY <1>1, <1>3, <1>4 DEF SetOK

(* A new result set, over a table with rows: at the beginning of the scan  *)
(* when buffered, on its first row when not.                               *)
LEMMA NewOK ==
  ASSUME table \in SUBSET Keys, table # {}, unbuffered \in BOOLEAN
  PROVE  SetOK(NewResultSet, table)
<1>1. Min(table) \in table /\ \A y \in table : Min(table) <= y BY KeySets, MinFact
<1>2. Cardinality(table) \in 0..MaxRows BY KeySets
<1>3. MaxRows \in Nat BY NGSQLiteAssumption
<1>4. Min(table) \in Keys BY <1>1
<1>5. Min(table) \in 0..MaxRows /\ 1 \in 0..MaxRows /\ 0 \in 0..MaxRows
  BY <1>3, <1>4 DEF Keys
<1>6. Cardinality({}) = 0 BY FS_EmptySet
<1>7. CASE unbuffered = TRUE
  <2> DEFINE s == [stmt |-> "row", at |-> Min(table), buffer |-> FALSE, first |-> TRUE,
                   eof |-> FALSE, rowIndex |-> 0, row |-> 0, rows |-> 1,
                   holders |-> {"pool"}, seen |-> {}, kept |-> table, disturbed |-> FALSE]
  <2>1. NewResultSet = s BY <1>7 DEF NewResultSet
  <2>2. s \in Sets BY <1>5 DEF Sets, Holders
  <2>3. ScanOK(s, table) BY <1>4, <1>6 DEF ScanOK, Position
  <2>4. ASSUME NEW k \in table, k <= Min(table) PROVE k = Min(table)
    <3>1. k \in Nat /\ Min(table) \in Nat BY <1>3, <1>4 DEF Keys
    <3>2. Min(table) <= k BY <1>1
    <3> QED BY <2>4, <3>1, <3>2
  <2>5. KeptOK(s, table) BY <1>1, <2>4 DEF KeptOK
  <2> QED BY <2>1, <2>2, <2>3, <2>5 DEF SetOK
<1>8. CASE unbuffered = FALSE
  <2> DEFINE s == [stmt |-> "reset", at |-> 0, buffer |-> TRUE, first |-> FALSE,
                   eof |-> FALSE, rowIndex |-> 0, row |-> 0, rows |-> Cardinality(table),
                   holders |-> {"pool"}, seen |-> {}, kept |-> table, disturbed |-> FALSE]
  <2>1. NewResultSet = s BY <1>8 DEF NewResultSet
  <2>2. s \in Sets BY <1>2, <1>5 DEF Sets, Holders
  <2>3. ScanOK(s, table) BY <1>6 DEF ScanOK, Position
  <2>4. ASSUME NEW k \in table PROVE ~(k <= 0)
    BY <1>3, <2>4 DEF Keys
  <2>5. KeptOK(s, table) BY <2>4 DEF KeptOK
  <2> QED BY <2>1, <2>2, <2>3, <2>5 DEF SetOK
<1> QED BY <1>7, <1>8

(* The row an unbuffered result set stands on when it is created. *)
LEMMA FirstOK ==
  ASSUME NEW s, SetOK(s, table), s.first
  PROVE  SetOK(Delivered(s, s.at, s.rowIndex), table)
<1> DEFINE t == Delivered(s, s.at, s.rowIndex)
<1>1. s \in Sets /\ ScanOK(s, table) /\ KeptOK(s, table) BY DEF SetOK
<1>2. s.stmt = "row" /\ ~s.buffer /\ s.seen = {} /\ s.rowIndex = 0 /\ s.at \in Keys
  BY <1>1 DEF ScanOK
<1>3. /\ t.stmt = "row" /\ t.at = s.at /\ t.first = FALSE /\ t.eof = FALSE
      /\ t.rowIndex = 0 /\ t.row = s.at /\ t.seen = {s.at}
      /\ t.buffer = s.buffer /\ t.kept = s.kept /\ t.disturbed = s.disturbed /\ t.rows = s.rows
  BY <1>1, <1>2 DEF Delivered, Sets
<1>4. t \in Sets BY <1>1, <1>2 DEF Delivered, Sets
<1> HIDE DEF t
<1>5. Cardinality({s.at}) = 1 BY FS_Singleton
<1>6. s.at \in Nat BY <1>2, NGSQLiteAssumption DEF Keys
<1>7. ScanOK(t, table)
  <2>1. Position(t) = 1 BY <1>2, <1>3 DEF Position
  <2>2. \A k \in t.seen : k <= t.at BY <1>3, <1>6
  <2> QED BY <1>3, <1>5, <2>1, <2>2 DEF ScanOK
<1>8. KeptOK(t, table) BY <1>1, <1>2, <1>3 DEF KeptOK
<1> QED BY <1>4, <1>7, <1>8 DEF SetOK, t

(* The next row of the scan: behind all those delivered, and no row of the *)
(* table is left between.                                                  *)
LEMMA NextOK ==
  ASSUME NEW s, SetOK(s, table), ~s.first, s.stmt \in {"row", "reset"},
         table \in SUBSET Keys, After(s.at) # {}
  PROVE  SetOK(Delivered(s, Min(After(s.at)), s.rowIndex + 1), table)
<1> DEFINE k == Min(After(s.at))
           t == Delivered(s, k, s.rowIndex + 1)
<1>1. s \in Sets /\ ScanOK(s, table) /\ KeptOK(s, table) BY DEF SetOK
<1>2. After(s.at) \in SUBSET Keys BY DEF After
<1>3. k \in After(s.at) /\ \A y \in After(s.at) : k <= y BY <1>2, KeySets, MinFact
<1>4. k \in table /\ k \in Keys /\ k > s.at BY <1>2, <1>3 DEF After
<1>5. MaxRows \in Nat /\ s.at \in Nat /\ k \in Nat /\ k # 0 /\ k \in 0..MaxRows
  <2>1. MaxRows \in Nat BY NGSQLiteAssumption
  <2>2. s.at \in 0..MaxRows BY <1>1 DEF Sets
  <2> QED BY <1>4, <2>1, <2>2 DEF Keys
<1>6. s.seen \in SUBSET Keys BY <1>1 DEF Sets
<1>7. ASSUME NEW i \in s.seen PROVE i \in Nat /\ i <= s.at /\ i < k
  <2>1. i \in Nat BY <1>5, <1>6 DEF Keys
  <2>2. i <= s.at BY <1>1 DEF ScanOK
  <2> QED BY <1>4, <1>5, <2>1, <2>2
<1>8. k \notin s.seen BY <1>5, <1>7
<1>9. s.seen \cup {k} \in SUBSET Keys BY <1>4, <1>6
<1>10. /\ Cardinality(s.seen) \in Nat /\ Cardinality(s.seen \cup {k}) \in 0..MaxRows
       /\ Cardinality(s.seen \cup {k}) = Cardinality(s.seen) + 1
  <2>1. IsFiniteSet(s.seen) /\ Cardinality(s.seen) \in 0..MaxRows BY <1>6, KeySets
  <2>2. Cardinality(s.seen \cup {k}) \in 0..MaxRows BY <1>9, KeySets
  <2> HIDE DEF k
  <2>3. Cardinality(s.seen \cup {k}) = IF k \in s.seen THEN Cardinality(s.seen)
                                       ELSE Cardinality(s.seen) + 1
    BY <2>1, FS_AddElement
  <2>4. Cardinality(s.seen \cup {k}) = Cardinality(s.seen) + 1 BY <1>8, <2>3
  <2>5. Cardinality(s.seen) \in Nat BY <2>1, FS_CardinalityType
  <2> QED BY <2>2, <2>4, <2>5
<1>11. s.rowIndex \in 0..MaxRows BY <1>1 DEF Sets
<1>12. Position(s) = Cardinality(s.seen) BY <1>1 DEF ScanOK
<1>13. s.buffer \/ s.seen # {} BY <1>1 DEF ScanOK
<1>14. s.rowIndex + 1 \in 0..MaxRows
  <2>1. s.rowIndex <= Position(s) BY <1>11, <1>5 DEF Position
  <2>2. Position(s) + 1 <= MaxRows BY <1>10, <1>12, <1>5
  <2>3. Position(s) \in Nat BY <1>10, <1>12
  <2> QED BY <1>5, <1>11, <2>1, <2>2, <2>3
<1>15. /\ t.stmt = "row" /\ t.at = k /\ t.first = FALSE /\ t.eof = FALSE
       /\ t.rowIndex = s.rowIndex + 1 /\ t.row = k /\ t.seen = s.seen \cup {k}
       /\ t.buffer = s.buffer /\ t.kept = s.kept /\ t.disturbed = s.disturbed /\ t.rows = s.rows
  BY <1>1 DEF Delivered, Sets
<1>16. t \in Sets
  <2> HIDE DEF k
  <2> QED BY <1>1, <1>5, <1>9, <1>14 DEF Delivered, Sets
<1> HIDE DEF k, t
<1>17. ScanOK(t, table)
  <2>1. Position(t) = Cardinality(t.seen)
    <3>1. t.seen # {} BY <1>15
    <3>2. CASE s.buffer
      <4>1. Position(s) = s.rowIndex BY <1>11, <1>5, <3>2 DEF Position
      <4>2. Position(t) = s.rowIndex + 1 BY <1>11, <1>5, <1>15, <3>2 DEF Position
      <4> QED BY <1>10, <1>12, <1>15, <4>1, <4>2
    <3>3. CASE ~s.buffer
      <4>1. Position(s) = s.rowIndex + 1 BY <1>13, <3>3 DEF Position
      <4>2. Position(t) = s.rowIndex + 1 + 1 BY <1>15, <3>1, <3>3 DEF Position
      <4> QED BY <1>10, <1>12, <1>15, <4>1, <4>2
    <3> QED BY <3>2, <3>3
  <2>2. \A i \in t.seen : i <= t.at BY <1>5, <1>7, <1>15
  <2>3. t.seen # {} /\ t.at \in t.seen BY <1>15
  <2> QED BY <1>15, <2>1, <2>2, <2>3 DEF ScanOK
<1>18. KeptOK(t, table)
  <2>1. s.kept \subseteq table BY <1>1 DEF KeptOK
  <2>2. ASSUME NEW i \in s.kept, i <= k PROVE i \in s.seen \cup {k}
    <3>1. i \in Nat /\ i \in table BY <1>5, <2>1 DEF Keys
    <3>2. CASE i <= s.at BY <1>1, <3>2 DEF KeptOK
    <3>3. CASE ~(i <= s.at)
      <4>1. i > s.at BY <1>5, <3>1, <3>3
      <4>2. i \in After(s.at) BY <3>1, <4>1 DEF After
      <4>3. k <= i BY <1>3, <4>2
      <4>4. i = k BY <1>5, <2>2, <3>1, <4>3
      <4> QED BY <4>4
    <3> QED BY <3>2, <3>3
  <2>3. ~s.disturbed => s.kept = table /\ s.seen \subseteq s.kept BY <1>1 DEF KeptOK
  <2>4. s.buffer /\ ~s.disturbed => s.rows = Cardinality(s.kept) BY <1>1 DEF KeptOK
  <2> QED BY <1>4, <1>15, <2>1, <2>2, <2>3, <2>4 DEF KeptOK
<1> QED BY <1>16, <1>17, <1>18 DEF SetOK, t, k

(* The end of the scan, or a failure. *)
LEMMA StoppedOK ==
  ASSUME NEW s, SetOK(s, table), ~s.first, NEW end \in BOOLEAN, s.stmt # "absent",
         table \in SUBSET Keys, end => After(s.at) = {}
  PROVE  SetOK(Stopped(s, end), table)
<1> DEFINE t == Stopped(s, end)
<1>1. s \in Sets /\ ScanOK(s, table) /\ KeptOK(s, table) BY DEF SetOK
<1>2. /\ t.stmt = "done" /\ t.at = s.at /\ t.first = FALSE /\ t.eof = end
      /\ t.rowIndex = s.rowIndex /\ t.row = 0 /\ t.seen = s.seen
      /\ t.buffer = s.buffer /\ t.kept = s.kept /\ t.disturbed = s.disturbed /\ t.rows = s.rows
  BY <1>1 DEF Stopped, Sets
<1>3. t \in Sets
  <2>1. 0 \in 0..MaxRows BY NGSQLiteAssumption
  <2> QED BY <1>1, <2>1 DEF Stopped, Sets
<1> HIDE DEF t
<1>4. Position(t) = Position(s) BY <1>2 DEF Position
<1>5. ScanOK(t, table) BY <1>1, <1>2, <1>4 DEF ScanOK
<1>6. ASSUME end, NEW k \in s.kept PROVE k \in s.seen
  <2>1. k \in table BY <1>1 DEF KeptOK
  <2>2. k \in Nat /\ s.at \in Nat BY <1>1, <2>1, NGSQLiteAssumption DEF Keys, Sets
  <2>3. ~(k > s.at) BY <1>6, <2>1 DEF After
  <2>4. k <= s.at BY <2>2, <2>3
  <2> QED BY <1>1, <2>4 DEF KeptOK
<1>7. KeptOK(t, table) BY <1>1, <1>2, <1>6 DEF KeptOK
<1> QED BY <1>3, <1>5, <1>7 DEF SetOK, t

LEMMA MovedOK ==
  ASSUME NEW s, SetOK(s, table), s.stmt \in {"row", "reset"}, table \in SUBSET Keys,
         NEW t \in Moved(s)
  PROVE  SetOK(t, table)
<1>1. s.first \in BOOLEAN BY DEF SetOK, Sets
<1>2. CASE s.first BY <1>2, FirstOK DEF Moved
<1>3. CASE ~s.first
  <2>1. \/ t = Stopped(s, FALSE)
        \/ (After(s.at) = {} /\ t = Stopped(s, TRUE))
        \/ (After(s.at) # {} /\ t = Delivered(s, Min(After(s.at)), s.rowIndex + 1))
    BY <1>3 DEF Moved, From
  <2> QED BY <1>3, <2>1, NextOK, StoppedOK
<1> QED BY <1>1, <1>2, <1>3

(* A change of the table under a result set. *)
LEMMA ChangedOK ==
  ASSUME NEW s, SetOK(s, table), NEW new \in SUBSET Keys
  PROVE  SetOK([s EXCEPT !.kept = @ \cap new, !.disturbed = TRUE], new)
<1> DEFINE t == [s EXCEPT !.kept = @ \cap new, !.disturbed = TRUE]
<1>1. s \in Sets /\ ScanOK(s, table) /\ KeptOK(s, table) BY DEF SetOK
<1>2. /\ t.stmt = s.stmt /\ t.at = s.at /\ t.first = s.first /\ t.eof = s.eof
      /\ t.rowIndex = s.rowIndex /\ t.row = s.row /\ t.seen = s.seen
      /\ t.buffer = s.buffer /\ t.kept = s.kept \cap new /\ t.disturbed = TRUE
  BY <1>1 DEF Sets
<1>3. t \in Sets BY <1>1 DEF Sets
<1> HIDE DEF t
<1>4. Position(t) = Position(s) BY <1>2 DEF Position
<1>5. ScanOK(t, new) BY <1>1, <1>2, <1>4 DEF ScanOK
<1>6. KeptOK(t, new) BY <1>1, <1>2 DEF KeptOK
<1> QED BY <1>3, <1>5, <1>6 DEF SetOK, t

(* Only the holders of a result set change. *)
LEMMA HoldersOK ==
  ASSUME NEW s, SetOK(s, table), NEW h \in SUBSET Holders
  PROVE  SetOK([s EXCEPT !.holders = h], table)
<1> DEFINE t == [s EXCEPT !.holders = h]
<1>1. s \in Sets /\ ScanOK(s, table) /\ KeptOK(s, table) BY DEF SetOK
<1>2. /\ t.stmt = s.stmt /\ t.at = s.at /\ t.first = s.first /\ t.eof = s.eof
      /\ t.rowIndex = s.rowIndex /\ t.row = s.row /\ t.seen = s.seen /\ t.rows = s.rows
      /\ t.buffer = s.buffer /\ t.kept = s.kept /\ t.disturbed = s.disturbed
  BY <1>1 DEF Sets
<1>3. t \in Sets BY <1>1 DEF Sets
<1> HIDE DEF t
<1>4. Position(t) = Position(s) BY <1>2 DEF Position
<1>5. ScanOK(t, table) BY <1>1, <1>2, <1>4 DEF ScanOK
<1>6. KeptOK(t, table) BY <1>1, <1>2 DEF KeptOK
<1> QED BY <1>3, <1>5, <1>6 DEF SetOK, t

-----------------------------------------------------------------------------
LEMMA LiveFinite ==
  ASSUME Inv
  PROVE  /\ IsFiniteSet(Live) /\ Cardinality(Live) \in Nat
         /\ (Cardinality(Live) = 0 <=> Live = {})
<1>1. IsFiniteSet(Live) BY FS_Subset, NGSQLiteAssumption DEF Live
<1> QED BY <1>1, FS_CardinalityType, FS_EmptySet

LEMMA InvInit == Init => Inv
<1> SUFFICES ASSUME Init PROVE Inv OBVIOUS
<1>1. TypeOK
  <2>1. Absent \in Sets BY AbsentOK DEF SetOK
  <2>2. 0 \in 0..MaxWrites BY NGSQLiteAssumption
  <2> QED BY <2>1, <2>2 DEF Init, TypeOK, Places
<1>2. SetsOK BY AbsentOK DEF Init, SetsOK
<1>3. CountOK
  <2>1. Live = {} BY DEF Init, Live, Absent
  <2>2. Cardinality(Live) = 0 BY <2>1, FS_EmptySet
  <2>3. Holding = 0 /\ Releasing = 0 BY DEF Init, Holding, Releasing
  <2> QED BY <2>2, <2>3 DEF Init, CountOK
<1> QED BY <1>1, <1>2, <1>3 DEF Inv

(* Replacing a result set by one whose account is in order. *)
LEMMA Replaced ==
  ASSUME Inv, NEW r \in ResultSets, NEW s, SetOK(s, table), rs' = [rs EXCEPT ![r] = s],
         UNCHANGED <<conn, held, draining, leaked, file, unbuffered>>,
         refs' \in Nat, pc' \in Places
  PROVE  TypeOK' /\ SetsOK'
<1>1. TypeOK /\ SetsOK BY DEF Inv
<1>2. rs \in [ResultSets -> Sets] /\ s \in Sets BY <1>1 DEF TypeOK, SetOK
<1>3. \A q \in ResultSets : rs'[q] = IF q = r THEN s ELSE rs[q] BY <1>2
<1>4. rs' \in [ResultSets -> Sets] BY <1>2
<1>5. SetsOK' BY <1>1, <1>3 DEF SetsOK, file
<1>6. TypeOK' BY <1>1, <1>4 DEF TypeOK, file
<1> QED BY <1>5, <1>6

(* Steps that make no difference to the owners of the connection. *)
LEMMA SameOwners ==
  ASSUME Inv, UNCHANGED <<conn, refs, held>>, pc' = "release" <=> pc = "release",
         leaked => leaked',
         \A r \in ResultSets : rs'[r].stmt = "absent" <=> rs[r].stmt = "absent"
  PROVE  CountOK'
<1>1. Live' = Live BY DEF Live
<1>2. Holding' = Holding /\ Releasing' = Releasing BY DEF Holding, Releasing
<1>3. CountOK BY DEF Inv
<1> QED BY <1>1, <1>2, <1>3 DEF CountOK

(* One of the owners releases the connection, as the program or from the   *)
(* dealloc of a result set; when it is the last one, no statement is left  *)
(* but a forgotten one.                                                    *)
LEMMA LetGoOK ==
  ASSUME Inv, LetConnectionGo, UNCHANGED <<rs, leaked>>,
         \/ held /\ held' = FALSE /\ pc' = pc
         \/ held' = held /\ pc = "release" /\ pc' = "program"
  PROVE  refs' \in Nat /\ conn' \in {"closed", "open", "lost"} /\ CountOK'
<1>1. /\ refs = Holding + Releasing + Cardinality(Live) /\ refs \in Nat
      /\ Cardinality(Live) \in Nat /\ (Cardinality(Live) = 0 <=> Live = {})
      /\ conn = "open" <=> refs > 0
      /\ conn = "lost" => leaked
  BY LiveFinite DEF Inv, TypeOK, CountOK
<1>2. /\ Holding \in {0, 1} /\ Releasing \in {0, 1}
      /\ Holding' \in {0, 1} /\ Releasing' \in {0, 1}
  BY DEF Holding, Releasing
<1>3. Live' = Live /\ refs' = refs - 1 BY DEF Live, LetConnectionGo
<1>4. /\ refs >= 1 /\ refs' = Holding' + Releasing' + Cardinality(Live)
      /\ refs = 1 => Cardinality(Live) = 0
  <2>1. CASE held /\ held' = FALSE /\ pc' = pc
    <3>1. Holding = 1 /\ Holding' = 0 /\ Releasing' = Releasing
      BY <2>1 DEF Holding, Releasing
    <3>2. refs = 1 + Releasing + Cardinality(Live) BY <1>1, <3>1
    <3> QED BY <1>1, <1>2, <1>3, <3>1, <3>2
  <2>2. CASE held' = held /\ pc = "release" /\ pc' = "program"
    <3>1. Releasing = 1 /\ Releasing' = 0 /\ Holding' = Holding
      BY <2>2 DEF Holding, Releasing
    <3>2. refs = Holding + 1 + Cardinality(Live) BY <1>1, <3>1
    <3> QED BY <1>1, <1>2, <1>3, <3>1, <3>2
  <2> QED BY <2>1, <2>2
<1>5. refs' = Holding' + Releasing' + Cardinality(Live') BY <1>3, <1>4
<1>6. conn = "open" BY <1>1, <1>4
<1>7. CASE refs > 1
  <2>1. conn' = "open" /\ refs' > 0 BY <1>1, <1>3, <1>6, <1>7 DEF LetConnectionGo
  <2>2. refs' \in Nat BY <1>1, <1>3, <1>4
  <2> QED BY <1>5, <2>1, <2>2 DEF CountOK
<1>8. CASE refs = 1
  <2>1. Cardinality(Live) = 0 BY <1>4, <1>8
  <2>2. \A r \in ResultSets : rs[r].stmt = "absent" BY <1>1, <2>1 DEF Live
  <2>3. conn' = IF leaked THEN "lost" ELSE "closed"
    BY <1>8, <2>2 DEF LetConnectionGo, Unfinalized
  <2>4. conn' # "open" /\ conn' \in {"closed", "lost"} /\ (conn' = "lost" => leaked') BY <2>3
  <2>5. refs' = 0 BY <1>3, <1>8
  <2>6. refs' \in Nat BY <2>5
  <2>7. CountOK' BY <1>5, <2>4, <2>5 DEF CountOK
  <2> QED BY <2>4, <2>6, <2>7
<1>9. refs > 1 \/ refs = 1 BY <1>1, <1>4
<1> QED BY <1>7, <1>8, <1>9

LEMMA ChangeOK ==
  ASSUME Inv, NEW new \in SUBSET Keys, Change(new),
         UNCHANGED <<connection, leaked, thread>>, foreign' \in BOOLEAN
  PROVE  Inv'
<1>1. TypeOK /\ SetsOK /\ CountOK BY DEF Inv
<1>2. \A r \in ResultSets :
        rs'[r] = IF rs[r] = Absent THEN Absent
                 ELSE [rs[r] EXCEPT !.kept = @ \cap new, !.disturbed = TRUE]
  BY DEF Change
<1>3. \A r \in ResultSets : SetOK(rs'[r], new)
  BY <1>1, <1>2, AbsentOK, ChangedOK DEF SetsOK
<1>4. SetsOK' BY <1>3 DEF SetsOK, Change
<1>5. rs' \in [ResultSets -> Sets]
  <2>1. \A r \in ResultSets : rs'[r] \in Sets BY <1>3 DEF SetOK
  <2>2. rs' = [r \in ResultSets |-> rs'[r]] BY DEF Change
  <2> QED BY <2>1, <2>2
<1>6. writes' \in 0..MaxWrites
  <2>1. writes \in 0..MaxWrites BY <1>1 DEF TypeOK
  <2>2. writes < MaxWrites /\ writes' = writes + 1 BY DEF Change
  <2>3. MaxWrites \in Nat BY NGSQLiteAssumption
  <2> QED BY <2>1, <2>2, <2>3
<1>7. TypeOK' BY <1>1, <1>5, <1>6 DEF TypeOK, Change, connection, thread
<1>8. \A r \in ResultSets : rs'[r].stmt = rs[r].stmt
  <2> SUFFICES ASSUME NEW r \in ResultSets PROVE rs'[r].stmt = rs[r].stmt
    OBVIOUS
  <2>1. rs[r] \in Sets BY <1>1 DEF TypeOK
  <2> QED BY <1>2, <2>1 DEF Sets
<1>9. CountOK' BY <1>8, SameOwners DEF connection, thread
<1> QED BY <1>4, <1>7, <1>9 DEF Inv

LEMMA ChangesOK == ASSUME table \in SUBSET Keys, NEW new \in Changes PROVE new \in SUBSET Keys
BY DEF Changes

(* Steps that change neither the table nor the result sets. *)
LEMMA SetsKept == ASSUME SetsOK, UNCHANGED <<rs, table>> PROVE SetsOK'
BY DEF SetsOK

(* A holder lets a result set go. *)
LEMMA LetGoInv ==
  ASSUME Inv, NEW r \in ResultSets, NEW holder, LetGo(r, holder), pc = "program"
  PROVE  Inv'
<1>0. TypeOK /\ SetsOK /\ rs \in [ResultSets -> Sets] BY DEF Inv, TypeOK
<1>1. SetOK(rs[r], table) /\ rs[r] \in Sets BY <1>0 DEF SetsOK
<1> DEFINE s == [rs[r] EXCEPT !.holders = @ \ {holder}]
<1>2. rs[r].holders \ {holder} \in SUBSET Holders BY <1>1 DEF Sets
<1>3. SetOK(s, table) BY <1>1, <1>2, HoldersOK
<1>4. rs' = [rs EXCEPT ![r] = s] BY <1>0 DEF LetGo
<1>5. pc' \in {"program", "free"} BY DEF LetGo, DeallocSteps
<1>6. UNCHANGED <<conn, held, draining, leaked, file, unbuffered, refs>>
  BY DEF LetGo, connection
<1> HIDE DEF s
<1>7. TypeOK' /\ SetsOK'
  <2>1. refs' \in Nat /\ pc' \in Places BY <1>0, <1>5, <1>6 DEF TypeOK, Places
  <2> QED BY <1>3, <1>4, <1>6, <2>1, Replaced
<1>8. s.stmt = rs[r].stmt BY <1>1 DEF s, Sets
<1>9. \A q \in ResultSets : rs'[q].stmt = rs[q].stmt
  BY <1>0, <1>4, <1>8
<1>10. CountOK' BY <1>5, <1>6, <1>9, SameOwners
<1> QED BY <1>7, <1>10 DEF Inv

LEMMA FreeResultInv ==
  ASSUME Inv, NEW r \in ResultSets, FreeResult(r)
  PROVE  Inv'
<1>0. rs \in [ResultSets -> Sets] /\ refs \in Nat BY DEF Inv, TypeOK
<1>1. rs' = [rs EXCEPT ![r] = Absent] /\ pc = "free" /\ pc' = "release"
      /\ UNCHANGED <<conn, held, draining, leaked, file, unbuffered, refs>>
  BY DEF FreeResult, DeallocSteps, connection
<1>2. TypeOK' /\ SetsOK' BY <1>0, <1>1, AbsentOK, Replaced DEF Places
<1>3. r \in Live /\ Live' = Live \ {r}
  <2>1. r \in Live BY DEF FreeResult, Live
  <2>2. Absent.stmt = "absent" BY DEF Absent
  <2>3. \A q \in ResultSets : rs'[q] = IF q = r THEN Absent ELSE rs[q] BY <1>0, <1>1
  <2> QED BY <2>1, <2>2, <2>3 DEF Live
<1>4. CountOK'
  <2>1. /\ IsFiniteSet(Live) /\ Cardinality(Live) \in Nat
        /\ Cardinality(Live') = Cardinality(Live) - 1
    BY <1>3, LiveFinite, FS_RemoveElement
  <2>2. Holding' = Holding /\ Releasing' = 1 /\ Releasing = 0
    BY <1>1 DEF Holding, Releasing
  <2>3. Holding \in {0, 1} BY DEF Holding
  <2>4. refs' = Holding' + Releasing' + Cardinality(Live')
    BY <1>1, <2>1, <2>2, <2>3 DEF Inv, CountOK
  <2> QED BY <1>1, <2>4 DEF Inv, CountOK
<1> QED BY <1>2, <1>4 DEF Inv

LEMMA QueryInv ==
  ASSUME Inv, NEW r \in ResultSets, Query(r)
  PROVE  Inv'
<1>0. /\ rs \in [ResultSets -> Sets] /\ refs \in Nat /\ table \in SUBSET Keys
      /\ unbuffered \in BOOLEAN /\ pc \in Places
  BY DEF Inv, TypeOK
<1>1. SetOK(NewResultSet, table) BY <1>0, NewOK DEF Query
<1>2. /\ rs' = [rs EXCEPT ![r] = NewResultSet] /\ refs' = refs + 1
      /\ UNCHANGED <<conn, held, draining, leaked, file, unbuffered, pc>>
  BY DEF Query, thread
<1>3. TypeOK' /\ SetsOK'
  <2>1. refs' \in Nat /\ pc' \in Places BY <1>0, <1>2
  <2> HIDE DEF Places
  <2> QED BY <1>1, <1>2, <2>1, Replaced
<1>4. r \notin Live /\ Live' = Live \cup {r}
  <2>1. r \notin Live BY DEF Query, Live, Absent
  <2>2. NewResultSet.stmt # "absent"
    <3>1. NewResultSet.stmt = IF unbuffered THEN "row" ELSE "reset" BY DEF NewResultSet
    <3> QED BY <3>1
  <2>3. \A q \in ResultSets : rs'[q] = IF q = r THEN NewResultSet ELSE rs[q] BY <1>0, <1>2
  <2> HIDE DEF Query
  <2> QED BY <2>1, <2>2, <2>3 DEF Live
<1>5. CountOK'
  <2>1. Cardinality(Live) \in Nat /\ Cardinality(Live') = Cardinality(Live) + 1
    BY <1>4, LiveFinite, FS_AddElement
  <2>2. Holding' = Holding /\ Releasing' = Releasing BY <1>2 DEF Holding, Releasing
  <2>3. Holding = 1 /\ Releasing \in {0, 1} BY DEF Query, Holding, Releasing
  <2>4. refs' = Holding' + Releasing' + Cardinality(Live') /\ refs > 0 /\ refs' > 0
    BY <1>2, <2>1, <2>2, <2>3 DEF Inv, CountOK
  <2> QED BY <1>2, <2>4 DEF Inv, CountOK
<1> QED BY <1>3, <1>5 DEF Inv

LEMMA MoveNextInv ==
  ASSUME Inv, NEW r \in ResultSets, ReadNext(r)
  PROVE  Inv'
<1>0. /\ rs \in [ResultSets -> Sets] /\ refs \in Nat /\ table \in SUBSET Keys /\ pc \in Places
      /\ SetsOK
  BY DEF Inv, TypeOK
<1>1. PICK s \in Moved(rs[r]) : rs' = [rs EXCEPT ![r] = s]
  BY DEF ReadNext, MoveNext
<1>2. SetOK(rs[r], table) /\ rs[r].stmt \in {"row", "reset"}
  BY <1>0 DEF ReadNext, MoveNext, SetsOK, Sets
<1>3. SetOK(s, table) BY <1>0, <1>1, <1>2, MovedOK
<1>4. UNCHANGED <<conn, held, draining, leaked, file, unbuffered, refs, pc>>
  BY DEF ReadNext, MoveNext, connection, thread
<1>5. TypeOK' /\ SetsOK' BY <1>0, <1>1, <1>3, <1>4, Replaced
<1>6. s.stmt \in {"row", "done"}
  <2>1. \/ s = Stopped(rs[r], FALSE) \/ s = Stopped(rs[r], TRUE)
        \/ \E at, index : s = Delivered(rs[r], at, index)
    BY <1>1 DEF Moved
  <2>2. rs[r] \in Sets BY <1>0
  <2> QED BY <2>1, <2>2 DEF Delivered, Stopped, Sets
<1>7. \A q \in ResultSets : rs'[q].stmt = "absent" <=> rs[q].stmt = "absent"
  BY <1>0, <1>1, <1>2, <1>6
<1>8. CountOK' BY <1>4, <1>7, SameOwners
<1> QED BY <1>5, <1>8 DEF Inv

LEMMA RetainInv ==
  ASSUME Inv, NEW r \in ResultSets, Retain(r)
  PROVE  Inv'
<1>0. rs \in [ResultSets -> Sets] /\ refs \in Nat /\ pc \in Places /\ SetsOK BY DEF Inv, TypeOK
<1> DEFINE s == [rs[r] EXCEPT !.holders = Holders]
<1>1. SetOK(rs[r], table) /\ Holders \in SUBSET Holders BY <1>0 DEF SetsOK
<1>2. SetOK(s, table) BY <1>1, HoldersOK
<1>3. rs' = [rs EXCEPT ![r] = s] BY <1>0 DEF Retain
<1>4. s.stmt = rs[r].stmt BY <1>1 DEF SetOK, Sets
<1> HIDE DEF s
<1>5. UNCHANGED <<conn, held, draining, leaked, file, unbuffered, refs, pc>>
  BY DEF Retain, connection, thread
<1>6. TypeOK' /\ SetsOK' BY <1>0, <1>2, <1>3, <1>5, Replaced
<1>7. CountOK'
  <2>1. \A q \in ResultSets : rs'[q].stmt = rs[q].stmt BY <1>0, <1>3, <1>4
  <2> QED BY <1>5, <2>1, SameOwners
<1> QED BY <1>6, <1>7 DEF Inv

LEMMA ConnectInv == ASSUME Inv, Connect PROVE Inv'
<1>1. conn = "closed" /\ conn' = "open" /\ refs' = 1 /\ held' = TRUE /\ unbuffered' = FALSE
      /\ UNCHANGED <<rs, leaked, file, thread>>
  BY DEF Connect
<1>2. TypeOK' BY <1>1 DEF Inv, TypeOK, file, thread
<1>3. SetsOK' BY <1>1, SetsKept DEF Inv, file
<1>4. CountOK'
  <2>1. /\ refs = Holding + Releasing + Cardinality(Live) /\ refs \in Nat /\ ~(refs > 0)
        /\ Cardinality(Live) \in Nat /\ Holding \in {0, 1} /\ Releasing \in {0, 1}
    BY <1>1, LiveFinite DEF Inv, TypeOK, CountOK, Holding, Releasing
  <2>2. Releasing = 0 /\ Cardinality(Live) = 0 BY <2>1
  <2>3. Live' = Live /\ Releasing' = Releasing /\ Holding' = 1
    BY <1>1 DEF Live, Releasing, Holding, thread
  <2>4. refs' = Holding' + Releasing' + Cardinality(Live') BY <1>1, <2>2, <2>3
  <2> QED BY <1>1, <2>4 DEF CountOK
<1> QED BY <1>2, <1>3, <1>4 DEF Inv

LEMMA InvNext == ASSUME Inv, [Next]_vars PROVE Inv'
<1>0. TypeOK /\ SetsOK /\ CountOK /\ table \in SUBSET Keys BY DEF Inv, TypeOK
<1>1. ASSUME NEW flag \in Modes, SetUnbuffered(flag) PROVE Inv'
  <2>1. flag \in BOOLEAN BY NGSQLiteAssumption
  <2>2. unbuffered' = flag /\ UNCHANGED <<conn, refs, held, rs, leaked, file, thread>>
    BY <1>1 DEF SetUnbuffered
  <2>3. TypeOK' BY <1>0, <2>1, <2>2 DEF TypeOK, file, thread
  <2>4. SetsOK' BY <1>0, <2>2, SetsKept DEF file
  <2>5. CountOK' BY <2>2, SameOwners DEF thread
  <2> QED BY <2>3, <2>4, <2>5 DEF Inv
<1>2. CASE Execute \/ ForeignCommit
  <2>1. PICK new \in Changes : Change(new) BY <1>2 DEF Execute, ForeignCommit
  <2>2. foreign' \in BOOLEAN BY <1>0, <1>2 DEF Execute, ForeignCommit, TypeOK
  <2> QED BY <1>0, <1>2, <2>1, <2>2, ChangeOK, ChangesOK DEF Execute, ForeignCommit
<1>3. CASE ExecuteSelect \/ ForeignBegin
  <2>1. UNCHANGED <<connection, rs, table, writes, thread>> /\ (leaked => leaked')
    BY <1>3 DEF ExecuteSelect, ForeignBegin, file
  <2>2. leaked' \in BOOLEAN /\ foreign' \in BOOLEAN
    <3>1. leaked \in BOOLEAN /\ foreign \in BOOLEAN BY <1>0 DEF TypeOK
    <3>2. CASE ExecuteSelect BY <3>1, <3>2 DEF ExecuteSelect, file
    <3>3. CASE ForeignBegin BY <3>1, <3>3 DEF ForeignBegin
    <3> QED BY <1>3, <3>2, <3>3
  <2>3. TypeOK' BY <1>0, <2>1, <2>2 DEF TypeOK, connection, thread
  <2>4. SetsOK' BY <1>0, <2>1, SetsKept
  <2>5. CountOK' BY <2>1, SameOwners DEF connection, thread
  <2> QED BY <2>3, <2>4, <2>5 DEF Inv
<1>4. CASE ReleaseConnection \/ ReleaseFromResult
  <2>1. /\ LetConnectionGo /\ UNCHANGED <<unbuffered, rs, leaked, file, draining>>
        /\ \/ held /\ held' = FALSE /\ pc' = pc
           \/ held' = held /\ pc = "release" /\ pc' = "program"
    <3>1. CASE ReleaseConnection BY <3>1 DEF ReleaseConnection, thread
    <3>2. CASE ReleaseFromResult BY <3>2 DEF ReleaseFromResult, DeallocSteps
    <3> QED BY <1>4, <3>1, <3>2
  <2>2. refs' \in Nat /\ conn' \in {"closed", "open", "lost"} /\ CountOK'
    BY <2>1, LetGoOK
  <2>3. held' \in BOOLEAN /\ pc' \in Places BY <1>0, <2>1 DEF TypeOK, Places
  <2>4. TypeOK' BY <1>0, <2>1, <2>2, <2>3 DEF TypeOK, file
  <2>5. SetsOK' BY <1>0, <2>1, SetsKept DEF file
  <2> QED BY <2>2, <2>4, <2>5 DEF Inv
<1>5. CASE DrainPool \/ PoolDrained \/ UNCHANGED vars
  <2>1. UNCHANGED <<connection, rs, leaked, file, pc>> /\ draining' \in BOOLEAN
    BY <1>0, <1>5 DEF DrainPool, PoolDrained, vars, thread, TypeOK
  <2>2. TypeOK' BY <1>0, <2>1 DEF TypeOK, connection, file
  <2>3. SetsOK' BY <1>0, <2>1, SetsKept DEF file
  <2>4. CountOK' BY <2>1, SameOwners DEF connection
  <2> QED BY <2>2, <2>3, <2>4 DEF Inv
<1>6. ASSUME NEW r \in ResultSets, Release(r) \/ PoolReleases(r) PROVE Inv'
  BY <1>6, LetGoInv DEF Release, PoolReleases, Running
<1> QED
  BY <1>1, <1>2, <1>3, <1>4, <1>5, <1>6, ConnectInv, QueryInv, MoveNextInv, RetainInv,
     FreeResultInv DEF Next

-----------------------------------------------------------------------------
(* The account of every result set is in order at every step. *)
THEOREM Invariance == Spec => []Inv
<1>1. Init => Inv BY InvInit
<1>2. Inv /\ [Next]_vars => Inv' BY InvNext
<1> QED BY <1>1, <1>2, PTL DEF Spec

(* Type correctness, for any number of result sets, rows and changes.      *)
THEOREM TypeCorrect == Spec => []TypeOK
<1>1. Inv => TypeOK BY DEF Inv
<1> QED BY <1>1, Invariance, PTL

(* moveNext never goes back to a row, never delivers one twice, and        *)
(* rowIndex counts them, though the query runs twice when it is buffered.  *)
THEOREM InOrder == Spec => []DeliveredInOrder
<1>1. ASSUME Inv, NEW r \in ResultSets
      PROVE  /\ rs[r].row # 0 => rs[r].row = Max(rs[r].seen)
             /\ Position(rs[r]) = Cardinality(rs[r].seen)
  <2>1. SetOK(rs[r], table) BY <1>1 DEF Inv, SetsOK
  <2>2. ScanOK(rs[r], table) /\ rs[r].seen \in SUBSET Keys BY <2>1 DEF SetOK, Sets
  <2>3. rs[r].seen \in SUBSET Nat BY <2>2, KeySets
  <2>4. ASSUME rs[r].row # 0 PROVE rs[r].row = Max(rs[r].seen)
    <3>1. rs[r].row \in rs[r].seen /\ \A k \in rs[r].seen : k <= rs[r].row
      BY <2>2, <2>4 DEF ScanOK
    <3> QED BY <2>3, <3>1, MaxFact
  <2> QED BY <2>2, <2>4 DEF ScanOK
<1>2. Inv => DeliveredInOrder BY <1>1 DEF DeliveredInOrder
<1> QED BY <1>2, Invariance, PTL

(* A result set that has come to its end has delivered every row that was  *)
(* in the table all along, whatever was changed around it.                 *)
THEOREM NoStableRowLost == Spec => []StableRowsDelivered
<1>1. Inv => StableRowsDelivered BY DEF Inv, SetsOK, SetOK, KeptOK, StableRowsDelivered
<1> QED BY <1>1, Invariance, PTL

(* Without a change in between, the second run of a buffered query gives   *)
(* as many rows as the first one counted.                                  *)
THEOREM CountIsRight == Spec => []CountHolds
<1>1. ASSUME Inv, NEW r \in ResultSets, rs[r].eof, rs[r].buffer, ~rs[r].disturbed
      PROVE  Cardinality(rs[r].seen) = rs[r].rows
  <2>1. KeptOK(rs[r], table) /\ rs[r].stmt # "absent"
    BY <1>1 DEF Inv, SetsOK, SetOK, ScanOK
  <2>2. rs[r].seen = rs[r].kept BY <1>1, <2>1 DEF KeptOK
  <2> QED BY <1>1, <2>1, <2>2 DEF KeptOK
<1>2. Inv => CountHolds BY <1>1 DEF CountHolds
<1> QED BY <1>2, Invariance, PTL

(* The handle is open exactly while the program or a result set has the    *)
(* connection, one in the midst of its dealloc included, and sqlite3_close *)
(* is never refused for the statement of a result set.                     *)
THEOREM NoUseAfterClose == Spec => []ClosedWithLastUser
<1>1. ASSUME Inv PROVE ClosedWithLastUser
  <2>1. /\ refs = Holding + Releasing + Cardinality(Live)
        /\ Cardinality(Live) \in Nat /\ (Cardinality(Live) = 0 <=> Live = {})
        /\ Holding \in {0, 1} /\ Releasing \in {0, 1}
    BY <1>1, LiveFinite DEF Inv, CountOK, Holding, Releasing
  <2>2. refs > 0 <=> Holding = 1 \/ Releasing = 1 \/ Live # {}
    BY <2>1
  <2>3. Holding = 1 <=> held BY DEF Holding
  <2>4. Releasing = 1 <=> pc = "release" BY DEF Releasing
  <2>5. Live # {} <=> \E r \in ResultSets : rs[r].stmt # "absent" BY DEF Live
  <2>6. (conn = "open" <=> refs > 0) /\ (conn = "lost" => leaked) BY <1>1 DEF Inv, CountOK
  <2> QED BY <2>2, <2>3, <2>4, <2>5, <2>6 DEF ClosedWithLastUser
<1>2. Inv => ClosedWithLastUser BY <1>1
<1> QED BY <1>2, Invariance, PTL

-----------------------------------------------------------------------------
(* The result sets as cursors, for as long as the table stays as it is.    *)
CursorsOf(sets) == [r \in ResultSets |-> CursorOf(sets[r])]

(* What CursorOf reads of a result set. *)
SameScan(s, t) ==
  /\ t.stmt = s.stmt /\ t.disturbed = s.disturbed /\ t.eof = s.eof /\ t.buffer = s.buffer
  /\ t.kept = s.kept /\ t.rowIndex = s.rowIndex /\ t.seen = s.seen

LEMMA SameCursor == ASSUME NEW s, NEW t, SameScan(s, t) PROVE CursorOf(t) = CursorOf(s)
<1>1. Undisturbed(t) <=> Undisturbed(s) BY DEF SameScan, Undisturbed
<1>2. Position(t) = Position(s) BY DEF SameScan, Position
<1> QED BY <1>1, <1>2 DEF SameScan, CursorOf

LEMMA GoneCursor == ASSUME NEW s, ~Undisturbed(s) PROVE CursorOf(s) = Cursors!NoCursor
BY DEF CursorOf, Cursors!NoCursor

LEMMA AbsentCursor == CursorOf(Absent) = Cursors!NoCursor
<1>1. ~Undisturbed(Absent) BY DEF Undisturbed, Absent
<1> QED BY <1>1, GoneCursor

(* A cursor that is there has all the rows of the table, and has never     *)
(* handed out more.                                                        *)
LEMMA CursorType ==
  ASSUME NEW s, SetOK(s, table), Undisturbed(s), table \in SUBSET Keys
  PROVE  /\ CursorOf(s) = [phase |-> IF s.eof THEN "ended" ELSE "open", streaming |-> ~s.buffer,
                           total |-> Cardinality(table), pos |-> Cardinality(s.seen)]
         /\ Cardinality(s.seen) \in 0..MaxRows /\ Cardinality(table) \in 0..MaxRows
         /\ Cardinality(s.seen) <= Cardinality(table)
<1>1. s \in Sets /\ ScanOK(s, table) /\ KeptOK(s, table) BY DEF SetOK
<1>2. s.kept = table /\ s.seen \subseteq table BY <1>1 DEF KeptOK, Undisturbed
<1>3. Position(s) = Cardinality(s.seen) BY <1>1 DEF ScanOK
<1>4. s.seen \in SUBSET Keys BY <1>2
<1>5. Cardinality(s.seen) \in 0..MaxRows /\ Cardinality(table) \in 0..MaxRows /\ IsFiniteSet(table)
  BY <1>4, KeySets
<1>6. Cardinality(s.seen) <= Cardinality(table) BY <1>2, <1>5, FS_Subset
<1>7. CursorOf(s) = [phase |-> IF s.eof THEN "ended" ELSE "open", streaming |-> ~s.buffer,
                     total |-> Cardinality(table), pos |-> Cardinality(s.seen)]
  BY <1>2, <1>3 DEF CursorOf
<1> QED BY <1>5, <1>6, <1>7

(* query: makes a cursor of all the rows, with none handed out. *)
LEMMA CreateStep ==
  ASSUME Inv, NEW r \in ResultSets, Query(r)
  PROVE  Cursors!Create(r)
<1>1. /\ rs \in [ResultSets -> Sets] /\ table \in SUBSET Keys /\ table # {}
      /\ unbuffered \in BOOLEAN /\ rs' = [rs EXCEPT ![r] = NewResultSet] /\ rs[r] = Absent
  BY DEF Inv, TypeOK, Query
<1> DEFINE s == NewResultSet
<1>2. SetOK(s, table) BY <1>1, NewOK
<1>3. Undisturbed(s) /\ s.eof = FALSE /\ s.seen = {} /\ s.buffer \in BOOLEAN
  <2>1. s.disturbed = FALSE /\ s.eof = FALSE /\ s.seen = {} /\ s.buffer = ~unbuffered
    BY DEF NewResultSet
  <2>2. s.stmt = IF unbuffered THEN "row" ELSE "reset" BY DEF NewResultSet
  <2>3. s.stmt # "absent" BY <2>2
  <2> HIDE DEF s
  <2> QED BY <2>1, <2>3 DEF Undisturbed
<1> HIDE DEF s
<1>4. Cardinality({}) = 0 BY FS_EmptySet
<1>5. /\ CursorOf(s) = [phase |-> "open", streaming |-> ~s.buffer,
                        total |-> Cardinality(table), pos |-> 0]
      /\ Cardinality(table) \in 0..MaxRows
  BY <1>1, <1>2, <1>3, <1>4, CursorType
<1>6. 0 \in 0..MaxRows /\ 0 <= Cardinality(table)
  <2>1. MaxRows \in Nat BY NGSQLiteAssumption
  <2> QED BY <1>5, <2>1
<1>7. (~s.buffer) \in BOOLEAN OBVIOUS
<1>8. CursorOf(s) \in Cursors!Fresh
  BY <1>5, <1>6, <1>7 DEF Cursors!Fresh, Cursors!CursorStates
<1>9. CursorsOf(rs)' = [CursorsOf(rs) EXCEPT ![r] = CursorOf(s)]
  BY <1>1 DEF CursorsOf, s
<1>10. CursorsOf(rs)'[r] = CursorOf(s) BY <1>9 DEF CursorsOf
<1>11. CursorsOf(rs)[r] = Cursors!NoCursor BY <1>1, AbsentCursor DEF CursorsOf
<1> QED BY <1>8, <1>9, <1>10, <1>11 DEF Cursors!Create, CursorsOf

(* moveNext hands out the next row, announces the end after the last one,  *)
(* or fails and changes nothing that the cursor shows.                     *)
LEMMA FetchStep ==
  ASSUME NEW s, SetOK(s, table), table \in SUBSET Keys, Undisturbed(s),
         s.stmt \in {"row", "reset"}, NEW t \in Moved(s)
  PROVE  /\ SetOK(t, table) /\ Undisturbed(t) /\ t.buffer = s.buffer /\ s.eof = FALSE
         /\ \/ t.eof = FALSE /\ Cardinality(t.seen) = Cardinality(s.seen) + 1
            \/ t.eof = TRUE /\ t.seen = s.seen /\ t.seen = table
            \/ t.eof = FALSE /\ t.seen = s.seen
<1>1. s \in Sets /\ ScanOK(s, table) /\ KeptOK(s, table) BY DEF SetOK
<1>2. SetOK(t, table) BY MovedOK
<1>3. s.eof = FALSE BY <1>1 DEF ScanOK
<1>4. s.seen \in SUBSET Keys /\ s.first \in BOOLEAN BY <1>1 DEF Sets
<1>5. CASE s.first
  <2>1. t = Delivered(s, s.at, s.rowIndex) BY <1>5 DEF Moved
  <2>2. s.seen = {} BY <1>1, <1>5 DEF ScanOK
  <2>3. /\ t.stmt = "row" /\ t.buffer = s.buffer /\ t.disturbed = s.disturbed
        /\ t.eof = FALSE /\ t.seen = {s.at}
    BY <1>1, <2>1, <2>2 DEF Delivered, Sets
  <2>4. Cardinality({}) = 0 /\ Cardinality({s.at}) = 1 BY FS_EmptySet, FS_Singleton
  <2> QED BY <1>2, <1>3, <2>2, <2>3, <2>4 DEF Undisturbed
<1>6. ASSUME ~s.first, t = Delivered(s, Min(After(s.at)), s.rowIndex + 1), After(s.at) # {}
      PROVE  /\ Undisturbed(t) /\ t.buffer = s.buffer /\ t.eof = FALSE
             /\ Cardinality(t.seen) = Cardinality(s.seen) + 1
  <2> DEFINE k == Min(After(s.at))
  <2>1. After(s.at) \in SUBSET Keys BY DEF After
  <2>2. k \in After(s.at) BY <1>6, <2>1, KeySets, MinFact
  <2>3. k \in Nat /\ s.at \in Nat /\ k > s.at
    BY <1>1, <2>1, <2>2, NGSQLiteAssumption DEF After, Keys, Sets
  <2>4. k \notin s.seen
    <3>1. k \in s.seen => k <= s.at BY <1>1 DEF ScanOK
    <3> QED BY <2>3, <3>1
  <2>5. /\ t.stmt = "row" /\ t.buffer = s.buffer /\ t.disturbed = s.disturbed
        /\ t.eof = FALSE /\ t.seen = s.seen \cup {k}
    BY <1>1, <1>6 DEF Delivered, Sets
  <2> HIDE DEF k
  <2>6. IsFiniteSet(s.seen) BY <1>4, KeySets
  <2>7. Cardinality(s.seen \cup {k}) = Cardinality(s.seen) + 1
    BY <2>4, <2>6, FS_AddElement
  <2> QED BY <2>5, <2>7 DEF Undisturbed
<1>7. ASSUME ~s.first, NEW end \in BOOLEAN, t = Stopped(s, end)
      PROVE  /\ Undisturbed(t) /\ t.buffer = s.buffer /\ t.eof = end /\ t.seen = s.seen
             /\ end => t.seen = table
  <2>1. /\ t.stmt = "done" /\ t.buffer = s.buffer /\ t.disturbed = s.disturbed
        /\ t.eof = end /\ t.seen = s.seen
    BY <1>1, <1>7 DEF Stopped, Sets
  <2>2. Undisturbed(t) BY <2>1 DEF Undisturbed
  <2>3. t.kept = table /\ t.seen \subseteq table /\ (t.eof => table \subseteq t.seen)
    BY <1>2, <2>2 DEF SetOK, KeptOK, Undisturbed
  <2> QED BY <2>1, <2>2, <2>3
<1>8. CASE ~s.first
  <2>1. \/ t = Stopped(s, FALSE)
        \/ t = Stopped(s, TRUE)
        \/ After(s.at) # {} /\ t = Delivered(s, Min(After(s.at)), s.rowIndex + 1)
    BY <1>8 DEF Moved, From
  <2> QED BY <1>2, <1>3, <1>6, <1>7, <1>8, <2>1
<1> QED BY <1>4, <1>5, <1>8

LEMMA MoveStep ==
  ASSUME Inv, NEW r \in ResultSets, ReadNext(r)
  PROVE  [Cursors!Next]_(CursorsOf(rs))
<1>1. rs \in [ResultSets -> Sets] /\ table \in SUBSET Keys /\ SetOK(rs[r], table)
      /\ rs[r].stmt \in {"row", "reset"}
  BY DEF Inv, TypeOK, SetsOK, ReadNext, MoveNext, Sets
<1>2. PICK t \in Moved(rs[r]) : rs' = [rs EXCEPT ![r] = t]
  BY DEF ReadNext, MoveNext
<1> DEFINE s == rs[r]  c == CursorOf(s)  d == CursorOf(t)
<1>3. CursorsOf(rs)' = [CursorsOf(rs) EXCEPT ![r] = d] /\ CursorsOf(rs)[r] = c
  BY <1>1, <1>2 DEF CursorsOf
<1>4. CASE ~Undisturbed(s)
  <2>1. s \in Sets BY <1>1
  <2>2. s.disturbed = TRUE BY <1>1, <1>4, <2>1 DEF Undisturbed, Sets
  <2>3. t.disturbed = s.disturbed
    <3>1. \/ t = Stopped(s, FALSE) \/ t = Stopped(s, TRUE)
          \/ \E at, index : t = Delivered(s, at, index)
      BY <1>2 DEF Moved
    <3> QED BY <2>1, <3>1 DEF Delivered, Stopped, Sets
  <2>4. ~Undisturbed(t) BY <2>2, <2>3 DEF Undisturbed
  <2>5. c = d BY <1>4, <2>4, GoneCursor
  <2> HIDE DEF c, d
  <2>6. CursorsOf(rs)' = CursorsOf(rs) BY <1>3, <2>5 DEF CursorsOf
  <2> QED BY <2>6
<1>5. CASE Undisturbed(s)
  <2>1. /\ SetOK(t, table) /\ Undisturbed(t) /\ t.buffer = s.buffer /\ s.eof = FALSE
        /\ \/ t.eof = FALSE /\ Cardinality(t.seen) = Cardinality(s.seen) + 1
           \/ t.eof = TRUE /\ t.seen = s.seen /\ t.seen = table
           \/ t.eof = FALSE /\ t.seen = s.seen
    BY <1>1, <1>2, <1>5, FetchStep
  <2> DEFINE total == Cardinality(table)
             cs == Cardinality(s.seen)  ct == Cardinality(t.seen)
  <2>2. c = [phase |-> "open", streaming |-> ~s.buffer, total |-> total, pos |-> cs]
        /\ cs \in 0..MaxRows /\ total \in 0..MaxRows
    BY <1>1, <1>5, <2>1, CursorType
  <2>3. d = [phase |-> IF t.eof THEN "ended" ELSE "open", streaming |-> ~s.buffer,
             total |-> total, pos |-> ct]
        /\ ct \in 0..MaxRows /\ ct <= total
    BY <1>1, <2>1, CursorType
  <2>4. MaxRows \in Nat BY NGSQLiteAssumption
  <2>5. CASE t.eof = FALSE /\ ct = cs + 1
    <3> HIDE DEF c, d, total, cs, ct
    <3>1. d = [c EXCEPT !.pos = @ + 1] BY <2>2, <2>3, <2>5
    <3>2. c.phase = "open" /\ c.pos < c.total BY <2>2, <2>3, <2>4, <2>5
    <3>3. CursorsOf(rs)' = [CursorsOf(rs) EXCEPT ![r].pos = @ + 1] BY <1>3, <3>1
    <3>4. Cursors!Advance(r) BY <1>3, <3>2, <3>3 DEF Cursors!Advance, CursorsOf
    <3> QED BY <3>4 DEF Cursors!Next
  <2>6. CASE t.eof = TRUE /\ t.seen = s.seen /\ t.seen = table
    <3>0. cs = total /\ ct = cs BY <2>6
    <3> HIDE DEF c, d, total, cs, ct
    <3>1. d = [c EXCEPT !.phase = "ended"] BY <2>2, <2>3, <2>6, <3>0
    <3>2. c.phase = "open" /\ c.pos = c.total BY <2>2, <3>0
    <3>3. CursorsOf(rs)' = [CursorsOf(rs) EXCEPT ![r].phase = "ended"] BY <1>3, <3>1
    <3>4. Cursors!Finish(r)
      BY <1>3, <3>2, <3>3 DEF Cursors!Finish, Cursors!MayEnd, CursorsOf
    <3> QED BY <3>4 DEF Cursors!Next
  <2>7. CASE t.eof = FALSE /\ t.seen = s.seen
    <3>0. ct = cs BY <2>7
    <3> HIDE DEF c, d, total, cs, ct
    <3>1. d = c BY <2>2, <2>3, <2>7, <3>0
    <3>2. CursorsOf(rs)' = CursorsOf(rs) BY <1>3, <3>1 DEF CursorsOf
    <3> QED BY <3>2
  <2> QED BY <2>1, <2>5, <2>6, <2>7
<1> QED BY <1>4, <1>5

(* References that go away, and a change of the table, end cursors or      *)
(* leave them as they are.                                                 *)
LEMMA DropStep ==
  ASSUME \A r \in ResultSets : CursorOf(rs'[r]) \in {CursorOf(rs[r]), Cursors!NoCursor}
  PROVE  Cursors!Next
<1> DEFINE D == {r \in ResultSets : CursorOf(rs'[r]) = Cursors!NoCursor}
<1>1. CursorsOf(rs)' = [r \in ResultSets |-> IF r \in D THEN Cursors!NoCursor ELSE CursorsOf(rs)[r]]
  BY DEF CursorsOf
<1>2. D \in SUBSET ResultSets OBVIOUS
<1>3. Cursors!Drop(D) BY <1>1 DEF Cursors!Drop, CursorsOf
<1> HIDE DEF D
<1> QED BY <1>2, <1>3 DEF Cursors!Next

LEMMA RefinedInit == Init => Cursors!Init
BY AbsentCursor DEF Init, Cursors!Init

LEMMA RefinedNext ==
  ASSUME Inv, [Next]_vars
  PROVE  [Cursors!Next]_(CursorsOf(rs))
<1>0. rs \in [ResultSets -> Sets] BY DEF Inv, TypeOK
<1>1. CASE rs' = rs BY <1>1 DEF CursorsOf
<1>2. ASSUME NEW r \in ResultSets, Query(r) PROVE Cursors!Next
  BY <1>2, CreateStep DEF Cursors!Next
<1>3. ASSUME NEW new, Change(new) PROVE Cursors!Next
  <2>1. ASSUME NEW r \in ResultSets PROVE CursorOf(rs'[r]) = Cursors!NoCursor
    <3>1. rs[r] \in Sets BY <1>0
    <3>2. rs'[r] = IF rs[r] = Absent THEN Absent
                   ELSE [rs[r] EXCEPT !.kept = @ \cap new, !.disturbed = TRUE]
      BY <1>3 DEF Change
    <3>3. rs'[r] = Absent \/ ~Undisturbed(rs'[r]) BY <3>1, <3>2 DEF Undisturbed, Sets
    <3> QED BY <3>3, AbsentCursor, GoneCursor
  <2> QED BY <2>1, DropStep
<1>4. ASSUME NEW r \in ResultSets, Retain(r) PROVE Cursors!Next
  <2>1. rs' = [rs EXCEPT ![r] = [rs[r] EXCEPT !.holders = Holders]] BY <1>0, <1>4 DEF Retain
  <2>2. SameScan(rs[r], rs'[r]) BY <1>0, <2>1 DEF SameScan, Sets
  <2>3. \A q \in ResultSets : q # r => rs'[q] = rs[q] BY <1>0, <2>1
  <2> QED BY <2>2, <2>3, SameCursor, DropStep
<1>5. ASSUME NEW r \in ResultSets, NEW holder, LetGo(r, holder) PROVE Cursors!Next
  <2>1. rs' = [rs EXCEPT ![r] = [rs[r] EXCEPT !.holders = @ \ {holder}]]
    BY <1>0, <1>5 DEF LetGo
  <2>2. SameScan(rs[r], rs'[r]) BY <1>0, <2>1 DEF SameScan, Sets
  <2>3. \A q \in ResultSets : q # r => rs'[q] = rs[q] BY <1>0, <2>1
  <2> QED BY <2>2, <2>3, SameCursor, DropStep
<1>6. ASSUME NEW r \in ResultSets, FreeResult(r) PROVE Cursors!Next
  <2>1. \A q \in ResultSets : rs'[q] = IF q = r THEN Absent ELSE rs[q]
    BY <1>0, <1>6 DEF FreeResult
  <2> QED BY <2>1, AbsentCursor, DropStep
<1>7. CASE Execute \/ ForeignCommit BY <1>3, <1>7 DEF Execute, ForeignCommit
<1>8. CASE \/ Connect \/ (\E flag \in Modes : SetUnbuffered(flag)) \/ ExecuteSelect
           \/ ForeignBegin \/ ReleaseConnection \/ ReleaseFromResult
           \/ DrainPool \/ PoolDrained \/ UNCHANGED vars
  BY <1>1, <1>8 DEF Connect, SetUnbuffered, ExecuteSelect, ForeignBegin, ReleaseConnection,
                    ReleaseFromResult, DrainPool, PoolDrained, vars
<1>9. ASSUME NEW r \in ResultSets, Release(r) \/ PoolReleases(r) PROVE Cursors!Next
  BY <1>5, <1>9 DEF Release, PoolReleases
<1> QED BY <1>2, <1>4, <1>6, <1>7, <1>8, <1>9, MoveStep DEF Next

(* Until the table changes, SQLite's result sets are cursors like MySQL's: *)
(* rows in order, each once, the end announced after the last one.         *)
THEOREM Refinement == Spec => CursorContract
<1>1. Inv /\ [Next]_vars => [Cursors!Next]_(CursorsOf(rs)) BY RefinedNext
<1> QED BY <1>1, RefinedInit, Invariance, PTL DEF Spec, CursorContract, Cursors!Spec, CursorsOf
=============================================================================
