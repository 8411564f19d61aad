------------------------- MODULE QueryMeaningProofs -------------------------
(***************************************************************************)
(* That the scanner of QueryBuilder gives the SQL a statement stands for,  *)
(* for statements of any number of units, each of any length.              *)
(*                                                                         *)
(* The scanner knows characters, the properties speak of units.  The       *)
(* invariant says where in which unit it stands, what it has made of the   *)
(* units before, and how many placeholders they held.  It is stated for    *)
(* the units the scanner really reads: those of the program, or, when a    *)
(* prepared statement is executed, those that the first scan has left      *)
(* (Prepared).  So one proof serves both scans; what the second adds is    *)
(* that a quoted name is text to the scanner (Clean).                      *)
(***************************************************************************)
EXTENDS QueryBuilderProofs, FiniteSetTheorems, SequenceTheorems

(* inside[i] is the quote that is open after i characters of a text that   *)
(* the scanner copies as it is: no placeholder outside of quotes, and no   *)
(* bracket that is closed by its counterpart.                              *)
Track(text, inside) ==
  /\ inside \in [0..Len(text) -> Openers \cup {"none"}]
  /\ inside[0] = "none"
  /\ \A i \in 1..Len(text) :
       \/ /\ inside[i - 1] = "none" /\ text[i] # "qm"
          /\ inside[i] = IF text[i] \in Openers THEN text[i] ELSE "none"
       \/ /\ inside[i - 1] # "none"
          /\ text[i] \notin Ends(inside[i - 1]) \ {inside[i - 1]}
          /\ inside[i] = IF text[i] = inside[i - 1] THEN "none" ELSE inside[i - 1]

Clean(text) == \E inside : Track(text, inside) /\ inside[Len(text)] = "none"

Readable(u, last) ==
  IF u.kind = "text"
  THEN u.text # <<>> /\ \E inside : Track(u.text, inside) /\ (last \/ inside[Len(u.text)] = "none")
  ELSE WellWritten(u, last)

AllReadable(units) ==
  units \in Seq(Units) /\ \A i \in DOMAIN units : Readable(units[i], i = Len(units))

(* What is left of the units by the scan that prepares a statement.        *)
AfterPreparing(u, known) ==
  CASE u.kind = "name"      -> [kind |-> "text", text |-> QuoteObject(known, u.text, FALSE)]
    [] u.kind = "table"     -> [kind |-> "text", text |-> QuoteObject(known, u.text, TRUE)]
    [] u.kind = "subscript" -> [kind |-> "text", text |-> <<"lb">> \o u.text]
    [] OTHER                -> u

Prepared(units, known) == [i \in DOMAIN units |-> AfterPreparing(units[i], known)]

(* The units the scanner reads now, and what it makes of the i-th.         *)
Read == IF task = "execute" THEN Prepared(asked, statement.aliases) ELSE asked

Becomes(units, i) ==
  LET u == units[i] IN
  CASE u.kind = "text"      -> u.text
    [] u.kind = "param"     -> IF task = "prepare" THEN <<"qm">>
                               ELSE <<quote[array[Needed(units, i)]]>>
    [] u.kind = "name"      -> QuoteObject(aliases, u.text, FALSE)
    [] u.kind = "table"     -> QuoteObject(aliases, u.text, TRUE)
    [] u.kind = "subscript" -> <<"lb">> \o u.text

In(units) == [i \in DOMAIN units |-> Written(units[i])]
Out(units) == [i \in DOMAIN units |-> Becomes(units, i)]

(* The scanner has read k - 1 units and d characters of the next one: text *)
(* with the quotes inside, or what is in brackets.                         *)
InText(u, last, d) ==
  /\ u.kind = "text" /\ d \in 1..Len(u.text)
  /\ \E inside : /\ Track(u.text, inside) /\ q = inside[d]
                 /\ (last \/ inside[Len(u.text)] = "none")
                 /\ d = Len(u.text) => inside[d] # "none"

InBrackets(u, d) ==
  /\ u.kind \in {"name", "table", "subscript"} /\ d \in 1..Len(u.text) + 1
  /\ q = (IF u.kind = "table" THEN "lc" ELSE "lb") /\ s = e - d

Position(units, k, d) ==
  /\ k \in 1..Len(units) + 1 /\ d \in Nat
  /\ e = Len(Joined(In(units), k - 1)) + d + 1
  /\ n = IF task = "prepare" THEN 0 ELSE Needed(units, k - 1)
  /\ \A j \in 1..k - 1 : ~Nameless(units[j])

Reading(units, k, d) ==
  /\ Position(units, k, d)
  /\ \/ /\ d = 0 /\ q = "none"
        /\ FlushedText = Joined(Out(units), k - 1)
     \/ /\ k <= Len(units) /\ InText(units[k], k = Len(units), d)
        /\ FlushedText = Joined(Out(units), k - 1) \o SubSeq(units[k].text, 1, d)
     \/ /\ k <= Len(units) /\ InBrackets(units[k], d)
        /\ ret = Joined(Out(units), k - 1)

(* What ends the scan early, and that nothing does among the first units.  *)
Fault(units, k) == Nameless(units[k]) \/ (task # "prepare" /\ Needed(units, k) > Len(array))

Faultless(units, k) == \A j \in 1..k : ~Fault(units, j)

(* How the call may end.                                                   *)
Ended(units) ==
  /\ result = "sql" =>
       /\ ret = FlattenSeq(Out(units))
       /\ \A j \in DOMAIN units : ~Nameless(units[j])
       /\ task # "prepare" => Needed(units, Len(units)) <= Len(array)
  /\ result = "nil" =>
       /\ task # "prepare" /\ Needed(units, Len(units)) > Len(array)
       /\ \E k \in DOMAIN units : Needed(units, k) > Len(array) /\ Faultless(units, k - 1)
  /\ result = "raised" =>
       \E k \in DOMAIN units : Nameless(units[k]) /\ Faultless(units, k - 1)

(* What is known of aliases, and of a statement that is prepared.          *)
FromRenamings(known) ==
  \A a \in DOMAIN known : \E names \in Renamings : known[a] = Qualified(names.object)

StatementKept ==
  statement.prepared =>
    /\ statement.sql = Text(Prepared(asked, statement.aliases))
    /\ \A j \in DOMAIN asked : ~Nameless(asked[j])
    /\ FromRenamings(statement.aliases)

MInv ==
  /\ FromRenamings(aliases) /\ StatementKept
  /\ task = "execute" => statement.prepared
  /\ task # "idle" => query = Text(Read)
  /\ task # "idle" /\ Intact /\ result = "none" => \E k, d \in Nat : Reading(Read, k, d)
  /\ task # "idle" /\ Intact /\ result # "none" => Ended(Read)
-----------------------------------------------------------------------------
(* Counting placeholders. *)
LEMMA NeededFacts ==
  ASSUME NEW units, NEW k \in Nat
  PROVE  /\ Needed(units, k) \in Nat
         /\ k = 0 => Needed(units, k) = 0
         /\ Needed(units, k + 1) =
              Needed(units, k) + (IF units[k + 1].kind = "param" THEN 1 ELSE 0)
         /\ \A m \in Nat : k <= m => Needed(units, k) <= Needed(units, m)
<1> DEFINE Of(m) == {j \in 1..m : units[j].kind = "param"}
<1>1. ASSUME NEW m \in Nat PROVE IsFiniteSet(Of(m)) /\ Cardinality(Of(m)) \in Nat
  <2>1. IsFiniteSet(1..m)  BY FS_Interval
  <2>2. Of(m) \subseteq 1..m  OBVIOUS
  <2> HIDE DEF Of
  <2>3. IsFiniteSet(Of(m))  BY <2>1, <2>2, FS_Subset
  <2>4. QED  BY <2>3, FS_CardinalityType
<1>2. Needed(units, k) \in Nat  BY <1>1 DEF Needed
<1>3. k = 0 => Needed(units, k) = 0
  <2>1. k = 0 => Of(k) = {}  OBVIOUS
  <2>2. Cardinality({}) = 0  BY FS_EmptySet
  <2>3. QED  BY <2>1, <2>2 DEF Needed
<1>4. ASSUME units[k + 1].kind = "param" PROVE Needed(units, k + 1) = Needed(units, k) + 1
  <2>1. Of(k + 1) = Of(k) \cup {k + 1} /\ k + 1 \notin Of(k)  BY <1>4
  <2>2. IsFiniteSet(Of(k))  BY <1>1
  <2>3. Needed(units, k) = Cardinality(Of(k)) /\ Needed(units, k + 1) = Cardinality(Of(k + 1))
    BY DEF Needed
  <2> HIDE DEF Of
  <2>4. Cardinality(Of(k + 1)) = Cardinality(Of(k)) + 1  BY <2>1, <2>2, FS_AddElement
  <2>5. QED  BY <2>3, <2>4
<1>5. ASSUME units[k + 1].kind # "param" PROVE Needed(units, k + 1) = Needed(units, k)
  <2>1. Of(k + 1) = Of(k)  BY <1>5
  <2>2. QED  BY <2>1 DEF Needed
<1>6. ASSUME NEW m \in Nat, k <= m PROVE Needed(units, k) <= Needed(units, m)
  <2>1. Of(k) \subseteq Of(m)  BY <1>6
  <2>2. IsFiniteSet(Of(m))  BY <1>1
  <2>3. Needed(units, k) = Cardinality(Of(k)) /\ Needed(units, m) = Cardinality(Of(m))
    BY DEF Needed
  <2> HIDE DEF Of
  <2>4. QED  BY <2>1, <2>2, <2>3, FS_Subset
<1>7. QED
  BY <1>2, <1>3, <1>4, <1>5, <1>6

-----------------------------------------------------------------------------
(* Text the scanner copies as it is. *)
LEMMA PlainClean ==
  ASSUME NEW text \in Seq(Chars), Plain(text)
  PROVE  Clean(text)
<1> DEFINE inside == [i \in 0..Len(text) |-> "none"]
<1>1. Track(text, inside) /\ inside[Len(text)] = "none"
  BY DEF Track, Plain
<1>2. QED  BY <1>1 DEF Clean

LEMMA OpenTrack ==
  ASSUME NEW text \in Seq(Chars), LeftOpen(text)
  PROVE  \E inside : Track(text, inside)
<1> DEFINE inside == [i \in 0..Len(text) |-> IF i = 0 THEN "none" ELSE text[1]]
<1>1. Len(text) \in Nat \ {0} /\ text[1] \in Openers  BY DEF LeftOpen
<1>2. text[1] # "none" /\ text[1] # "qm"  BY <1>1 DEF Openers
<1>3. inside \in [0..Len(text) -> Openers \cup {"none"}] /\ inside[0] = "none"  BY <1>1
<1>4. ASSUME NEW i \in 1..Len(text)
      PROVE  \/ /\ inside[i - 1] = "none" /\ text[i] # "qm"
                /\ inside[i] = IF text[i] \in Openers THEN text[i] ELSE "none"
             \/ /\ inside[i - 1] # "none"
                /\ text[i] \notin Ends(inside[i - 1]) \ {inside[i - 1]}
                /\ inside[i] = IF text[i] = inside[i - 1] THEN "none" ELSE inside[i - 1]
  <2>1. CASE i = 1  BY <2>1, <1>1, <1>2
  <2>2. CASE i # 1
    <3>1. inside[i - 1] = text[1] /\ inside[i] = text[1]  BY <2>2, <1>1
    <3>2. text[i] \notin Ends(text[1])  BY <2>2 DEF LeftOpen
    <3>3. text[1] \in Ends(text[1])  BY DEF Ends
    <3>4. QED  BY <1>2, <3>1, <3>2, <3>3
  <2>3. QED  BY <2>1, <2>2
<1> HIDE DEF inside
<1>5. Track(text, inside)  BY <1>3, <1>4 DEF Track
<1>6. QED  BY <1>5

LEMMA QuotedClean ==
  ASSUME NEW text \in Seq(Chars), Quoted(text)
  PROVE  Clean(text)
<1> DEFINE inside == [i \in 0..Len(text) |-> IF i = 0 \/ i = Len(text) THEN "none" ELSE text[1]]
<1>1. Len(text) \in Nat /\ Len(text) >= 2 /\ text[1] \in Openers /\ text[Len(text)] = text[1]
  BY DEF Quoted
<1>2. text[1] # "none" /\ text[1] # "qm"  BY <1>1 DEF Openers
<1>3. /\ inside \in [0..Len(text) -> Openers \cup {"none"}]
      /\ inside[0] = "none" /\ inside[Len(text)] = "none"
  BY <1>1
<1>4. ASSUME NEW i \in 1..Len(text)
      PROVE  \/ /\ inside[i - 1] = "none" /\ text[i] # "qm"
                /\ inside[i] = IF text[i] \in Openers THEN text[i] ELSE "none"
             \/ /\ inside[i - 1] # "none"
                /\ text[i] \notin Ends(inside[i - 1]) \ {inside[i - 1]}
                /\ inside[i] = IF text[i] = inside[i - 1] THEN "none" ELSE inside[i - 1]
  <2>1. CASE i = 1  BY <2>1, <1>1, <1>2
  <2>2. CASE i # 1 /\ i # Len(text)
    <3>1. inside[i - 1] = text[1] /\ inside[i] = text[1]  BY <2>2, <1>1
    <3>2. text[i] \notin Ends(text[1])  BY <2>2 DEF Quoted
    <3>3. text[1] \in Ends(text[1])  BY DEF Ends
    <3>4. QED  BY <1>2, <3>1, <3>2, <3>3
  <2>3. CASE i # 1 /\ i = Len(text)
    <3>1. inside[i - 1] = text[1] /\ inside[i] = "none" /\ text[i] = text[1]  BY <2>3, <1>1
    <3>2. QED  BY <1>2, <3>1
  <2>4. QED  BY <2>1, <2>2, <2>3
<1> HIDE DEF inside
<1>5. Track(text, inside)  BY <1>3, <1>4 DEF Track
<1>6. QED  BY <1>3, <1>5 DEF Clean

(* Clean texts one after the other are clean. *)
LEMMA CleanTwo ==
  ASSUME NEW a \in Seq(Chars), NEW b \in Seq(Chars), Clean(a), Clean(b)
  PROVE  Clean(a \o b)
<1>1. PICK f : Track(a, f) /\ f[Len(a)] = "none"  BY DEF Clean
<1>2. PICK g : Track(b, g) /\ g[Len(b)] = "none"  BY DEF Clean
<1> DEFINE c == a \o b
           h == [i \in 0..Len(c) |-> IF i <= Len(a) THEN f[i] ELSE g[i - Len(a)]]
<1>3. /\ Len(a) \in Nat /\ Len(b) \in Nat /\ Len(c) = Len(a) + Len(b)
      /\ \A i \in 1..Len(c) : c[i] = IF i <= Len(a) THEN a[i] ELSE b[i - Len(a)]
  OBVIOUS
<1> HIDE DEF c
<1>4. f \in [0..Len(a) -> Openers \cup {"none"}] /\ g \in [0..Len(b) -> Openers \cup {"none"}]
  BY <1>1, <1>2 DEF Track
<1>5. g[0] = "none" /\ f[0] = "none"  BY <1>1, <1>2 DEF Track
<1>6. \A i \in 0..Len(c) : h[i] = IF i <= Len(a) THEN f[i] ELSE g[i - Len(a)]  OBVIOUS
<1>7. h \in [0..Len(c) -> Openers \cup {"none"}] /\ h[0] = "none"
  <2>1. ASSUME NEW i \in 0..Len(c) PROVE h[i] \in Openers \cup {"none"}
    <3>1. CASE i <= Len(a)  BY <3>1, <1>3, <1>4, <1>6
    <3>2. CASE ~(i <= Len(a))
      <4>1. i - Len(a) \in 0..Len(b)  BY <3>2, <1>3
      <4>2. QED  BY <3>2, <4>1, <1>4, <1>6
    <3>3. QED  BY <3>1, <3>2
  <2>2. 0 \in 0..Len(c) /\ 0 <= Len(a)  BY <1>3
  <2>3. h[0] = "none"  BY <2>2, <1>5, <1>6
  <2>4. QED  BY <2>1, <2>3
<1> HIDE DEF h
<1>8. h[Len(c)] = "none"
  <2>1. CASE Len(b) = 0  BY <2>1, <1>1, <1>3, <1>6
  <2>2. CASE Len(b) # 0
    <3>1. Len(c) \in 0..Len(c) /\ ~(Len(c) <= Len(a)) /\ Len(c) - Len(a) = Len(b)
      BY <2>2, <1>3
    <3>2. QED  BY <3>1, <1>2, <1>6
  <2>3. QED  BY <2>1, <2>2
<1>9. ASSUME NEW i \in 1..Len(c)
      PROVE  \/ /\ h[i - 1] = "none" /\ c[i] # "qm"
                /\ h[i] = IF c[i] \in Openers THEN c[i] ELSE "none"
             \/ /\ h[i - 1] # "none"
                /\ c[i] \notin Ends(h[i - 1]) \ {h[i - 1]}
                /\ h[i] = IF c[i] = h[i - 1] THEN "none" ELSE h[i - 1]
  <2>1. CASE i <= Len(a)
    <3>1. i \in 1..Len(a) /\ i \in 0..Len(c) /\ i - 1 \in 0..Len(c) /\ i - 1 <= Len(a)
      BY <2>1, <1>3
    <3>2. h[i] = f[i] /\ h[i - 1] = f[i - 1] /\ c[i] = a[i]  BY <2>1, <3>1, <1>3, <1>6
    <3>3. QED  BY <3>1, <3>2, <1>1 DEF Track
  <2>2. CASE ~(i <= Len(a))
    <3> DEFINE j == i - Len(a)
    <3>1. j \in 1..Len(b) /\ i \in 0..Len(c) /\ i - 1 \in 0..Len(c) /\ (i - 1) - Len(a) = j - 1
      BY <2>2, <1>3
    <3>2. h[i] = g[j] /\ c[i] = b[j]  BY <2>2, <3>1, <1>3, <1>6
    <3>3. h[i - 1] = g[j - 1]
      <4>1. CASE i - 1 <= Len(a)
        <5>1. i - 1 = Len(a) /\ j - 1 = 0  BY <2>2, <4>1, <1>3
        <5>2. QED  BY <5>1, <3>1, <1>1, <1>5, <1>6
      <4>2. CASE ~(i - 1 <= Len(a))  BY <4>2, <3>1, <1>6
      <4>3. QED  BY <4>1, <4>2
    <3> HIDE DEF j
    <3>4. QED  BY <3>1, <3>2, <3>3, <1>2 DEF Track
  <2>3. QED  BY <2>1, <2>2
<1>10. Track(c, h)  BY <1>7, <1>9 DEF Track
<1>11. QED  BY <1>8, <1>10 DEF Clean, c

-----------------------------------------------------------------------------
(* The units the scanner reads are readable: those of the program, and,    *)
(* when names are well formed, those a first scan has left.                *)
LEMMA WrittenReadable ==
  ASSUME NEW u \in Units, NEW last \in BOOLEAN, WellWritten(u, last)
  PROVE  Readable(u, last)
<1>1. u.text \in Seq(Chars)  BY DEF Units
<1>2. CASE u.kind = "text"
  <2>1. u.text # <<>> /\ (Plain(u.text) \/ Quoted(u.text) \/ (last /\ LeftOpen(u.text)))
    BY <1>2 DEF WellWritten
  <2>2. \E inside : Track(u.text, inside) /\ (last \/ inside[Len(u.text)] = "none")
    <3>1. CASE Plain(u.text)  BY <1>1, <3>1, PlainClean DEF Clean
    <3>2. CASE Quoted(u.text)  BY <1>1, <3>2, QuotedClean DEF Clean
    <3>3. CASE last /\ LeftOpen(u.text)  BY <1>1, <3>3, OpenTrack
    <3>4. QED  BY <2>1, <3>1, <3>2, <3>3
  <2>3. QED  BY <1>2, <2>1, <2>2, Zenon DEF Readable
<1>3. CASE u.kind # "text"  BY <1>3, Zenon DEF Readable
<1>4. QED  BY <1>2, <1>3

LEMMA AskedReadable ==
  ASSUME TypeOK
  PROVE  AllReadable(asked)
<1>1. asked \in Seq(Units) /\ \A i \in DOMAIN asked : WellWritten(asked[i], i = Len(asked))
  BY StatementsAssumption, Zenon DEF IsStatement, TypeOK
<1>2. ASSUME NEW i \in DOMAIN asked PROVE Readable(asked[i], i = Len(asked))
  <2>1. asked[i] \in Units  BY <1>1
  <2>2. (i = Len(asked)) \in BOOLEAN  OBVIOUS
  <2>3. WellWritten(asked[i], i = Len(asked))  BY <1>1, Zenon
  <2>4. QED  BY <2>1, <2>2, <2>3, WrittenReadable, Zenon
<1>3. QED  BY <1>1, <1>2, Zenon DEF AllReadable

LEMMA QuotesClean ==
  ASSUME NEW name \in Seq(Chars), WithoutQuotes(name)
  PROVE  Clean(InQuotes(name)) /\ InQuotes(name) \in Seq(Chars) /\ InQuotes(name) # <<>>
<1> DEFINE text == InQuotes(name)
<1>1. "dq" \in Chars /\ "dq" \in Openers /\ Ends("dq") = {"dq"}  BY DEF Chars, Openers, Ends
<1>2. /\ text \in Seq(Chars) /\ Len(text) = Len(name) + 2 /\ Len(name) \in Nat
      /\ text[1] = "dq" /\ text[Len(name) + 2] = "dq"
      /\ \A i \in 2..Len(name) + 1 : text[i] = name[i - 1]
  BY <1>1 DEF InQuotes
<1> HIDE DEF text
<1>3. \A j \in DOMAIN name : name[j] # "dq"  BY DEF WithoutQuotes, ToSet
<1>4. ASSUME NEW i \in 2..Len(text) - 1 PROVE text[i] \notin Ends(text[1])
  <2>1. i - 1 \in DOMAIN name /\ text[i] = name[i - 1]  BY <1>2
  <2>2. QED  BY <1>1, <1>2, <1>3, <2>1
<1>5. Quoted(text)  BY <1>1, <1>2, <1>4 DEF Quoted
<1>6. text # <<>>  BY <1>2
<1>7. QED  BY <1>2, <1>5, <1>6, QuotedClean DEF text

LEMMA QualifiedClean ==
  ASSUME NEW name \in Seq(Chars), WithoutQuotes(name), PlainSettings
  PROVE  Clean(Qualified(name)) /\ Qualified(name) \in Seq(Chars) /\ Qualified(name) # <<>>
<1>1. Qualifier \in Seq(Chars)  BY QueryBuilderAssumption
<1>2. PICK k \in DOMAIN Qualifier :
        Quoted(SubSeq(Qualifier, 1, k)) /\ Plain(SubSeq(Qualifier, k + 1, Len(Qualifier)))
  BY DEF PlainSettings
<1> DEFINE a == SubSeq(Qualifier, 1, k)
           b == SubSeq(Qualifier, k + 1, Len(Qualifier))
<1>3. a \in Seq(Chars) /\ b \in Seq(Chars) /\ Qualifier = a \o b
  <2>1. a \in Seq(Chars) /\ b \in Seq(Chars)  BY <1>1
  <2>2. /\ 1 \in 1..Len(Qualifier) + 1 /\ k \in 1 - 1..Len(Qualifier)
        /\ Len(Qualifier) \in k..Len(Qualifier)
    BY <1>1
  <2>3. a \o b = SubSeq(Qualifier, 1, Len(Qualifier))  BY <1>1, <2>2, ConcatAdjacentSubSeq
  <2>4. SubSeq(Qualifier, 1, Len(Qualifier)) = Qualifier  BY <1>1
  <2>5. QED  BY <2>1, <2>3, <2>4
<1>4. Clean(a) /\ Clean(b)  BY <1>2, <1>3, QuotedClean, PlainClean
<1> HIDE DEF a, b
<1>5. Clean(Qualifier)  BY <1>3, <1>4, CleanTwo
<1>6. Clean(InQuotes(name)) /\ InQuotes(name) \in Seq(Chars) /\ InQuotes(name) # <<>>
  BY QuotesClean
<1>7. Clean(Qualifier \o InQuotes(name))  BY <1>1, <1>5, <1>6, CleanTwo
<1>8. Qualifier \o InQuotes(name) \in Seq(Chars) /\ Qualifier \o InQuotes(name) # <<>>
  <2> DEFINE c == InQuotes(name)
  <2>1. c \in Seq(Chars) /\ c # <<>>  BY <1>6
  <2> HIDE DEF c
  <2>2. Qualifier \o c \in Seq(Chars) /\ Len(Qualifier \o c) = Len(Qualifier) + Len(c)
    BY <1>1, <2>1
  <2>3. Len(c) > 0 /\ Len(Qualifier) \in Nat  BY <1>1, <2>1
  <2>4. Qualifier \o c # <<>>  BY <1>1, <2>1, <2>2, <2>3
  <2>5. QED  BY <2>2, <2>4 DEF c
<1>9. QED  BY <1>7, <1>8 DEF Qualified

LEMMA NameClean ==
  ASSUME NEW name \in Seq(Chars), name # <<>>, PlainSettings,
         WithoutQuotes(name) \/ (Quoted(name) /\ name[1] = "dq"),
         NEW known, FromRenamings(known), NEW qualify \in BOOLEAN
  PROVE  /\ Clean(QuoteObject(known, name, qualify))
         /\ QuoteObject(known, name, qualify) \in Seq(Chars)
         /\ QuoteObject(known, name, qualify) # <<>>
<1>1. CASE name[1] = "dq"
  <2>1. 1 \in DOMAIN name  OBVIOUS
  <2>2. ~WithoutQuotes(name)  BY <1>1, <2>1 DEF WithoutQuotes, ToSet
  <2>3. Clean(name)  BY <2>2, QuotedClean
  <2>4. QED  BY <1>1, <2>3 DEF QuoteObject
<1>2. CASE name[1] # "dq" /\ name \in DOMAIN known
  <2>1. PICK names \in Renamings : known[name] = Qualified(names.object)
    BY <1>2 DEF FromRenamings
  <2>2. names.object \in Seq(Chars) /\ WithoutQuotes(names.object)
    BY QueryBuilderAssumption DEF PlainSettings
  <2>3. QuoteObject(known, name, qualify) = Qualified(names.object)
    BY <1>2, <2>1 DEF QuoteObject
  <2>4. QED  BY <2>2, <2>3, QualifiedClean
<1>3. CASE name[1] # "dq" /\ name \notin DOMAIN known
  <2>1. WithoutQuotes(name)  BY <1>3
  <2>2. QuoteObject(known, name, qualify) = IF qualify THEN Qualified(name) ELSE InQuotes(name)
    BY <1>3 DEF QuoteObject
  <2>3. QED  BY <2>1, <2>2, QualifiedClean, QuotesClean
<1>4. QED  BY <1>1, <1>2, <1>3

LEMMA AfterReadable ==
  ASSUME NEW u \in Units, NEW last \in BOOLEAN, Readable(u, last), ~Nameless(u),
         u.kind # "subscript", PlainSettings, NEW known, FromRenamings(known),
         u.kind \in {"name", "table"} =>
           WithoutQuotes(u.text) \/ (Quoted(u.text) /\ u.text[1] = "dq")
  PROVE  AfterPreparing(u, known) \in Units /\ Readable(AfterPreparing(u, known), last)
<1>1. /\ u.text \in Seq(Chars)
      /\ u.kind \in {"text", "param", "name", "table"}
  BY DEF Units
<1>2. CASE u.kind \in {"text", "param"}
  <2>1. AfterPreparing(u, known) = u  BY <1>2 DEF AfterPreparing
  <2>2. QED  BY <2>1, Zenon
<1>3. CASE u.kind \in {"name", "table"}
  <2> DEFINE text == QuoteObject(known, u.text, IF u.kind = "table" THEN TRUE ELSE FALSE)
  <2>1. u.text # <<>>
    <3>1. CASE u.kind = "name"
      <4>1. ~Only(u.text, Digits)  BY <3>1 DEF Readable, WellWritten
      <4>2. Only(<<>>, Digits)  BY DEF Only
      <4>3. QED  BY <4>1, <4>2
    <3>2. CASE u.kind = "table"  BY <3>2 DEF Nameless
    <3>3. QED  BY <1>3, <3>1, <3>2
  <2>2. Clean(text) /\ text \in Seq(Chars) /\ text # <<>>
    BY <1>1, <1>3, <2>1, NameClean
  <2>3. AfterPreparing(u, known) = [kind |-> "text", text |-> text]
    BY <1>3 DEF AfterPreparing
  <2> HIDE DEF text
  <2>4. [kind |-> "text", text |-> text] \in Units  BY <2>2 DEF Units
  <2>5. Readable([kind |-> "text", text |-> text], last)
    BY <2>2 DEF Readable, Clean
  <2>6. QED  BY <2>3, <2>4, <2>5, Zenon
<1>4. QED  BY <1>1, <1>2, <1>3

LEMMA PreparedReadable ==
  ASSUME TypeOK, KeptTwice(asked), NEW known, FromRenamings(known),
         \A j \in DOMAIN asked : ~Nameless(asked[j])
  PROVE  AllReadable(Prepared(asked, known))
<1>1. asked \in Seq(Units) /\ \A i \in DOMAIN asked : Readable(asked[i], i = Len(asked))
  BY AskedReadable, Zenon DEF AllReadable
<1> DEFINE after == Prepared(asked, known)
<1>2. ASSUME NEW i \in DOMAIN asked
      PROVE  /\ AfterPreparing(asked[i], known) \in Units
             /\ Readable(AfterPreparing(asked[i], known), i = Len(asked))
  <2>1. asked[i] \in Units /\ ~Nameless(asked[i])  BY <1>1
  <2>2. Readable(asked[i], i = Len(asked))  BY <1>1, Zenon
  <2>3. /\ asked[i].kind # "subscript" /\ PlainSettings
        /\ asked[i].kind \in {"name", "table"} =>
             \/ WithoutQuotes(asked[i].text)
             \/ Quoted(asked[i].text) /\ asked[i].text[1] = "dq"
    BY DEF KeptTwice, Kept, WellNamed
  <2>4. (i = Len(asked)) \in BOOLEAN  OBVIOUS
  <2>5. QED  BY <2>1, <2>2, <2>3, <2>4, AfterReadable, Zenon
<1>3. DOMAIN after = DOMAIN asked /\ DOMAIN asked = 1..Len(asked) /\ Len(asked) \in Nat
  BY <1>1 DEF Prepared
<1>4. after \in Seq(Units) /\ Len(after) = Len(asked)
  <2>1. after = [i \in 1..Len(asked) |-> AfterPreparing(asked[i], known)]  BY <1>3 DEF Prepared
  <2> HIDE DEF after
  <2>2. \A i \in 1..Len(asked) : AfterPreparing(asked[i], known) \in Units  BY <1>2, <1>3
  <2>3. QED  BY <1>3, <2>1, <2>2
<1>5. ASSUME NEW i \in DOMAIN after PROVE Readable(after[i], i = Len(after))
  <2>1. i \in DOMAIN asked /\ after[i] = AfterPreparing(asked[i], known)  BY <1>3 DEF Prepared
  <2>2. Readable(AfterPreparing(asked[i], known), i = Len(asked))  BY <1>2, <2>1, Zenon
  <2>3. QED  BY <1>4, <2>1, <2>2, Zenon
<1> HIDE DEF after
<1>6. QED  BY <1>4, <1>5, Zenon DEF AllReadable, after

-----------------------------------------------------------------------------
(* Where the scanner stands. *)
LEMMA InFacts ==
  ASSUME NEW units \in Seq(Units)
  PROVE  /\ In(units) \in Seq(Seq(Chars)) /\ Len(In(units)) = Len(units)
         /\ \A i \in 1..Len(units) : In(units)[i] = Written(units[i])
         /\ Text(units) = FlattenSeq(In(units))
<1>1. In(units) \in Seq(Seq(Chars))  BY TextType DEF In
<1>2. DOMAIN units = 1..Len(units) /\ Len(units) \in Nat  OBVIOUS
<1>3. DOMAIN In(units) = 1..Len(units)  BY <1>2 DEF In
<1>4. Len(In(units)) = Len(units)  BY <1>1, <1>2, <1>3
<1>5. QED  BY <1>1, <1>2, <1>4 DEF In, Text

LEMMA Here ==
  ASSUME NEW units \in Seq(Units), query = Text(units), NEW k \in 1..Len(units),
         NEW d \in Nat, d <= Len(Written(units[k])), e = Len(Joined(In(units), k - 1)) + d + 1
  PROVE  /\ Len(Written(units[k])) \in Nat
         /\ e - d - 1 \in Nat /\ e - d - 1 + Len(Written(units[k])) <= Len(query)
         /\ \A c \in 1..Len(Written(units[k])) : query[e - d - 1 + c] = Written(units[k])[c]
         /\ Len(Joined(In(units), k)) = e - d - 1 + Len(Written(units[k]))
<1> DEFINE seqs == In(units)
<1>1. seqs \in Seq(Seq(Chars)) /\ Len(seqs) = Len(units) /\ seqs[k] = Written(units[k])
      /\ query = FlattenSeq(seqs)
  BY InFacts
<1> HIDE DEF seqs
<1>2. k \in 1..Len(seqs) /\ k - 1 \in 0..Len(seqs)  BY <1>1
<1>3. /\ Len(Joined(seqs, k)) = Len(Joined(seqs, k - 1)) + Len(seqs[k])
      /\ Len(Joined(seqs, k)) <= Len(FlattenSeq(seqs))
      /\ \A c \in 1..Len(seqs[k]) :
           FlattenSeq(seqs)[Len(Joined(seqs, k - 1)) + c] = seqs[k][c]
  BY <1>1, <1>2, JoinedPlace
<1>4. Joined(seqs, k - 1) \in Seq(Chars) /\ seqs[k] \in Seq(Chars)
  BY <1>1, <1>2, JoinedType
<1>5. Len(Joined(seqs, k - 1)) \in Nat /\ Len(seqs[k]) \in Nat  BY <1>4
<1>6. e - d - 1 = Len(Joined(seqs, k - 1))  BY <1>5 DEF seqs
<1>7. QED  BY <1>1, <1>3, <1>5, <1>6 DEF seqs

LEMMA AtTheEnd ==
  ASSUME NEW units \in Seq(Units), query = Text(units)
  PROVE  Len(Joined(In(units), Len(units))) = Len(query)
  BY InFacts, JoinedAll

(* What the units are written as. *)
LEMMA Enclosed ==
  ASSUME NEW text \in Seq(Chars), NEW x \in Chars, NEW y \in Chars,
         NEW w, w = <<x>> \o text \o <<y>>
  PROVE  /\ Len(w) = Len(text) + 2 /\ w[1] = x /\ w[Len(text) + 2] = y
         /\ \A c \in 1..Len(text) : w[c + 1] = text[c]
<1> DEFINE v == <<x>> \o text
<1>1. /\ v \in Seq(Chars) /\ Len(v) = Len(text) + 1 /\ v[1] = x /\ Len(text) \in Nat
      /\ \A c \in 1..Len(text) : v[c + 1] = text[c]
  OBVIOUS
<1> HIDE DEF v
<1>2. /\ Len(v \o <<y>>) = Len(text) + 2 /\ (v \o <<y>>)[Len(text) + 2] = y
      /\ \A c \in 1..Len(v) : (v \o <<y>>)[c] = v[c]
  BY <1>1
<1>3. QED  BY <1>1, <1>2 DEF v

LEMMA WrittenFacts ==
  ASSUME NEW u \in Units
  PROVE  /\ u.text \in Seq(Chars) /\ Len(u.text) \in Nat
         /\ u.kind = "text" => Written(u) = u.text
         /\ u.kind = "param" => Written(u) = <<"qm">>
         /\ u.kind \in {"name", "table", "subscript"} =>
              /\ Len(Written(u)) = Len(u.text) + 2
              /\ Written(u)[1] = IF u.kind = "table" THEN "lc" ELSE "lb"
              /\ \A c \in 1..Len(u.text) : Written(u)[c + 1] = u.text[c]
              /\ Written(u)[Len(u.text) + 2] = IF u.kind = "table" THEN "rc" ELSE "rb"
<1> DEFINE text == u.text
           w == Written(u)
           x == IF u.kind = "table" THEN "lc" ELSE "lb"
           y == IF u.kind = "table" THEN "rc" ELSE "rb"
<1>1. text \in Seq(Chars) /\ Len(text) \in Nat  BY DEF Units
<1>2. (u.kind = "text" => w = text) /\ (u.kind = "param" => w = <<"qm">>)
  BY DEF Written
<1>3. ASSUME u.kind \in {"name", "table", "subscript"}
      PROVE  /\ Len(w) = Len(text) + 2 /\ w[1] = x /\ w[Len(text) + 2] = y
             /\ \A c \in 1..Len(text) : w[c + 1] = text[c]
  <2>1. w = <<x>> \o text \o <<y>>  BY <1>3 DEF Written
  <2>2. x \in Chars /\ y \in Chars  BY DEF Chars, Openers
  <2> HIDE DEF w, x, y, text
  <2>3. QED  BY <1>1, <2>1, <2>2, Enclosed
<1>4. QED  BY <1>1, <1>2, <1>3

(* What the scanner makes of them; a placeholder without a parameter is    *)
(* given a value here that is never used.                                  *)
AnySymbol == Symbols \cup {quote[array[j]] : j \in Nat}

LEMMA OutFacts ==
  ASSUME TypeOK, NEW units \in Seq(Units)
  PROVE  /\ Out(units) \in Seq(Seq(AnySymbol)) /\ Len(Out(units)) = Len(units)
         /\ \A i \in 1..Len(units) : Out(units)[i] = Becomes(units, i)
<1>1. ASSUME NEW i \in 1..Len(units) PROVE Becomes(units, i) \in Seq(AnySymbol)
  <2> DEFINE u == units[i]
  <2>1. /\ u \in Units /\ u.text \in Seq(Chars)
        /\ u.kind \in {"text", "param", "name", "table", "subscript"}
    <3>1. units[i] \in Units  OBVIOUS
    <3>2. QED  BY <3>1 DEF Units
  <2>2. \A a \in DOMAIN aliases : aliases[a] \in Seq(Chars)  BY DEF TypeOK
  <2>3. /\ QuoteObject(aliases, u.text, FALSE) \in Seq(Chars)
        /\ QuoteObject(aliases, u.text, TRUE) \in Seq(Chars)
    BY <2>1, <2>2, QuotedName
  <2>4. Chars \subseteq AnySymbol /\ "qm" \in AnySymbol /\ "lb" \in AnySymbol
    BY CharsAreSymbols DEF AnySymbol, Chars, Openers
  <2>5. \A x : x \in Seq(Chars) => x \in Seq(AnySymbol)  BY <2>4, Wider
  <2>6. CASE u.kind = "param"
    <3>1. Needed(units, i) \in Nat  BY NeededFacts
    <3>2. quote[array[Needed(units, i)]] \in AnySymbol  BY <3>1 DEF AnySymbol
    <3>3. QED  BY <2>4, <2>6, <3>2 DEF Becomes
  <2>7. CASE u.kind = "subscript"
    <3>1. <<"lb">> \in Seq(AnySymbol) /\ u.text \in Seq(AnySymbol)  BY <2>1, <2>4, <2>5
    <3>2. <<"lb">> \o u.text \in Seq(AnySymbol)  BY <3>1
    <3>3. QED  BY <2>7, <3>2 DEF Becomes
  <2>8. CASE u.kind \in {"text", "name", "table"}
    BY <2>1, <2>3, <2>5, <2>8 DEF Becomes
  <2>9. QED  BY <2>1, <2>6, <2>7, <2>8
<1>2. Out(units) = [i \in 1..Len(units) |-> Becomes(units, i)] /\ Len(units) \in Nat
  BY DEF Out
<1> HIDE DEF Out
<1>3. QED  BY <1>1, <1>2

LEMMA OutStep ==
  ASSUME TypeOK, NEW units \in Seq(Units), NEW k \in 1..Len(units)
  PROVE  /\ Joined(Out(units), k) = Joined(Out(units), k - 1) \o Becomes(units, k)
         /\ Joined(Out(units), k - 1) \in Seq(AnySymbol) /\ Becomes(units, k) \in Seq(AnySymbol)
<1> DEFINE seqs == Out(units)
<1>1. seqs \in Seq(Seq(AnySymbol)) /\ Len(seqs) = Len(units) /\ seqs[k] = Becomes(units, k)
  BY OutFacts
<1> HIDE DEF seqs
<1>2. k \in 1..Len(seqs) /\ k - 1 \in 0..Len(seqs)  BY <1>1
<1>3. Joined(seqs, k) = Joined(seqs, k - 1) \o seqs[k]  BY <1>1, <1>2, JoinedStep
<1>4. Joined(seqs, k - 1) \in Seq(AnySymbol) /\ seqs[k] \in Seq(AnySymbol)
  BY <1>1, <1>2, JoinedType
<1>5. QED  BY <1>1, <1>3, <1>4 DEF seqs

-----------------------------------------------------------------------------
(* The places at which a character may be read. *)
TextAt(units, k, d) ==
  /\ Position(units, k, d) /\ k <= Len(units)
  /\ units[k].kind = "text" /\ d < Len(units[k].text) /\ Char = units[k].text[d + 1]
  /\ FlushedText = Joined(Out(units), k - 1) \o SubSeq(units[k].text, 1, d)
  /\ \E inside : /\ Track(units[k].text, inside) /\ q = inside[d]
                 /\ k = Len(units) \/ inside[Len(units[k].text)] = "none"

BeforeAt(units, k) ==
  /\ Position(units, k, 0) /\ k <= Len(units)
  /\ q = "none" /\ FlushedText = Joined(Out(units), k - 1)

ParamAt(units, k) ==
  BeforeAt(units, k) /\ units[k].kind = "param" /\ Char = "qm"

OpeningAt(units, k) ==
  /\ BeforeAt(units, k) /\ units[k].kind \in {"name", "table", "subscript"}
  /\ Char = IF units[k].kind = "table" THEN "lc" ELSE "lb"

BracketsAt(units, k, d) ==
  /\ Position(units, k, d) /\ k <= Len(units) /\ InBrackets(units[k], d)
  /\ ret = Joined(Out(units), k - 1)

WithinAt(units, k, d) ==
  /\ BracketsAt(units, k, d) /\ d <= Len(units[k].text)
  /\ Char = units[k].text[d] /\ Char \notin Ends(q)

ClosingAt(units, k, d) ==
  /\ BracketsAt(units, k, d) /\ d = Len(units[k].text) + 1
  /\ Char = IF units[k].kind = "table" THEN "rc" ELSE "rb"

LEMMA Places ==
  ASSUME TypeOK, Scanning, NEW units, AllReadable(units), query = Text(units),
         NEW k \in Nat, NEW d \in Nat, Reading(units, k, d)
  PROVE  \/ TextAt(units, k, d)
         \/ d = 0 /\ (ParamAt(units, k) \/ OpeningAt(units, k))
         \/ WithinAt(units, k, d) \/ ClosingAt(units, k, d)
<1>1. units \in Seq(Units) /\ Len(units) \in Nat  BY DEF AllReadable
<1>2. Position(units, k, d) /\ k \in 1..Len(units) + 1 /\ e = Len(Joined(In(units), k - 1)) + d + 1
  BY DEF Reading, Position
<1>3. e <= Len(query) /\ Len(query) \in Nat  BY Ranges DEF Scanning, TypeOK
<1>4. k # Len(units) + 1
  <2> SUFFICES ASSUME k = Len(units) + 1 PROVE FALSE  OBVIOUS
  <2>1. e = Len(query) + d + 1  BY <1>1, <1>2, AtTheEnd
  <2>2. QED  BY <2>1, <1>3
<1>5. k \in 1..Len(units) /\ k <= Len(units)  BY <1>1, <1>2, <1>4
<1> DEFINE u == units[k]
           w == Written(u)
<1>6. u \in Units /\ Readable(u, k = Len(units))
  <2>1. u \in Units  BY <1>1, <1>5
  <2>2. k \in DOMAIN units  BY <1>1, <1>5
  <2>3. Readable(units[k], k = Len(units))  BY <2>2, Zenon DEF AllReadable
  <2>4. QED  BY <2>1, <2>3, Zenon
<1>7. /\ u.text \in Seq(Chars) /\ Len(u.text) \in Nat
      /\ u.kind = "text" => w = u.text
      /\ u.kind = "param" => w = <<"qm">>
      /\ u.kind \in {"name", "table", "subscript"} =>
           /\ Len(w) = Len(u.text) + 2 /\ w[1] = IF u.kind = "table" THEN "lc" ELSE "lb"
           /\ \A c \in 1..Len(u.text) : w[c + 1] = u.text[c]
           /\ w[Len(u.text) + 2] = IF u.kind = "table" THEN "rc" ELSE "rb"
  BY <1>6, WrittenFacts
<1>8. d < Len(w) => Char = w[d + 1]
  <2> SUFFICES ASSUME d < Len(w) PROVE Char = w[d + 1]  OBVIOUS
  <2>1. Len(w) \in Nat
    <3>1. u.kind \in {"text", "param", "name", "table", "subscript"}  BY <1>6 DEF Units
    <3> HIDE DEF w, u
    <3>2. QED  BY <1>7, <3>1
  <2>2. d <= Len(w) /\ d + 1 \in 1..Len(w)  BY <2>1
  <2>3. \A c \in 1..Len(w) : query[e - d - 1 + c] = w[c]
    BY <1>1, <1>2, <1>5, <2>2, Here
  <2>4. e \in Nat /\ e - d - 1 + (d + 1) = e  BY Ranges DEF TypeOK
  <2>5. query[e - d - 1 + (d + 1)] = w[d + 1]  BY <2>2, <2>3
  <2>6. QED  BY <2>4, <2>5 DEF Char
<1>9. CASE d = 0 /\ q = "none" /\ FlushedText = Joined(Out(units), k - 1)
  <2>1. BeforeAt(units, k)  BY <1>2, <1>5, <1>9 DEF BeforeAt
  <2>2. CASE u.kind = "text"
    <3>1. /\ u.text # <<>>
          /\ \E inside : /\ Track(u.text, inside)
                         /\ k = Len(units) \/ inside[Len(u.text)] = "none"
      BY <1>6, <2>2, Zenon DEF Readable
    <3>2. Len(u.text) > 0 /\ Char = u.text[d + 1]  BY <1>7, <1>8, <1>9, <2>2, <3>1
    <3>3. Joined(Out(units), k - 1) \o SubSeq(u.text, 1, d) = Joined(Out(units), k - 1)
      <4> DEFINE before == Joined(Out(units), k - 1)
      <4>1. before \in Seq(AnySymbol)  BY <1>1, <1>5, OutStep
      <4>2. SubSeq(u.text, 1, d) = <<>>  BY <1>7, <1>9
      <4> HIDE DEF before
      <4>3. before \o <<>> = before  BY <4>1
      <4>4. QED  BY <4>2, <4>3 DEF before
    <3>4. \E inside : /\ Track(u.text, inside) /\ q = inside[d]
                      /\ k = Len(units) \/ inside[Len(u.text)] = "none"
      <4>1. PICK inside : Track(u.text, inside) /\ (k = Len(units) \/ inside[Len(u.text)] = "none")
        BY <3>1
      <4>2. inside[0] = "none"  BY <4>1 DEF Track
      <4>3. q = inside[d]  BY <1>9, <4>2
      <4>4. QED  BY <4>1, <4>3
    <3>5. d < Len(u.text)  BY <1>9, <3>2
    <3>6. FlushedText = Joined(Out(units), k - 1) \o SubSeq(u.text, 1, d)  BY <1>9, <3>3
    <3>7. QED  BY <1>2, <1>5, <2>2, <3>2, <3>4, <3>5, <3>6, Zenon DEF TextAt
  <2>3. CASE u.kind = "param"
    <3>1. w = <<"qm">>  BY <1>7, <2>3
    <3> HIDE DEF w
    <3>2. Len(w) = 1 /\ w[1] = "qm"  BY <3>1
    <3>3. Char = "qm"  BY <1>8, <1>9, <3>2
    <3>4. QED  BY <1>9, <2>1, <2>3, <3>3 DEF ParamAt
  <2>4. CASE u.kind \in {"name", "table", "subscript"}
    <3>1. Char = IF u.kind = "table" THEN "lc" ELSE "lb"  BY <1>7, <1>8, <1>9, <2>4
    <3>2. QED  BY <1>9, <2>1, <2>4, <3>1 DEF OpeningAt
  <2>5. QED  BY <1>6, <2>2, <2>3, <2>4 DEF Units
<1>10. CASE /\ InText(u, k = Len(units), d)
            /\ FlushedText = Joined(Out(units), k - 1) \o SubSeq(u.text, 1, d)
  <2>1. PICK inside : /\ Track(u.text, inside) /\ q = inside[d]
                      /\ k = Len(units) \/ inside[Len(u.text)] = "none"
                      /\ d = Len(u.text) => inside[d] # "none"
    BY <1>10, Zenon DEF InText
  <2>2. u.kind = "text" /\ d \in 1..Len(u.text)  BY <1>10, Zenon DEF InText
  <2>3. d # Len(u.text)
    <3> SUFFICES ASSUME d = Len(u.text) PROVE FALSE  OBVIOUS
    <3>1. k = Len(units)  BY <2>1
    <3>2. d <= Len(w)  BY <1>7, <2>2
    <3>3. Len(Joined(In(units), k)) = e - d - 1 + Len(w)
      BY <1>1, <1>2, <1>5, <3>2, Here
    <3>4. Len(Joined(In(units), k)) = Len(query)  BY <1>1, <3>1, AtTheEnd
    <3>5. e \in Nat  BY Ranges DEF TypeOK
    <3>6. Len(w) = d  BY <1>7, <2>2
    <3>7. QED  BY <1>3, <3>3, <3>4, <3>5, <3>6
  <2>4. d < Len(u.text)  BY <1>7, <2>2, <2>3
  <2>5. Char = u.text[d + 1]  BY <1>7, <1>8, <2>2, <2>4
  <2>6. QED  BY <1>2, <1>5, <1>10, <2>1, <2>2, <2>4, <2>5, Zenon DEF TextAt
<1>11. CASE InBrackets(u, d) /\ ret = Joined(Out(units), k - 1)
  <2>1. /\ u.kind \in {"name", "table", "subscript"} /\ d \in 1..Len(u.text) + 1
        /\ q = IF u.kind = "table" THEN "lc" ELSE "lb"
    BY <1>11 DEF InBrackets
  <2>2. BracketsAt(units, k, d)  BY <1>2, <1>5, <1>11 DEF BracketsAt
  <2>3. CASE d <= Len(u.text)
    <3>1. Char = u.text[d]
      <4>1. d < Len(w) /\ d \in 1..Len(u.text)  BY <1>7, <2>1, <2>3
      <4>2. QED  BY <1>7, <1>8, <2>1, <4>1
    <3>2. u.text[d] \notin Ends(q)
      <4>1. d \in DOMAIN u.text  BY <1>7, <2>1, <2>3
      <4>2. WellWritten(u, k = Len(units))  BY <1>6, <2>1, Zenon DEF Readable
      <4>3. CASE u.kind = "table"
        <5>1. Only(u.text, Chars \ Ends("lc"))  BY <4>2, <4>3 DEF WellWritten
        <5>2. QED  BY <2>1, <4>1, <4>3, <5>1 DEF Only
      <4>4. CASE u.kind = "name"
        <5>1. Only(u.text, Chars \ Ends("lb"))  BY <4>2, <4>4 DEF WellWritten
        <5>2. QED  BY <2>1, <4>1, <4>4, <5>1 DEF Only
      <4>5. CASE u.kind = "subscript"
        <5>1. Only(u.text, Digits)  BY <4>2, <4>5 DEF WellWritten
        <5>2. u.text[d] \in Digits  BY <4>1, <5>1 DEF Only
        <5>3. Ends("lb") = {"lb", "rb"}  BY DEF Ends
        <5>4. QED  BY <2>1, <4>5, <5>2, <5>3, CharactersAssumption DEF Openers
      <4>6. QED  BY <2>1, <4>3, <4>4, <4>5
    <3>3. QED  BY <2>2, <2>3, <3>1, <3>2 DEF WithinAt
  <2>4. CASE ~(d <= Len(u.text))
    <3>1. d = Len(u.text) + 1  BY <1>7, <2>1, <2>4
    <3>2. Char = IF u.kind = "table" THEN "rc" ELSE "rb"
      <4>1. d < Len(w) /\ d + 1 = Len(u.text) + 2  BY <1>7, <2>1, <3>1
      <4>2. QED  BY <1>7, <1>8, <2>1, <4>1
    <3>3. QED  BY <2>2, <3>1, <3>2 DEF ClosingAt
  <2>5. QED  BY <2>3, <2>4
<1>12. QED  BY <1>5, <1>9, <1>10, <1>11, Zenon DEF Reading

-----------------------------------------------------------------------------
(* Sequences. *)
LEMMA OneMore ==
  ASSUME NEW S, NEW x \in Seq(S), NEW i \in Nat \ {0}, NEW j \in Nat, i <= j + 1, j < Len(x)
  PROVE  SubSeq(x, i, j + 1) = Append(SubSeq(x, i, j), x[j + 1])
<1> DEFINE a == SubSeq(x, i, j + 1)
           b == Append(SubSeq(x, i, j), x[j + 1])
<1>1. a \in Seq(S) /\ b \in Seq(S) /\ Len(a) = j + 2 - i /\ Len(b) = j + 2 - i
  OBVIOUS
<1>2. \A c \in 1..j + 2 - i : a[c] = b[c]  OBVIOUS
<1> HIDE DEF a, b
<1>3. a = b  BY <1>1, <1>2
<1>4. QED  BY <1>3 DEF a, b

LEMMA OneOrNone ==
  ASSUME NEW S, NEW x \in Seq(S), NEW i \in Nat \ {0}
  PROVE  /\ SubSeq(x, i, i - 1) = <<>>
         /\ i <= Len(x) => SubSeq(x, i, i) = <<x[i]>>
<1>1. SubSeq(x, i, i - 1) = <<>>
  <2> DEFINE a == SubSeq(x, i, i - 1)
  <2>1. a \in Seq(S) /\ Len(a) = 0  OBVIOUS
  <2> HIDE DEF a
  <2>2. a = <<>>  BY <2>1
  <2>3. QED  BY <2>2 DEF a
<1>2. ASSUME i <= Len(x) PROVE SubSeq(x, i, i) = <<x[i]>>
  <2> DEFINE a == SubSeq(x, i, i)
             b == <<x[i]>>
  <2>1. a \in Seq(S) /\ Len(a) = 1 /\ a[1] = x[i]  BY <1>2
  <2>2. b \in Seq(S) /\ Len(b) = 1 /\ b[1] = x[i]  BY <1>2
  <2> HIDE DEF a, b
  <2>3. a = b  BY <2>1, <2>2
  <2>4. QED  BY <2>3 DEF a, b
<1>3. QED  BY <1>1, <1>2

LEMMA PartIs ==
  ASSUME NEW S, NEW x \in Seq(S), NEW y \in Seq(S), NEW i \in Nat \ {0}, NEW j \in Nat,
         j + 1 = i + Len(y), j <= Len(x), \A c \in 1..Len(y) : x[i + c - 1] = y[c]
  PROVE  SubSeq(x, i, j) = y
<1> DEFINE a == SubSeq(x, i, j)
<1>1. a \in Seq(S) /\ Len(a) = Len(y) /\ \A c \in 1..Len(y) : a[c] = x[i + c - 1]
  OBVIOUS
<1> HIDE DEF a
<1>2. a = y  BY <1>1
<1>3. QED  BY <1>2 DEF a

(* Two ways to put an element after two sequences, named because the       *)
(* provers apply the lemma only when it speaks of names.                   *)
WholeThenLast(whole, x, y, v) == whole = Append(x \o y, v)
FrontThenRest(whole, x, y, v) == whole = x \o Append(y, v)

LEMMA AppendLast ==
  ASSUME NEW S, NEW x \in Seq(S), NEW y \in Seq(S), NEW v \in S, NEW whole
  PROVE  WholeThenLast(whole, x, y, v) <=> FrontThenRest(whole, x, y, v)
<1> DEFINE a == Append(x \o y, v)
           b == x \o Append(y, v)
<1>1. /\ a \in Seq(S) /\ b \in Seq(S)
      /\ Len(a) = Len(x) + Len(y) + 1 /\ Len(b) = Len(x) + Len(y) + 1
  OBVIOUS
<1>2. \A c \in 1..Len(x) + Len(y) + 1 : a[c] = b[c]  OBVIOUS
<1> HIDE DEF a, b
<1>3. a = b  BY <1>1, <1>2
<1>4. QED  BY <1>3 DEF a, b, WholeThenLast, FrontThenRest

-----------------------------------------------------------------------------
(* From one place to the next.  The scanner's arguments stay as they are,  *)
(* and with them what the units become.                                    *)
LEMMA OutStays ==
  ASSUME NEW units, UNCHANGED <<task, aliases, array>>
  PROVE  Out(units)' = Out(units)
<1>1. \A i \in DOMAIN units : Becomes(units, i)' = Becomes(units, i)
  BY DEF Becomes
<1>2. QED  BY <1>1 DEF Out

LEMMA OutSame ==
  ASSUME NEW units, Same
  PROVE  Out(units)' = Out(units)
<1>1. UNCHANGED <<task, aliases, array>>  BY DEF Same
<1>2. QED  BY <1>1, OutStays

LEMMA PositionNext ==
  ASSUME NEW units, NEW k \in Nat, NEW d \in Nat, NEW m, NEW c \in Nat, Same,
         Position(units, k, d), m \in 1..Len(units) + 1,
         e' = Len(Joined(In(units), m - 1)) + c + 1,
         n' = IF task = "prepare" THEN 0 ELSE Needed(units, m - 1),
         \A j \in 1..m - 1 : ~Nameless(units[j])
  PROVE  Position(units, m, c)'
  BY DEF Position, Same

(* A unit is done. *)
LEMMA UnitDone ==
  ASSUME NEW units, units \in Seq(Units), query = Text(units), Same,
         NEW k \in 1..Len(units), NEW d \in Nat, Position(units, k, d),
         d + 1 = Len(Written(units[k])), e \in Nat, e' = e + 1, q' = "none",
         n' = IF task = "prepare" THEN 0 ELSE Needed(units, k),
         ~Nameless(units[k]),
         FlushedText' = Joined(Out(units), k)
  PROVE  Reading(units, k + 1, 0)'
<1>1. Len(units) \in Nat /\ k \in Nat /\ k + 1 \in 1..Len(units) + 1 /\ (k + 1) - 1 = k
  OBVIOUS
<1>2. e = Len(Joined(In(units), k - 1)) + d + 1  BY DEF Position
<1>3. d <= Len(Written(units[k]))
  <2>1. Written(units[k]) \in Seq(Chars)  BY WrittenType
  <2>2. QED  BY <2>1
<1>4. Len(Joined(In(units), k)) = e - d - 1 + Len(Written(units[k]))
  BY <1>2, <1>3, Here
<1>5. e' = Len(Joined(In(units), (k + 1) - 1)) + 0 + 1  BY <1>1, <1>4
<1>6. \A j \in 1..(k + 1) - 1 : ~Nameless(units[j])
  <2>1. \A j \in 1..k - 1 : ~Nameless(units[j])  BY DEF Position
  <2>2. QED  BY <1>1, <2>1
<1>7. Position(units, k + 1, 0)'  BY <1>1, <1>5, <1>6, PositionNext
<1>8. FlushedText' = Joined(Out(units)', (k + 1) - 1)  BY <1>1, OutSame
<1>9. QED  BY <1>7, <1>8 DEF Reading

(* One more character of text, as it is. *)
LEMMA TextStep ==
  ASSUME TypeOK, NEW units, units \in Seq(Units), query = Text(units), Same,
         NEW k \in 1..Len(units), NEW d \in Nat, Position(units, k, d),
         units[k].kind = "text", d < Len(units[k].text),
         FlushedText = Joined(Out(units), k - 1) \o SubSeq(units[k].text, 1, d),
         NEW inside, Track(units[k].text, inside),
         k = Len(units) \/ inside[Len(units[k].text)] = "none",
         e' = e + 1, n' = n, q' = inside[d + 1],
         FlushedText' = Append(FlushedText, units[k].text[d + 1])
  PROVE  \E m, c \in Nat : Reading(units, m, c)'
<1> DEFINE text == units[k].text
           before == Joined(Out(units), k - 1)
<1>1. units[k] \in Units /\ text \in Seq(Chars) /\ Len(text) \in Nat
      /\ Written(units[k]) = text
  <2>1. units[k] \in Units  OBVIOUS
  <2>2. QED  BY <2>1, WrittenFacts
<1>2. /\ Joined(Out(units), k) = before \o text /\ before \in Seq(AnySymbol)
      /\ text \in Seq(AnySymbol)
  <2>1. Becomes(units, k) = text  BY DEF Becomes
  <2>2. QED  BY <2>1, OutStep
<1>3. e \in Nat /\ e = Len(Joined(In(units), k - 1)) + d + 1
      /\ n = (IF task = "prepare" THEN 0 ELSE Needed(units, k - 1))
  BY Ranges DEF Position, TypeOK
<1>4. FlushedText' = before \o SubSeq(text, 1, d + 1)
  <2>1. SubSeq(text, 1, d + 1) = Append(SubSeq(text, 1, d), text[d + 1])
    <3>1. text \in Seq(Chars) /\ d < Len(text) /\ 1 \in Nat \ {0} /\ 1 <= d + 1  BY <1>1
    <3> HIDE DEF text
    <3>2. QED  BY <3>1, OneMore
  <2>2. SubSeq(text, 1, d) \in Seq(AnySymbol) /\ text[d + 1] \in AnySymbol  BY <1>1, <1>2
  <2>3. FlushedText' = Append(before \o SubSeq(text, 1, d), text[d + 1])  OBVIOUS
  <2> HIDE DEF before, text
  <2>4. Append(before \o SubSeq(text, 1, d), text[d + 1])
          = before \o Append(SubSeq(text, 1, d), text[d + 1])
    <3> DEFINE part == SubSeq(text, 1, d)
               next == text[d + 1]
               whole == Append(before \o part, next)
    <3>1. before \in Seq(AnySymbol) /\ part \in Seq(AnySymbol) /\ next \in AnySymbol  BY <1>2, <2>2
    <3>2. whole = Append(before \o part, next)  OBVIOUS
    <3> HIDE DEF part, next, whole
    <3>3. FrontThenRest(whole, before, part, next)
      BY <3>1, <3>2, AppendLast DEF WholeThenLast
    <3>4. whole = before \o Append(part, next)  BY <3>3 DEF FrontThenRest
    <3>5. QED  BY <3>4 DEF part, next, whole
  <2>5. QED  BY <2>1, <2>3, <2>4
<1>5. CASE d + 1 = Len(text) /\ inside[Len(text)] = "none"
  <2>1. FlushedText' = Joined(Out(units), k)
    <3>1. SubSeq(text, 1, d + 1) = text  BY <1>1, <1>5
    <3>2. QED  BY <1>2, <1>4, <3>1
  <2>2. n' = IF task = "prepare" THEN 0 ELSE Needed(units, k)
    <3>1. Needed(units, (k - 1) + 1) = Needed(units, k - 1) + 0 /\ Needed(units, k - 1) \in Nat
      <4>1. k - 1 \in Nat /\ (k - 1) + 1 = k  OBVIOUS
      <4>2. units[(k - 1) + 1].kind # "param"  BY <4>1
      <4>3. QED  BY <4>1, <4>2, NeededFacts
    <3>2. (k - 1) + 1 = k  OBVIOUS
    <3>3. QED  BY <1>3, <3>1, <3>2
  <2>3. ~Nameless(units[k])  BY DEF Nameless
  <2>4. d + 1 = Len(Written(units[k])) /\ q' = "none"  BY <1>1, <1>5
  <2>5. Reading(units, k + 1, 0)'  BY <1>3, <2>1, <2>2, <2>3, <2>4, UnitDone
  <2>6. k + 1 \in Nat  OBVIOUS
  <2>7. QED  BY <2>5, <2>6
<1>6. CASE ~(d + 1 = Len(text) /\ inside[Len(text)] = "none")
  <2>1. k \in Nat /\ d + 1 \in Nat /\ d + 1 \in 1..Len(text) /\ k <= Len(units)  BY <1>1
  <2>2. Position(units, k, d + 1)'
    <3>1. e' = Len(Joined(In(units), k - 1)) + (d + 1) + 1
      <4>1. Len(Joined(In(units), k - 1)) \in Int
        <5>1. k - 1 \in 0..Len(In(units)) /\ In(units) \in Seq(Seq(Chars))  BY InFacts
        <5>2. Joined(In(units), k - 1) \in Seq(Chars)  BY <5>1, JoinedType
        <5>3. QED  BY <5>2
      <4>2. QED  BY <1>3, <4>1
    <3>2. k \in 1..Len(units) + 1 /\ \A j \in 1..k - 1 : ~Nameless(units[j])
      BY DEF Position
    <3>3. QED  BY <1>3, <2>1, <3>1, <3>2, PositionNext
  <2>3. FlushedText' = Joined(Out(units)', k - 1) \o SubSeq(text, 1, d + 1)
    BY <1>4, OutSame
  <2>4. InText(units[k], k = Len(units), d + 1)'
    <3>1. /\ Track(text, inside) /\ q' = inside[d + 1]
          /\ k = Len(units) \/ inside[Len(text)] = "none"
          /\ d + 1 = Len(text) => inside[d + 1] # "none"
      BY <1>6
    <3>2. QED  BY <2>1, <3>1 DEF InText
  <2>5. Reading(units, k, d + 1)'  BY <2>1, <2>2, <2>3, <2>4 DEF Reading
  <2>6. QED  BY <2>1, <2>5
<1>7. QED  BY <1>5, <1>6

(* One more character of what is in brackets, or the bracket that opens.   *)
LEMMA BracketStep ==
  ASSUME TypeOK, NEW units, units \in Seq(Units), Same,
         NEW k \in 1..Len(units), NEW d \in Nat, Position(units, k, d),
         units[k].kind \in {"name", "table", "subscript"}, d <= Len(units[k].text),
         e' = e + 1, n' = n, q' = (IF units[k].kind = "table" THEN "lc" ELSE "lb"),
         s' = e - d, ret' = Joined(Out(units), k - 1)
  PROVE  \E m, c \in Nat : Reading(units, m, c)'
<1>1. units[k] \in Units /\ Len(units[k].text) \in Nat
  <2>1. units[k] \in Units  OBVIOUS
  <2>2. QED  BY <2>1, WrittenFacts
<1>2. e \in Nat /\ e = Len(Joined(In(units), k - 1)) + d + 1
      /\ n = (IF task = "prepare" THEN 0 ELSE Needed(units, k - 1))
  BY Ranges DEF Position, TypeOK
<1>3. Position(units, k, d + 1)'
  <2>1. e' = Len(Joined(In(units), k - 1)) + (d + 1) + 1
    <3>1. Len(Joined(In(units), k - 1)) \in Int
      <4>1. k - 1 \in 0..Len(In(units)) /\ In(units) \in Seq(Seq(Chars))  BY InFacts
      <4>2. Joined(In(units), k - 1) \in Seq(Chars)  BY <4>1, JoinedType
      <4>3. QED  BY <4>2
    <3>2. QED  BY <1>2, <3>1
  <2>2. k \in 1..Len(units) + 1 /\ \A j \in 1..k - 1 : ~Nameless(units[j])
    BY DEF Position
  <2>3. k \in Nat /\ d + 1 \in Nat  OBVIOUS
  <2>4. QED  BY <1>2, <2>1, <2>2, <2>3, PositionNext
<1>4. s' = e' - (d + 1) /\ d + 1 \in 1..Len(units[k].text) + 1
  <2>1. (e + 1) - (d + 1) = e - d  BY <1>2
  <2>2. QED  BY <1>1, <2>1
<1>5. InBrackets(units[k], d + 1)'  BY <1>4 DEF InBrackets
<1>6. ret' = Joined(Out(units)', k - 1)  BY OutSame
<1>7. k <= Len(units) /\ k \in Nat /\ d + 1 \in Nat  OBVIOUS
<1>8. Reading(units, k, d + 1)'  BY <1>3, <1>5, <1>6, <1>7 DEF Reading
<1>9. QED  BY <1>7, <1>8
-----------------------------------------------------------------------------
(* The text that is pending, after a step. *)
LEMMA FlushedGrows ==
  ASSUME TypeOK, Scanning, Same, e' = e + 1,
         (s' = s /\ ret' = ret) \/ (s' = e /\ ret' = FlushedText)
  PROVE  FlushedText' = Append(FlushedText, Char)
<1>1. /\ s \in Nat \ {0} /\ e \in Nat /\ s <= e /\ e <= Len(query) /\ Len(query) \in Nat
      /\ e - 1 \in Nat /\ (e - 1) + 1 = e
      /\ query \in Seq(Chars) /\ query \in Seq(Symbols) /\ ret \in Seq(Symbols)
  BY Ranges, CharsAreSymbols, Wider DEF TypeOK, Scanning
<1>2. query' = query  BY DEF Same
<1>3. Char \in Symbols  BY <1>1 DEF Char
<1>4. SubSeq(query, s, e - 1) \in Seq(Symbols)  BY <1>1, PartOf
<1>5. CASE s' = s /\ ret' = ret
  <2>1. FlushedText' = ret \o SubSeq(query, s, e)
    <3>1. e' - 1 = e  BY <1>1
    <3>2. QED  BY <1>2, <1>5, <3>1 DEF FlushedText
  <2>2. SubSeq(query, s, (e - 1) + 1) = Append(SubSeq(query, s, e - 1), query[(e - 1) + 1])
    BY <1>1, OneMore
  <2> DEFINE part == SubSeq(query, s, e - 1)
             whole == FlushedText'
             next == Char
  <2>3. whole = ret \o Append(part, next)  BY <1>1, <2>1, <2>2 DEF Char
  <2>4. part \in Seq(Symbols) /\ next \in Symbols  BY <1>3, <1>4
  <2> HIDE DEF part, whole, next
  <2>5. WholeThenLast(whole, ret, part, next)
    BY <1>1, <2>3, <2>4, AppendLast DEF FrontThenRest
  <2>6. whole = Append(ret \o part, next)  BY <2>5 DEF WholeThenLast
  <2>7. QED  BY <2>6 DEF part, whole, next, FlushedText
<1>6. CASE s' = e /\ ret' = FlushedText
  <2> DEFINE flushed == FlushedText
  <2>1. flushed \in Seq(Symbols)  BY <1>1, <1>4 DEF FlushedText
  <2>2. FlushedText' = flushed \o SubSeq(query, e, e)
    <3>1. e' - 1 = e  BY <1>1
    <3>2. FlushedText' = ret' \o SubSeq(query', s', e' - 1)  BY DEF FlushedText
    <3>3. QED  BY <1>2, <1>6, <3>1, <3>2
  <2>3. SubSeq(query, e, e) = <<Char>>
    <3>1. e \in Nat \ {0}  BY <1>1
    <3>2. QED  BY <1>1, <3>1, OneOrNone DEF Char
  <2> HIDE DEF flushed
  <2>4. flushed \o <<Char>> = Append(flushed, Char)  BY <1>3, <2>1
  <2>5. QED  BY <2>2, <2>3, <2>4 DEF flushed
<1>7. QED  BY <1>5, <1>6

LEMMA FlushedAll ==
  ASSUME NEW S, ret' \in Seq(S), s' = e', e' \in Nat \ {0}, query' \in Seq(Chars)
  PROVE  FlushedText' = ret'
<1>1. FlushedText' = ret' \o SubSeq(query', e', e' - 1)  BY DEF FlushedText
<1>2. SubSeq(query', e', e' - 1) = <<>>  BY OneOrNone
<1>3. ret' \o <<>> = ret'  OBVIOUS
<1>4. QED  BY <1>1, <1>2, <1>3

(* Text, character by character. *)
LEMMA TextMoves ==
  ASSUME TypeOK, Scanning, NEW units, AllReadable(units), query = Text(units), Same,
         NEW k \in Nat, NEW d \in Nat, TextAt(units, k, d),
         e' = e + 1, n' = n, FlushedText' = Append(FlushedText, Char),
         q' = IF q = "none" THEN (IF Char \in Openers THEN Char ELSE "none")
              ELSE IF Char = q THEN "none" ELSE q
  PROVE  \E m, c \in Nat : Reading(units, m, c)'
<1> DEFINE text == units[k].text
<1>1. units \in Seq(Units) /\ k \in 1..Len(units)
  BY DEF AllReadable, TextAt, Position
<1>2. units[k] \in Units /\ Len(text) \in Nat
  <2>1. units[k] \in Units  BY <1>1
  <2>2. QED  BY <2>1, WrittenFacts
<1>3. PICK inside : /\ Track(text, inside) /\ q = inside[d]
                    /\ k = Len(units) \/ inside[Len(text)] = "none"
  BY Zenon DEF TextAt
<1>4. /\ Position(units, k, d) /\ units[k].kind = "text" /\ d < Len(text)
      /\ Char = text[d + 1]
      /\ FlushedText = Joined(Out(units), k - 1) \o SubSeq(text, 1, d)
  BY Zenon DEF TextAt
<1>5. q' = inside[d + 1]
  <2>1. d + 1 \in 1..Len(text) /\ (d + 1) - 1 = d
    <3>1. d < Len(text) /\ Len(text) \in Nat  BY <1>2, <1>4
    <3> HIDE DEF text
    <3>2. QED  BY <3>1
  <2>2. \/ /\ inside[d] = "none" /\ text[d + 1] # "qm"
           /\ inside[d + 1] = IF text[d + 1] \in Openers THEN text[d + 1] ELSE "none"
        \/ /\ inside[d] # "none"
           /\ text[d + 1] \notin Ends(inside[d]) \ {inside[d]}
           /\ inside[d + 1] = IF text[d + 1] = inside[d] THEN "none" ELSE inside[d]
    BY <1>3, <2>1 DEF Track
  <2>3. QED  BY <1>3, <1>4, <2>2
<1>6. QED  BY <1>1, <1>3, <1>4, <1>5, TextStep

(* Text holds no placeholder outside of quotes, and no bracket that closes *)
(* what it holds.                                                          *)
LEMMA TextNever ==
  ASSUME NEW units, AllReadable(units), NEW k \in Nat, NEW d \in Nat, TextAt(units, k, d)
  PROVE  ~(q = "none" /\ Char = "qm") /\ ~Closes
<1> DEFINE text == units[k].text
<1>1. units \in Seq(Units) /\ k \in 1..Len(units)
  BY DEF AllReadable, TextAt, Position
<1>2. Len(text) \in Nat
  <2>1. units[k] \in Units  BY <1>1
  <2>2. QED  BY <2>1, WrittenFacts
<1>3. PICK inside : Track(text, inside) /\ q = inside[d]
  BY Zenon DEF TextAt
<1>4. d < Len(text) /\ Char = text[d + 1]  BY Zenon DEF TextAt
<1>5. d + 1 \in 1..Len(text) /\ (d + 1) - 1 = d  BY <1>2, <1>4
<1>6. \/ q = "none" /\ Char # "qm"
      \/ q # "none" /\ Char \notin Ends(q) \ {q}
  BY <1>3, <1>4, <1>5 DEF Track
<1>7. QED  BY <1>6 DEF Closes, Ends
-----------------------------------------------------------------------------
(* What the brackets hold when they close. *)
LEMMA WhatIsHeld ==
  ASSUME TypeOK, Scanning, NEW units, units \in Seq(Units), query = Text(units),
         NEW k \in Nat, NEW d \in Nat, ClosingAt(units, k, d)
  PROVE  /\ k \in 1..Len(units) /\ units[k] \in Units
         /\ Name = units[k].text
         /\ units[k].kind # "table" => SubSeq(query, s, e - 1) = <<"lb">> \o units[k].text
         /\ IsSubscript <=> Only(units[k].text, Digits)
<1> DEFINE text == units[k].text
           w == Written(units[k])
<1>1. k \in 1..Len(units) /\ units[k] \in Units
  BY DEF ClosingAt, BracketsAt, Position
<1>2. /\ units[k].kind \in {"name", "table", "subscript"} /\ d = Len(text) + 1 /\ s = e - d
      /\ e = Len(Joined(In(units), k - 1)) + d + 1
  BY DEF ClosingAt, BracketsAt, InBrackets, Position
<1>3. /\ text \in Seq(Chars) /\ Len(text) \in Nat /\ Len(w) = Len(text) + 2
      /\ w[1] = IF units[k].kind = "table" THEN "lc" ELSE "lb"
      /\ \A c \in 1..Len(text) : w[c + 1] = text[c]
  BY <1>1, <1>2, WrittenFacts
<1>4. /\ s \in Nat \ {0} /\ e \in Nat /\ s <= e /\ e <= Len(query) /\ Len(query) \in Nat
      /\ query \in Seq(Chars)
  BY Ranges DEF TypeOK, Scanning
<1>5. \A c \in 1..Len(w) : query[e - d - 1 + c] = w[c]
  <2>1. d <= Len(w)  BY <1>2, <1>3
  <2> HIDE DEF w, text
  <2>2. QED  BY <1>1, <1>2, <2>1, Here DEF w
<1> HIDE DEF w, text
<1>6. query[s] = w[1] /\ \A c \in 1..Len(text) : query[s + c] = text[c]
  <2>1. query[s] = w[1]
    <3>1. 1 \in 1..Len(w) /\ e - d - 1 + 1 = s  BY <1>2, <1>3, <1>4
    <3>2. QED  BY <1>5, <3>1
  <2>2. ASSUME NEW c \in 1..Len(text) PROVE query[s + c] = text[c]
    <3>1. c + 1 \in 1..Len(w) /\ e - d - 1 + (c + 1) = s + c  BY <1>2, <1>3, <1>4
    <3>2. QED  BY <1>3, <1>5, <3>1
  <2>3. QED  BY <2>1, <2>2
<1>7. e - 1 = s + Len(text) /\ e - 1 \in Nat /\ e - 1 <= Len(query)  BY <1>2, <1>3, <1>4
<1>8. Name = text
  <2>1. \A c \in 1..Len(text) : query[(s + 1) + c - 1] = text[c]
    <3>1. \A c \in 1..Len(text) : (s + 1) + c - 1 = s + c  BY <1>4
    <3>2. QED  BY <1>6, <3>1
  <2>2. (e - 1) + 1 = (s + 1) + Len(text) /\ s + 1 \in Nat \ {0}  BY <1>3, <1>4, <1>7
  <2>3. QED  BY <1>3, <1>4, <1>7, <2>1, <2>2, PartIs DEF Name
<1>9. ASSUME units[k].kind # "table" PROVE SubSeq(query, s, e - 1) = <<"lb">> \o text
  <2> DEFINE y == <<"lb">> \o text
  <2>1. /\ y \in Seq(Chars) /\ Len(y) = Len(text) + 1 /\ y[1] = "lb"
        /\ \A c \in 1..Len(text) : y[c + 1] = text[c]
    <3>1. "lb" \in Chars  BY DEF Chars, Openers
    <3>2. QED  BY <1>3, <3>1
  <2> HIDE DEF y
  <2>2. ASSUME NEW c \in 1..Len(y) PROVE query[s + c - 1] = y[c]
    <3>1. CASE c = 1
      <4>1. s + c - 1 = s  BY <1>4, <3>1
      <4>2. QED  BY <1>3, <1>6, <1>9, <2>1, <3>1, <4>1
    <3>2. CASE c # 1
      <4>1. c - 1 \in 1..Len(text) /\ s + c - 1 = s + (c - 1) /\ (c - 1) + 1 = c
        BY <1>3, <1>4, <2>1, <3>2
      <4>2. y[(c - 1) + 1] = text[c - 1] /\ query[s + (c - 1)] = text[c - 1]
        BY <1>6, <2>1, <4>1
      <4>3. QED  BY <4>1, <4>2
    <3>3. QED  BY <3>1, <3>2
  <2>3. (e - 1) + 1 = s + Len(y)  BY <1>3, <1>4, <1>7, <2>1
  <2>4. SubSeq(query, s, e - 1) = y  BY <1>4, <1>7, <2>1, <2>2, <2>3, PartIs
  <2>5. QED  BY <2>4 DEF y
<1>10. IsSubscript <=> Only(text, Digits)
  <2>1. DOMAIN text = 1..Len(text)  BY <1>3
  <2>2. ASSUME IsSubscript, NEW c \in 1..Len(text) PROVE text[c] \in Digits
    <3>1. s + c \in s + 1..e - 1  BY <1>3, <1>4, <1>7
    <3>2. QED  BY <1>6, <2>2, <3>1 DEF IsSubscript
  <2>3. ASSUME Only(text, Digits), NEW i \in s + 1..e - 1 PROVE query[i] \in Digits
    <3>1. i - s \in 1..Len(text) /\ s + (i - s) = i  BY <1>3, <1>4, <1>7
    <3>2. query[s + (i - s)] = text[i - s] /\ text[i - s] \in Digits
      BY <1>6, <2>1, <2>3, <3>1 DEF Only
    <3>3. QED  BY <3>1, <3>2
  <2>4. QED  BY <2>1, <2>2, <2>3 DEF IsSubscript, Only
<1>11. QED  BY <1>1, <1>8, <1>9, <1>10 DEF text
-----------------------------------------------------------------------------
(* One lemma for each action of the loop: it moves the scanner to the next *)
(* position, or ends the call as it may.                                   *)
LEMMA CountUnit ==
  ASSUME NEW units, NEW k \in Nat \ {0}
  PROVE  /\ Needed(units, k - 1) \in Nat
         /\ Needed(units, k) =
              Needed(units, k - 1) + (IF units[k].kind = "param" THEN 1 ELSE 0)
<1>1. k - 1 \in Nat /\ (k - 1) + 1 = k  OBVIOUS
<1> DEFINE j == k - 1
<1>2. j \in Nat /\ j + 1 = k  BY <1>1
<1> HIDE DEF j
<1>3. Needed(units, j) \in Nat /\ Needed(units, j + 1) =
        Needed(units, j) + (IF units[j + 1].kind = "param" THEN 1 ELSE 0)
  BY <1>2, NeededFacts
<1>4. QED  BY <1>2, <1>3 DEF j

LEMMA CloseQuoteMoves ==
  ASSUME TypeOK, NEW units, AllReadable(units), query = Text(units),
         NEW k \in Nat, NEW d \in Nat, Reading(units, k, d), CloseQuote
  PROVE  \E m, c \in Nat : Reading(units, m, c)'
<1>1. /\ Scanning /\ Same /\ q # "none" /\ Char = q /\ e' = e + 1 /\ s' = s /\ q' = "none"
      /\ n' = n /\ ret' = ret
  BY DEF CloseQuote, Advance
<1>2. CASE TextAt(units, k, d)
  <2>1. FlushedText' = Append(FlushedText, Char)  BY <1>1, FlushedGrows
  <2>2. QED  BY <1>1, <1>2, <2>1, TextMoves
<1>3. ~ParamAt(units, k) /\ ~OpeningAt(units, k)
  BY <1>1 DEF ParamAt, OpeningAt, BeforeAt
<1>4. ~WithinAt(units, k, d)  BY <1>1 DEF WithinAt, Ends
<1>5. ~ClosingAt(units, k, d)  BY <1>1 DEF ClosingAt, BracketsAt, InBrackets
<1>6. QED  BY <1>1, <1>2, <1>3, <1>4, <1>5, Places

LEMMA InsideQuoteMoves ==
  ASSUME TypeOK, NEW units, AllReadable(units), query = Text(units),
         NEW k \in Nat, NEW d \in Nat, Reading(units, k, d), InsideQuote
  PROVE  \E m, c \in Nat : Reading(units, m, c)'
<1>1. /\ Scanning /\ Same /\ q # "none" /\ Char # q /\ ~Closes
      /\ e' = e + 1 /\ s' = s /\ q' = q /\ n' = n /\ ret' = ret
  BY DEF InsideQuote, Advance
<1>2. CASE TextAt(units, k, d)
  <2>1. FlushedText' = Append(FlushedText, Char)  BY <1>1, FlushedGrows
  <2>2. QED  BY <1>1, <1>2, <2>1, TextMoves
<1>3. ~ParamAt(units, k) /\ ~OpeningAt(units, k)
  BY <1>1 DEF ParamAt, OpeningAt, BeforeAt
<1>4. CASE WithinAt(units, k, d)
  <2>1. /\ Position(units, k, d) /\ k <= Len(units) /\ d <= Len(units[k].text)
        /\ units[k].kind \in {"name", "table", "subscript"} /\ s = e - d
        /\ q = (IF units[k].kind = "table" THEN "lc" ELSE "lb")
        /\ ret = Joined(Out(units), k - 1)
    BY <1>4 DEF WithinAt, BracketsAt, InBrackets
  <2>2. units \in Seq(Units) /\ k \in 1..Len(units)  BY <2>1 DEF AllReadable, Position
  <2>3. QED  BY <1>1, <2>1, <2>2, BracketStep
<1>5. ~ClosingAt(units, k, d)
  BY <1>1 DEF ClosingAt, BracketsAt, InBrackets, Closes
<1>6. QED  BY <1>1, <1>2, <1>3, <1>4, <1>5, Places

LEMMA OpenQuoteMoves ==
  ASSUME TypeOK, NEW units, AllReadable(units), query = Text(units),
         NEW k \in Nat, NEW d \in Nat, Reading(units, k, d), OpenQuote
  PROVE  \E m, c \in Nat : Reading(units, m, c)'
<1>1. /\ Scanning /\ Same /\ q = "none" /\ Char \in Openers /\ ret' = FlushedText
      /\ e' = e + 1 /\ s' = e /\ q' = Char /\ n' = n
  BY DEF OpenQuote, Opens, Advance
<1>2. CASE TextAt(units, k, d)
  <2>1. FlushedText' = Append(FlushedText, Char)  BY <1>1, FlushedGrows
  <2>2. QED  BY <1>1, <1>2, <2>1, TextMoves
<1>3. ~ParamAt(units, k)  BY <1>1 DEF ParamAt, Openers
<1>4. CASE d = 0 /\ OpeningAt(units, k)
  <2>1. /\ Position(units, k, d) /\ k <= Len(units)
        /\ units[k].kind \in {"name", "table", "subscript"}
        /\ Char = (IF units[k].kind = "table" THEN "lc" ELSE "lb")
        /\ FlushedText = Joined(Out(units), k - 1)
    BY <1>4 DEF OpeningAt, BeforeAt
  <2>2. units \in Seq(Units) /\ k \in 1..Len(units)  BY <2>1 DEF AllReadable, Position
  <2>3. units[k] \in Units  BY <2>2
  <2>4. Len(units[k].text) \in Nat  BY <2>3, WrittenFacts
  <2>5. s' = e - d
    <3>1. e \in Nat  BY Ranges DEF TypeOK
    <3>2. QED  BY <1>1, <1>4, <3>1
  <2>6. QED  BY <1>1, <1>4, <2>1, <2>2, <2>4, <2>5, BracketStep
<1>5. ~WithinAt(units, k, d) /\ ~ClosingAt(units, k, d)
  BY <1>1 DEF WithinAt, ClosingAt, BracketsAt, InBrackets
<1>6. QED  BY <1>1, <1>2, <1>3, <1>4, <1>5, Places

(* A placeholder has become what Becomes says.                             *)
LEMMA ParamDone ==
  ASSUME TypeOK, NEW units, AllReadable(units), query = Text(units), Same,
         NEW k \in Nat, ParamAt(units, k),
         NEW x, Becomes(units, k) = <<x>>, e' = e + 1, q' = "none",
         n' = (IF task = "prepare" THEN 0 ELSE n + 1),
         FlushedText' = Append(FlushedText, x)
  PROVE  \E m, c \in Nat : Reading(units, m, c)'
<1>1. /\ Position(units, k, 0) /\ k <= Len(units) /\ units[k].kind = "param"
      /\ FlushedText = Joined(Out(units), k - 1)
  BY DEF ParamAt, BeforeAt
<1>2. units \in Seq(Units) /\ k \in 1..Len(units)  BY <1>1 DEF AllReadable, Position
<1>3. n = IF task = "prepare" THEN 0 ELSE Needed(units, k - 1)  BY <1>1 DEF Position
<1>4. n' = IF task = "prepare" THEN 0 ELSE Needed(units, k)
  <2>1. k \in Nat \ {0}  BY <1>2
  <2>2. QED  BY <1>1, <1>3, <2>1, CountUnit
<1>5. FlushedText' = Joined(Out(units), k)
  <2> DEFINE before == Joined(Out(units), k - 1)
  <2>1. /\ Joined(Out(units), k) = before \o <<x>>
        /\ before \in Seq(AnySymbol) /\ <<x>> \in Seq(AnySymbol)
    BY <1>2, OutStep
  <2>2. FlushedText' = Append(before, x)  BY <1>1
  <2> HIDE DEF before
  <2>3. x \in AnySymbol
    <3> DEFINE y == <<x>>
    <3>1. y \in Seq(AnySymbol) /\ Len(y) = 1 /\ y[1] = x  BY <2>1
    <3> HIDE DEF y
    <3>2. QED  BY <3>1
  <2>4. Append(before, x) = before \o <<x>>  BY <2>1, <2>3
  <2>5. QED  BY <2>1, <2>2, <2>4
<1>6. 0 + 1 = Len(Written(units[k]))
  <2>1. units[k] \in Units  BY <1>2
  <2>2. Written(units[k]) = <<"qm">>  BY <1>1, <2>1, WrittenFacts
  <2>3. Len(<<"qm">>) = 1  OBVIOUS
  <2>4. QED  BY <2>2, <2>3
<1>7. e \in Nat /\ ~Nameless(units[k])  BY <1>1, Ranges DEF Nameless, TypeOK
<1>8. Reading(units, k + 1, 0)'  BY <1>1, <1>2, <1>4, <1>5, <1>6, <1>7, UnitDone
<1>9. k + 1 \in Nat  OBVIOUS
<1>10. QED  BY <1>8, <1>9

LEMMA OrdinaryMoves ==
  ASSUME TypeOK, NEW units, AllReadable(units), query = Text(units),
         NEW k \in Nat, NEW d \in Nat, Reading(units, k, d), Ordinary
  PROVE  \E m, c \in Nat : Reading(units, m, c)'
<1>1. /\ Scanning /\ Same /\ q = "none" /\ Char \notin Openers /\ ~IsPlaceholder
      /\ e' = e + 1 /\ s' = s /\ q' = "none" /\ n' = n /\ ret' = ret
  BY DEF Ordinary, Opens, Advance
<1>2. FlushedText' = Append(FlushedText, Char)  BY <1>1, FlushedGrows
<1>3. CASE TextAt(units, k, d)  BY <1>1, <1>2, <1>3, TextMoves
<1>4. CASE ParamAt(units, k)
  <2>1. units[k].kind = "param" /\ Char = "qm" /\ Position(units, k, 0)
    BY <1>4 DEF ParamAt, BeforeAt
  <2>2. task = "prepare"  BY <1>1, <2>1 DEF IsPlaceholder
  <2>3. n' = 0  BY <1>1, <2>1, <2>2 DEF Position
  <2>4. Becomes(units, k) = <<"qm">>  BY <2>1, <2>2 DEF Becomes
  <2>5. QED  BY <1>1, <1>2, <1>4, <2>1, <2>2, <2>3, <2>4, ParamDone
<1>5. ~OpeningAt(units, k)  BY <1>1 DEF OpeningAt, Openers
<1>6. ~WithinAt(units, k, d) /\ ~ClosingAt(units, k, d)
  BY <1>1 DEF WithinAt, ClosingAt, BracketsAt, InBrackets
<1>7. QED  BY <1>1, <1>3, <1>4, <1>5, <1>6, Places

LEMMA PlaceholderMoves ==
  ASSUME TypeOK, FlushedText \in Seq(Symbols),
         NEW units, AllReadable(units), query = Text(units),
         NEW k \in Nat, NEW d \in Nat, Reading(units, k, d), Placeholder
  PROVE  \E m, c \in Nat : Reading(units, m, c)'
<1>1. /\ Scanning /\ Same /\ q = "none" /\ Char = "qm" /\ task # "prepare" /\ n < Len(array)
      /\ e' = e + 1 /\ s' = e + 1 /\ q' = "none" /\ n' = n + 1
      /\ ret' = Append(FlushedText, quote[array[n + 1]])
  BY DEF Placeholder, IsPlaceholder, Advance
<1>2. /\ e \in Nat /\ n \in Nat /\ Len(array) \in Nat /\ array \in Seq(Values)
      /\ query' \in Seq(Chars)
  BY <1>1, Ranges DEF TypeOK, Same
<1>3. FlushedText' = Append(FlushedText, quote[array[n + 1]])
  <2>1. n + 1 \in 1..Len(array)  BY <1>1, <1>2
  <2>2. array[n + 1] \in Values  BY <1>2, <2>1
  <2>3. quote[array[n + 1]] \in Symbols  BY <2>2 DEF Symbols
  <2>4. ret' \in Seq(Symbols)  BY <1>1, <2>3, AppendFacts
  <2>5. s' = e' /\ e' \in Nat \ {0}  BY <1>1, <1>2
  <2>6. FlushedText' = ret'  BY <1>2, <2>4, <2>5, FlushedAll
  <2>7. QED  BY <1>1, <2>6
<1>4. ~TextAt(units, k, d)  BY <1>1, TextNever
<1>5. CASE ParamAt(units, k)
  <2>1. units[k].kind = "param" /\ Position(units, k, 0) /\ k \in Nat \ {0}
    BY <1>5 DEF ParamAt, BeforeAt, Position
  <2>2. n = Needed(units, k - 1)  BY <1>1, <2>1 DEF Position
  <2>3. n + 1 = Needed(units, k)  BY <1>2, <2>1, <2>2, CountUnit
  <2>4. Becomes(units, k) = <<quote[array[n + 1]]>>  BY <1>1, <2>1, <2>3 DEF Becomes
  <2>5. QED  BY <1>1, <1>3, <1>5, <2>4, ParamDone
<1>6. ~OpeningAt(units, k)  BY <1>1 DEF OpeningAt, Openers
<1>7. ~WithinAt(units, k, d) /\ ~ClosingAt(units, k, d)
  BY <1>1 DEF WithinAt, ClosingAt, BracketsAt, InBrackets
<1>8. QED  BY <1>1, <1>4, <1>5, <1>6, <1>7, Places

(* What the scanner has passed is without fault.                           *)
LEMMA FaultlessBefore ==
  ASSUME TypeOK, NEW units, NEW k \in Nat \ {0}, NEW d, Position(units, k, d)
  PROVE  Faultless(units, k - 1)
<1> SUFFICES ASSUME NEW j \in 1..k - 1 PROVE ~Fault(units, j)
  BY DEF Faultless
<1>1. ~Nameless(units[j])  BY DEF Position
<1>2. ASSUME task # "prepare" PROVE Needed(units, j) <= Len(array)
  <2>1. n = Needed(units, k - 1)  BY <1>2 DEF Position
  <2>2. j \in Nat /\ k - 1 \in Nat /\ j <= k - 1  OBVIOUS
  <2>3. Needed(units, j) \in Nat /\ Needed(units, j) <= Needed(units, k - 1)
    BY <2>2, NeededFacts
  <2>4. n \in Nat /\ Len(array) \in Nat /\ n <= Len(array)  BY Ranges DEF TypeOK
  <2>5. QED  BY <2>1, <2>3, <2>4
<1>3. Needed(units, j) \in Nat /\ Len(array) \in Nat
  <2>1. j \in Nat  OBVIOUS
  <2>2. QED  BY <2>1, NeededFacts, Ranges
<1>4. QED  BY <1>1, <1>2, <1>3 DEF Fault

LEMMA FaultlessStays ==
  ASSUME NEW units, NEW k, Faultless(units, k), task' = task, array' = array
  PROVE  Faultless(units, k)'
  BY DEF Faultless, Fault, Nameless, Needed

LEMMA TooFewEnds ==
  ASSUME TypeOK, NEW units, AllReadable(units), query = Text(units),
         NEW k \in Nat, NEW d \in Nat, Reading(units, k, d), TooFewParameters
  PROVE  result' = "nil" /\ Ended(units)'
<1>1. /\ Scanning /\ Same /\ q = "none" /\ Char = "qm" /\ task # "prepare" /\ n >= Len(array)
      /\ result' = "nil"
  BY DEF TooFewParameters, IsPlaceholder, Return
<1>2. n \in Nat /\ Len(array) \in Nat  BY Ranges
<1>3. ~TextAt(units, k, d)  BY <1>1, TextNever
<1>4. ~OpeningAt(units, k)  BY <1>1 DEF OpeningAt, Openers
<1>5. ~WithinAt(units, k, d) /\ ~ClosingAt(units, k, d)
  BY <1>1 DEF WithinAt, ClosingAt, BracketsAt, InBrackets
<1>6. ParamAt(units, k)  BY <1>1, <1>3, <1>4, <1>5, Places
<1>7. units[k].kind = "param" /\ Position(units, k, 0) /\ k <= Len(units)
  BY <1>6 DEF ParamAt, BeforeAt
<1>8. k \in Nat \ {0} /\ Len(units) \in Nat  BY <1>7 DEF Position, AllReadable
<1>9. Needed(units, k) = n + 1  BY <1>1, <1>2, <1>7, <1>8, CountUnit DEF Position
<1>10. Needed(units, Len(units)) > Len(array)
  <2>1. Needed(units, k) <= Needed(units, Len(units)) /\ Needed(units, Len(units)) \in Nat
    BY <1>7, <1>8, NeededFacts
  <2>2. QED  BY <1>1, <1>2, <1>9, <2>1
<1>11. array' = array /\ task' = task  BY <1>1 DEF Same
<1>12. Needed(units, Len(units))' = Needed(units, Len(units))  BY DEF Needed
<1>13. Faultless(units, k - 1)'
  <2>1. Faultless(units, k - 1)  BY <1>7, <1>8, FaultlessBefore
  <2>2. QED  BY <1>11, <2>1, FaultlessStays
<1>14. k \in DOMAIN units /\ Needed(units, k)' > Len(array)'
  <2>1. units \in Seq(Units)  BY DEF AllReadable
  <2>2. Needed(units, k)' = Needed(units, k)  BY DEF Needed
  <2>3. QED  BY <1>1, <1>2, <1>7, <1>8, <1>9, <1>11, <2>1, <2>2
<1>15. QED  BY <1>1, <1>10, <1>11, <1>12, <1>13, <1>14 DEF Ended

(* What the brackets hold has become what Becomes says.                    *)
LEMMA ReplaceMoves ==
  ASSUME TypeOK, Scanning, NEW units, AllReadable(units), query = Text(units),
         NEW k \in Nat, NEW d \in Nat, ClosingAt(units, k, d), ~Nameless(units[k]),
         NEW text \in Seq(Chars), text = Becomes(units, k),
         NEW piece, piece.text = text, Replace(piece)
  PROVE  \E m, c \in Nat : Reading(units, m, c)'
<1>1. /\ Same /\ e' = e + 1 /\ s' = e + 1 /\ q' = "none" /\ n' = n /\ ret' = ret \o text
  BY DEF Replace, Advance
<1>2. /\ Position(units, k, d) /\ units[k].kind \in {"name", "table", "subscript"}
      /\ d = Len(units[k].text) + 1 /\ ret = Joined(Out(units), k - 1)
  BY DEF ClosingAt, BracketsAt, InBrackets
<1>3. units \in Seq(Units)  BY DEF AllReadable
<1>4. k \in 1..Len(units) /\ units[k] \in Units  BY <1>3, WhatIsHeld
<1>5. d + 1 = Len(Written(units[k]))  BY <1>2, <1>4, WrittenFacts
<1>6. e \in Nat /\ query' \in Seq(Chars) /\ ret \in Seq(Symbols)
  BY <1>1, Ranges DEF TypeOK, Same
<1>7. n = IF task = "prepare" THEN 0 ELSE Needed(units, k - 1)  BY <1>2 DEF Position
<1>8. n' = IF task = "prepare" THEN 0 ELSE Needed(units, k)
  <2>1. k \in Nat \ {0}  BY <1>4
  <2>2. units[k].kind # "param"  BY <1>2
  <2>3. Needed(units, k) = Needed(units, k - 1) + 0 /\ Needed(units, k - 1) \in Nat
    BY <2>1, <2>2, CountUnit
  <2>4. QED  BY <1>1, <1>7, <2>3
<1>9. FlushedText' = Joined(Out(units), k)
  <2>1. text \in Seq(Symbols)  BY CharsAreSymbols, Wider
  <2>2. ret' \in Seq(Symbols)  BY <1>1, <1>6, <2>1
  <2>3. s' = e' /\ e' \in Nat \ {0}  BY <1>1, <1>6
  <2>4. FlushedText' = ret'  BY <1>6, <2>2, <2>3, FlushedAll
  <2>5. Joined(Out(units), k) = Joined(Out(units), k - 1) \o Becomes(units, k)
    BY <1>3, <1>4, OutStep
  <2>6. QED  BY <1>1, <1>2, <2>4, <2>5
<1>10. Reading(units, k + 1, 0)'
  BY <1>1, <1>2, <1>3, <1>4, <1>5, <1>6, <1>8, <1>9, UnitDone
<1>11. k + 1 \in Nat  OBVIOUS
<1>12. QED  BY <1>10, <1>11

LEMMA CloseBraceMoves ==
  ASSUME TypeOK, NEW units, AllReadable(units), query = Text(units),
         NEW k \in Nat, NEW d \in Nat, Reading(units, k, d), CloseBrace
  PROVE  \/ result' = result /\ \E m, c \in Nat : Reading(units, m, c)'
         \/ result' = "raised" /\ Ended(units)'
<1>1. Scanning /\ q = "lc" /\ Char = "rc" /\ Closes  BY DEF CloseBrace, Closes
<1>2. ~TextAt(units, k, d)  BY <1>1, TextNever
<1>3. ~ParamAt(units, k) /\ ~OpeningAt(units, k)
  BY <1>1 DEF ParamAt, OpeningAt, BeforeAt
<1>4. ~WithinAt(units, k, d)  BY <1>1 DEF WithinAt, Ends
<1>5. ClosingAt(units, k, d)  BY <1>1, <1>2, <1>3, <1>4, Places
<1>6. units[k].kind = "table"
  BY <1>1, <1>5 DEF ClosingAt, BracketsAt, InBrackets
<1>7. units \in Seq(Units)  BY DEF AllReadable
<1>8. k \in 1..Len(units) /\ units[k] \in Units /\ Name = units[k].text
  BY <1>1, <1>5, <1>7, WhatIsHeld
<1>9. CASE Name = <<>>
  <2>1. result' = "raised"  BY <1>9 DEF CloseBrace, Return
  <2>2. Nameless(units[k]) /\ k \in DOMAIN units
    BY <1>6, <1>7, <1>8, <1>9 DEF Nameless
  <2>3. task' = task /\ array' = array  BY <1>9 DEF CloseBrace, Same
  <2>4. Position(units, k, d)  BY <1>5 DEF ClosingAt, BracketsAt
  <2>5. k \in Nat \ {0}  BY <1>8
  <2>6. Faultless(units, k - 1)'  BY <2>3, <2>4, <2>5, FaultlessBefore, FaultlessStays
  <2>7. QED  BY <2>1, <2>2, <2>6 DEF Ended, Nameless
<1>10. CASE Name # <<>>
  <2> DEFINE text == QuoteObject(aliases, Name, TRUE)
  <2>1. Replace(Named(TRUE)) /\ result' = result /\ Named(TRUE).text = text
    BY <1>10 DEF CloseBrace, Replace, Named, Piece
  <2>2. ~Nameless(units[k])  BY <1>8, <1>10 DEF Nameless
  <2>3. text = Becomes(units, k)  BY <1>6, <1>8 DEF Becomes
  <2>4. text \in Seq(Chars)
    <3>1. Name \in Seq(Chars)  BY <1>8, WrittenFacts
    <3>2. \A a \in DOMAIN aliases : aliases[a] \in Seq(Chars)  BY DEF TypeOK
    <3>3. QED  BY <3>1, <3>2, QuotedName
  <2> HIDE DEF text
  <2>5. QED  BY <1>1, <1>5, <2>1, <2>2, <2>3, <2>4, ReplaceMoves
<1>11. QED  BY <1>9, <1>10

LEMMA CloseBracketMoves ==
  ASSUME TypeOK, NEW units, AllReadable(units), query = Text(units),
         NEW k \in Nat, NEW d \in Nat, Reading(units, k, d), CloseBracket
  PROVE  result' = result /\ \E m, c \in Nat : Reading(units, m, c)'
<1>1. Scanning /\ q = "lb" /\ Char = "rb" /\ Closes  BY DEF CloseBracket, Closes
<1>2. ~TextAt(units, k, d)  BY <1>1, TextNever
<1>3. ~ParamAt(units, k) /\ ~OpeningAt(units, k)
  BY <1>1 DEF ParamAt, OpeningAt, BeforeAt
<1>4. ~WithinAt(units, k, d)  BY <1>1 DEF WithinAt, Ends
<1>5. ClosingAt(units, k, d)  BY <1>1, <1>2, <1>3, <1>4, Places
<1>6. units[k].kind \in {"name", "subscript"} /\ k <= Len(units)
  BY <1>1, <1>5 DEF ClosingAt, BracketsAt, InBrackets
<1>7. units \in Seq(Units)  BY DEF AllReadable
<1>8. /\ k \in 1..Len(units) /\ units[k] \in Units /\ Name = units[k].text
      /\ SubSeq(query, s, e - 1) = <<"lb">> \o units[k].text
      /\ IsSubscript <=> Only(units[k].text, Digits)
  BY <1>1, <1>5, <1>6, <1>7, WhatIsHeld
<1>9. IsSubscript <=> units[k].kind = "subscript"
  <2>1. k \in DOMAIN units  BY <1>7, <1>8
  <2>2. Readable(units[k], k = Len(units))  BY <2>1, Zenon DEF AllReadable
  <2>3. WellWritten(units[k], k = Len(units))  BY <1>6, <2>2, Zenon DEF Readable
  <2>4. units[k].kind = "name" => ~Only(units[k].text, Digits)  BY <2>3 DEF WellWritten
  <2>5. units[k].kind = "subscript" => Only(units[k].text, Digits)  BY <2>3 DEF WellWritten
  <2>6. QED  BY <1>6, <1>8, <2>4, <2>5
<1> DEFINE text == IF IsSubscript THEN SubSeq(query, s, e - 1)
                   ELSE QuoteObject(aliases, Name, FALSE)
<1> DEFINE piece == IF IsSubscript THEN Copied(s, e - 1) ELSE Named(FALSE)
<1>10. Replace(piece) /\ piece.text = text
  <2>1. CASE IsSubscript  BY <2>1 DEF CloseBracket, Copied, Piece
  <2>2. CASE ~IsSubscript  BY <2>2 DEF CloseBracket, Named, Piece
  <2>3. QED  BY <2>1, <2>2
<1>11. text = Becomes(units, k)
  <2>1. CASE units[k].kind = "subscript"  BY <1>8, <1>9, <2>1 DEF Becomes
  <2>2. CASE units[k].kind = "name"  BY <1>8, <1>9, <2>2 DEF Becomes
  <2>3. QED  BY <1>6, <2>1, <2>2
<1>12. text \in Seq(Chars)
  <2>1. Name \in Seq(Chars)  BY <1>8, WrittenFacts
  <2>2. \A a \in DOMAIN aliases : aliases[a] \in Seq(Chars)  BY DEF TypeOK
  <2>3. QuoteObject(aliases, Name, FALSE) \in Seq(Chars)  BY <2>1, <2>2, QuotedName
  <2>4. SubSeq(query, s, e - 1) \in Seq(Chars)
    <3>1. /\ s \in Nat \ {0} /\ e - 1 \in Nat /\ e - 1 <= Len(query) /\ query \in Seq(Chars)
      BY <1>1, Ranges DEF TypeOK, Scanning
    <3>2. QED  BY <3>1, PartOf
  <2>5. QED  BY <2>3, <2>4
<1> HIDE DEF text, piece
<1>13. ~Nameless(units[k])  BY <1>6 DEF Nameless
<1>14. result' = result  BY <1>10 DEF Replace
<1>15. QED  BY <1>1, <1>5, <1>10, <1>11, <1>12, <1>13, <1>14, ReplaceMoves

(* After the last character all units are done, up to text left open.      *)
LEMMA NothingRemains ==
  ASSUME TypeOK, NEW units, AllReadable(units), query = Text(units), e > Len(query),
         NEW k \in Nat, NEW d \in Nat, Reading(units, k, d)
  PROVE  /\ FlushedText = FlattenSeq(Out(units))
         /\ \A j \in DOMAIN units : ~Nameless(units[j])
         /\ n = IF task = "prepare" THEN 0 ELSE Needed(units, Len(units))
<1>1. units \in Seq(Units) /\ Len(units) \in Nat /\ DOMAIN units = 1..Len(units)
  BY DEF AllReadable
<1>2. /\ Position(units, k, d) /\ k \in 1..Len(units) + 1
      /\ e = Len(Joined(In(units), k - 1)) + d + 1
      /\ n = (IF task = "prepare" THEN 0 ELSE Needed(units, k - 1))
      /\ \A j \in 1..k - 1 : ~Nameless(units[j])
  BY DEF Reading, Position
<1>3. e = Len(query) + 1 /\ Len(query) \in Nat  BY Ranges DEF TypeOK
<1>4. Joined(Out(units), Len(units)) = FlattenSeq(Out(units))
  <2>1. Out(units) \in Seq(Seq(AnySymbol)) /\ Len(Out(units)) = Len(units)  BY <1>1, OutFacts
  <2>2. QED  BY <2>1, JoinedAll
<1>5. ASSUME k <= Len(units)
      PROVE  /\ Len(Written(units[k])) \in Nat
             /\ ~(d < Len(Written(units[k])))
  <2>1. k \in 1..Len(units)  BY <1>2, <1>5
  <2>2. Written(units[k]) \in Seq(Chars)
    <3>1. units[k] \in Units  BY <1>1, <2>1
    <3>2. QED  BY <3>1, WrittenType
  <2>3. Len(Written(units[k])) \in Nat  BY <2>2
  <2>4. ASSUME d < Len(Written(units[k])) PROVE FALSE
    <3>1. d <= Len(Written(units[k]))  BY <2>3, <2>4
    <3>2. e - d - 1 \in Nat /\ e - d - 1 + Len(Written(units[k])) <= Len(query)
      BY <1>1, <1>2, <2>1, <3>1, Here
    <3>3. QED  BY <1>3, <2>3, <2>4, <3>2
  <2>5. QED  BY <2>3, <2>4
<1>6. ASSUME k <= Len(units)
      PROVE  /\ k \in 1..Len(units) /\ units[k] \in Units /\ Readable(units[k], k = Len(units))
             /\ units[k].text \in Seq(Chars) /\ Len(units[k].text) \in Nat
             /\ units[k].kind = "text" => Written(units[k]) = units[k].text
             /\ units[k].kind = "param" => Written(units[k]) = <<"qm">>
             /\ units[k].kind \in {"name", "table", "subscript"} =>
                  Len(Written(units[k])) = Len(units[k].text) + 2
  <2>1. k \in 1..Len(units) /\ k \in DOMAIN units  BY <1>1, <1>2, <1>6
  <2>2. units[k] \in Units  BY <1>1, <2>1
  <2>3. Readable(units[k], k = Len(units))  BY <2>1, Zenon DEF AllReadable
  <2>4. QED  BY <2>1, <2>2, <2>3, WrittenFacts, Zenon
<1>7. CASE d = 0 /\ q = "none" /\ FlushedText = Joined(Out(units), k - 1)
  <2>1. k = Len(units) + 1
    <3> SUFFICES ASSUME k <= Len(units) PROVE FALSE  BY <1>1, <1>2
    <3>1. units[k].kind = "text" => units[k].text # <<>>  BY <1>6, Zenon DEF Readable
    <3>2. units[k].kind = "text" => Len(Written(units[k])) > 0  BY <1>6, <3>1
    <3>3. units[k].kind = "param" => Len(Written(units[k])) > 0
      <4> SUFFICES ASSUME units[k].kind = "param" PROVE Len(Written(units[k])) > 0  OBVIOUS
      <4>1. Written(units[k]) = <<"qm">>  BY <1>6
      <4>2. QED  BY <4>1
    <3>4. units[k].kind \in {"name", "table", "subscript"} => Len(Written(units[k])) > 0
      BY <1>6
    <3>5. units[k].kind \in {"text", "param", "name", "table", "subscript"}  BY <1>6 DEF Units
    <3>6. QED  BY <1>5, <1>7, <3>2, <3>3, <3>4, <3>5
  <2>2. k - 1 = Len(units)  BY <1>1, <2>1
  <2>3. QED  BY <1>1, <1>2, <1>4, <1>7, <2>2
<1>8. CASE /\ k <= Len(units) /\ InText(units[k], k = Len(units), d)
           /\ FlushedText = Joined(Out(units), k - 1) \o SubSeq(units[k].text, 1, d)
  <2>1. units[k].kind = "text" /\ d \in 1..Len(units[k].text)  BY <1>8, Zenon DEF InText
  <2>2. d = Len(units[k].text)  BY <1>5, <1>6, <1>8, <2>1
  <2>3. k = Len(units)
    <3>1. PICK inside : /\ k = Len(units) \/ inside[Len(units[k].text)] = "none"
                        /\ d = Len(units[k].text) => inside[d] # "none"
      BY <1>8, Zenon DEF InText
    <3>2. QED  BY <2>2, <3>1
  <2>4. FlushedText = Joined(Out(units), k)
    <3>1. SubSeq(units[k].text, 1, d) = units[k].text  BY <1>6, <1>8, <2>2
    <3>2. Becomes(units, k) = units[k].text  BY <2>1 DEF Becomes
    <3>3. Joined(Out(units), k) = Joined(Out(units), k - 1) \o Becomes(units, k)
      BY <1>1, <1>6, <1>8, OutStep
    <3>4. QED  BY <1>8, <3>1, <3>2, <3>3
  <2>5. Needed(units, Len(units)) = Needed(units, k - 1)
    <3>1. k \in Nat \ {0} /\ units[k].kind # "param"  BY <1>6, <1>8, <2>1
    <3>2. Needed(units, k) = Needed(units, k - 1) + 0 /\ Needed(units, k - 1) \in Nat
      BY <3>1, CountUnit
    <3>3. QED  BY <2>3, <3>2
  <2>6. \A j \in 1..k : ~Nameless(units[j])
    <3>1. ~Nameless(units[k])  BY <2>1 DEF Nameless
    <3>2. QED  BY <1>2, <3>1
  <2>7. QED  BY <1>1, <1>2, <1>4, <2>3, <2>4, <2>5, <2>6
<1>9. ASSUME k <= Len(units), InBrackets(units[k], d) PROVE FALSE
  <2>1. units[k].kind \in {"name", "table", "subscript"} /\ d \in 1..Len(units[k].text) + 1
    BY <1>9 DEF InBrackets
  <2>2. QED  BY <1>5, <1>6, <1>9, <2>1
<1>10. QED  BY <1>7, <1>8, <1>9, Zenon DEF Reading

LEMMA FinishEnds ==
  ASSUME TypeOK, NEW units, AllReadable(units), query = Text(units),
         NEW k \in Nat, NEW d \in Nat, Reading(units, k, d), Finish
  PROVE  /\ result' = "sql" /\ ret' = FlattenSeq(Out(units)) /\ Ended(units)'
         /\ \A j \in DOMAIN units : ~Nameless(units[j])
<1>1. /\ e > Len(query) /\ ret' = FlushedText /\ result' = "sql"
      /\ UNCHANGED <<task, aliases, array>>
  BY DEF Finish, Return
<1>2. /\ FlushedText = FlattenSeq(Out(units))
      /\ \A j \in DOMAIN units : ~Nameless(units[j])
      /\ n = IF task = "prepare" THEN 0 ELSE Needed(units, Len(units))
  BY <1>1, NothingRemains
<1>3. n <= Len(array)  BY Ranges DEF TypeOK
<1>4. Out(units)' = Out(units)  BY <1>1, OutStays
<1>5. ret' = FlattenSeq(Out(units)')  BY <1>1, <1>2, <1>4
<1>6. task' # "prepare" => Needed(units, Len(units)) <= Len(array')  BY <1>1, <1>2, <1>3
<1>7. (\A j \in DOMAIN units : ~Nameless(units[j]))'
  BY <1>2 DEF Nameless
<1>8. Needed(units, Len(units))' = Needed(units, Len(units))  BY DEF Needed
<1>9. Ended(units)'  BY <1>1, <1>5, <1>6, <1>7, <1>8 DEF Ended
<1>10. QED  BY <1>1, <1>2, <1>9
-----------------------------------------------------------------------------
(* The invariant. *)
LEMMA ReadReadable ==
  ASSUME TypeOK, MInv, Intact, task # "idle"
  PROVE  AllReadable(Read) /\ query = Text(Read)
<1>1. query = Text(Read)  BY DEF MInv
<1>2. CASE task = "execute"
  <2>1. KeptTwice(asked)  BY <1>2 DEF Intact
  <2>2. /\ FromRenamings(statement.aliases)
        /\ \A j \in DOMAIN asked : ~Nameless(asked[j])
    BY <1>2 DEF MInv, StatementKept
  <2>3. AllReadable(Prepared(asked, statement.aliases))  BY <2>1, <2>2, PreparedReadable
  <2>4. QED  BY <1>1, <1>2, <2>3 DEF Read
<1>3. CASE task # "execute"  BY <1>1, <1>3, AskedReadable DEF Read
<1>4. QED  BY <1>2, <1>3

(* What a step of the loop, or the end of it, has to show.                 *)
LEMMA LoopKeeps ==
  ASSUME TypeOK, MInv, Busy, UNCHANGED <<asked, aliases, task, query, array>>,
         StatementKept', task = "execute" => statement' = statement,
         \A units : AllReadable(units) /\ query = Text(units) =>
           \A k, d \in Nat : Reading(units, k, d) =>
             \/ result' = "none" /\ \E m, c \in Nat : Reading(units, m, c)'
             \/ result' # "none" /\ Ended(units)'
  PROVE  MInv'
<1>1. task # "idle" /\ result = "none"  BY DEF Busy
<1>2. Read' = Read /\ (Intact' <=> Intact)
  BY DEF Read, Intact
<1>3. ASSUME Intact
      PROVE  \/ result' = "none" /\ (\E m, c \in Nat : Reading(Read, m, c))'
             \/ result' # "none" /\ Ended(Read)'
  <2>1. PICK units : units = Read  OBVIOUS
  <2>2. units = Read'  BY <1>2, <2>1
  <2>3. AllReadable(units) /\ query = Text(units)  BY <1>1, <1>3, <2>1, ReadReadable
  <2>4. PICK k \in Nat, d \in Nat : Reading(units, k, d)
    BY <1>1, <1>3, <2>1 DEF MInv
  <2>5. CASE result' = "none" /\ \E m, c \in Nat : Reading(units, m, c)'
    <3>1. PICK m \in Nat, c \in Nat : Reading(units, m, c)'  BY <2>5
    <3>2. Reading(Read, m, c)'  BY <2>2, <3>1
    <3>3. QED  BY <2>5, <3>2
  <2>6. CASE result' # "none" /\ Ended(units)'  BY <2>2, <2>6
  <2>7. QED  BY <2>3, <2>4, <2>5, <2>6
<1>4. FromRenamings(aliases)'  BY DEF MInv, FromRenamings
<1>5. task' = "execute" => statement'.prepared  BY DEF MInv
<1>6. query' = Text(Read)'
  <2>1. Text(Read)' = Text(Read)  BY <1>2 DEF Text
  <2>2. QED  BY <1>1, <2>1 DEF MInv
<1>7. QED  BY <1>2, <1>3, <1>4, <1>5, <1>6 DEF MInv

LEMMA InLoop ==
  ASSUME TypeOK, MInv, Busy, Same,
         \A units : AllReadable(units) /\ query = Text(units) =>
           \A k, d \in Nat : Reading(units, k, d) =>
             \/ result' = "none" /\ \E m, c \in Nat : Reading(units, m, c)'
             \/ result' # "none" /\ Ended(units)'
  PROVE  MInv'
<1>1. UNCHANGED <<asked, aliases, task, query, array>> /\ statement' = statement  BY DEF Same
<1>2. StatementKept'  BY <1>1 DEF MInv, StatementKept
<1>3. QED  BY <1>1, <1>2, LoopKeeps

(* A statement that was prepared stands for what was asked.                *)
LEMMA FinishKeepsMeaning ==
  ASSUME TypeOK, MInv, Finish
  PROVE  MInv'
<1>1. /\ Busy /\ UNCHANGED <<asked, aliases, task, query, array>>
      /\ statement' = IF task = "prepare"
                      THEN [prepared |-> TRUE, sql |-> ret', aliases |-> aliases]
                      ELSE statement
  BY DEF Finish
<1>2. \A units : AllReadable(units) /\ query = Text(units) =>
        \A k, d \in Nat : Reading(units, k, d) =>
          \/ result' = "none" /\ \E m, c \in Nat : Reading(units, m, c)'
          \/ result' # "none" /\ Ended(units)'
  BY FinishEnds
<1>3. CASE task # "prepare"
  <2>1. statement' = statement  BY <1>1, <1>3
  <2>2. StatementKept'  BY <1>1, <2>1 DEF MInv, StatementKept
  <2>3. QED  BY <1>1, <1>2, <2>1, <2>2, LoopKeeps
<1>4. CASE task = "prepare"
  <2>1. statement'.sql = ret' /\ statement'.aliases = aliases  BY <1>1, <1>4
  <2>2. Read = asked /\ Intact  BY <1>4 DEF Read, Intact
  <2>3. AllReadable(asked) /\ query = Text(asked)  BY <1>4, <2>2, ReadReadable
  <2>4. PICK k \in Nat, d \in Nat : Reading(asked, k, d)
    BY <1>1, <1>4, <2>2 DEF MInv, Busy
  <2>5. PICK units : units = asked  OBVIOUS
  <2>6. /\ ret' = FlattenSeq(Out(units))
        /\ \A j \in DOMAIN units : ~Nameless(units[j])
    BY <2>3, <2>4, <2>5, FinishEnds
  <2>7. FlattenSeq(Out(units)) = Text(Prepared(units, aliases))
    <3>1. DOMAIN Prepared(units, aliases) = DOMAIN units  BY DEF Prepared
    <3>2. ASSUME NEW i \in DOMAIN units
          PROVE  Becomes(units, i) = Written(Prepared(units, aliases)[i])
      <4>1. units[i] \in Units  BY <2>3, <2>5 DEF AllReadable
      <4>2. units[i].kind \in {"text", "param", "name", "table", "subscript"}
        BY <4>1 DEF Units
      <4>3. Prepared(units, aliases)[i] = AfterPreparing(units[i], aliases)  BY DEF Prepared
      <4>4. Becomes(units, i) = Written(AfterPreparing(units[i], aliases))
        BY <1>4, <4>2 DEF Becomes, AfterPreparing, Written
      <4>5. QED  BY <4>3, <4>4
    <3>3. Out(units) = [i \in DOMAIN Prepared(units, aliases) |->
                          Written(Prepared(units, aliases)[i])]
      BY <3>1, <3>2 DEF Out
    <3>4. QED  BY <3>3 DEF Text
  <2>8. statement'.sql = Text(Prepared(asked', statement'.aliases))
    BY <1>1, <2>1, <2>5, <2>6, <2>7
  <2>9. \A j \in DOMAIN asked' : ~Nameless(asked'[j])  BY <1>1, <2>5, <2>6
  <2>10. FromRenamings(statement'.aliases)  BY <2>1 DEF MInv
  <2>11. StatementKept'  BY <2>8, <2>9, <2>10 DEF StatementKept
  <2>12. QED  BY <1>1, <1>2, <1>4, <2>11, LoopKeeps
<1>5. QED  BY <1>3, <1>4

LEMMA PreparedFacts ==
  ASSUME NEW units \in Seq(Units), NEW known
  PROVE  /\ DOMAIN Prepared(units, known) = DOMAIN units
         /\ Len(Prepared(units, known)) = Len(units)
         /\ \A i \in DOMAIN units :
              /\ Prepared(units, known)[i] = AfterPreparing(units[i], known)
              /\ Needed(Prepared(units, known), i) = Needed(units, i)
         /\ Needed(Prepared(units, known), Len(units)) = Needed(units, Len(units))
<1> DEFINE after == Prepared(units, known)
<1>1. DOMAIN units = 1..Len(units) /\ Len(units) \in Nat  OBVIOUS
<1>2. /\ DOMAIN after = 1..Len(units) /\ Len(after) = Len(units)
      /\ \A i \in 1..Len(units) : after[i] = AfterPreparing(units[i], known)
  <2>1. after = [i \in 1..Len(units) |-> AfterPreparing(units[i], known)]
    BY <1>1 DEF Prepared
  <2> HIDE DEF after
  <2>2. QED  BY <1>1, <2>1
<1> HIDE DEF after
<1>3. ASSUME NEW j \in 1..Len(units) PROVE after[j].kind = "param" <=> units[j].kind = "param"
  <2>1. units[j].kind \in {"text", "param", "name", "table", "subscript"}
    <3>1. units[j] \in Units  OBVIOUS
    <3>2. QED  BY <3>1 DEF Units
  <2>2. after[j] = AfterPreparing(units[j], known)  BY <1>2
  <2>3. CASE units[j].kind \in {"name", "table", "subscript"}
    <3>1. AfterPreparing(units[j], known).kind = "text"  BY <2>3 DEF AfterPreparing
    <3>2. QED  BY <2>2, <2>3, <3>1
  <2>4. CASE units[j].kind \in {"text", "param"}
    <3>1. AfterPreparing(units[j], known) = units[j]  BY <2>4 DEF AfterPreparing
    <3>2. QED  BY <2>2, <3>1
  <2>5. QED  BY <2>1, <2>3, <2>4
<1>4. ASSUME NEW i \in Nat, i <= Len(units) PROVE Needed(after, i) = Needed(units, i)
  <2>1. {j \in 1..i : after[j].kind = "param"} = {j \in 1..i : units[j].kind = "param"}
    <3>1. \A j \in 1..i : j \in 1..Len(units)  BY <1>1, <1>4
    <3>2. QED  BY <1>3, <3>1
  <2>2. QED  BY <2>1 DEF Needed
<1>5. QED  BY <1>1, <1>2, <1>4 DEF after

(* A scan begins at the first unit.                                        *)
LEMMA ScanStarts ==
  ASSUME TypeOK, MInv, NEW who \in {"direct", "prepare", "execute"}, NEW text, NEW params,
         Scan(who, text, params), UNCHANGED <<asked, aliases, statement>>,
         who = "execute" => statement.prepared,
         text = Text(IF who = "execute" THEN Prepared(asked, statement.aliases) ELSE asked)
  PROVE  MInv'
<1>1. /\ task' = who /\ query' = text /\ s' = 1 /\ e' = 1 /\ q' = "none" /\ n' = 0
      /\ ret' = <<>> /\ result' = "none"
  BY DEF Scan
<1>2. Read' = IF who = "execute" THEN Prepared(asked, statement.aliases) ELSE asked
  BY <1>1 DEF Read
<1>3. query' = Text(Read)'  BY <1>1, <1>2 DEF Text
<1>4. FromRenamings(aliases)' /\ StatementKept'
  BY DEF MInv, FromRenamings, StatementKept
<1>5. task' = "execute" => statement'.prepared  BY <1>1
<1>6. PICK units : units = Read'  OBVIOUS
<1>7. Len(units) \in Nat
  <2>1. asked \in Seq(Units)  BY StatementsAssumption DEF IsStatement, TypeOK
  <2>2. Len(asked) \in Nat /\ Len(Prepared(asked, statement.aliases)) = Len(asked)
    BY <2>1, PreparedFacts
  <2>3. QED  BY <1>2, <1>6, <2>2
<1>8. Reading(units, 1, 0)'
  <2>1. Joined(In(units), 1 - 1) = <<>> /\ (Joined(Out(units), 1 - 1) = <<>>)'
    <3>1. 1 - 1 = 0  OBVIOUS
    <3>2. \A seqs : Joined(seqs, 0) = <<>>  BY JoinedNone
    <3>3. QED  BY <3>1, <3>2
  <2>2. Len(<<>>) = 0  OBVIOUS
  <2>3. e' = Len(Joined(In(units), 1 - 1)) + 0 + 1  BY <1>1, <2>1, <2>2
  <2>4. n' = IF task' = "prepare" THEN 0 ELSE Needed(units, 1 - 1)
    <3>1. 0 \in Nat /\ 1 - 1 = 0  OBVIOUS
    <3>2. Needed(units, 0) = 0  BY <3>1, NeededFacts
    <3>3. QED  BY <1>1, <3>1, <3>2
  <2>5. 1 \in 1..Len(units) + 1 /\ 0 \in Nat /\ 1..1 - 1 = {}  BY <1>7
  <2>6. Position(units, 1, 0)'  BY <2>3, <2>4, <2>5 DEF Position
  <2>7. FlushedText' = <<>>
    <3>1. FlushedText' = ret' \o SubSeq(query', s', e' - 1)  BY DEF FlushedText
    <3>2. e' - 1 = 0 /\ SubSeq(query', 1, 0) = <<>>  BY <1>1
    <3>3. <<>> \o <<>> = <<>>  OBVIOUS
    <3>4. QED  BY <1>1, <3>1, <3>2, <3>3
  <2>8. QED  BY <1>1, <2>1, <2>6, <2>7 DEF Reading
<1>9. (\E k, d \in Nat : Reading(Read, k, d))'
  <2>1. 1 \in Nat /\ 0 \in Nat  OBVIOUS
  <2>2. Reading(Read, 1, 0)'  BY <1>6, <1>8
  <2>3. QED  BY <2>1, <2>2
<1>10. QED  BY <1>1, <1>3, <1>4, <1>5, <1>9 DEF MInv

LEMMA SetAliasKeepsMeaning ==
  ASSUME MInv, NEW names \in Renamings, SetAlias(names.alias, names.object)
  PROVE  MInv'
<1> DEFINE alias == names.alias
           object == names.object
<1>1. /\ task' = "idle" /\ asked' = asked /\ statement' = statement
      /\ aliases' = [a \in DOMAIN aliases \cup {alias} |->
                       IF a = alias THEN Qualified(object) ELSE aliases[a]]
  BY DEF SetAlias
<1>2. ASSUME NEW a \in DOMAIN aliases' PROVE \E m \in Renamings : aliases'[a] = Qualified(m.object)
  <2>1. CASE a = alias
    <3>1. aliases'[a] = Qualified(object)  BY <1>1, <2>1
    <3>2. QED  BY <3>1
  <2>2. CASE a # alias
    <3>1. a \in DOMAIN aliases /\ aliases'[a] = aliases[a]  BY <1>1, <1>2, <2>2
    <3>2. QED  BY <3>1 DEF MInv, FromRenamings
  <2>3. QED  BY <2>1, <2>2
<1>3. FromRenamings(aliases)'  BY <1>2 DEF FromRenamings
<1>4. StatementKept'  BY <1>1 DEF MInv, StatementKept
<1>5. QED  BY <1>1, <1>3, <1>4 DEF MInv

LEMMA InitMeaning == Init => MInv
  BY DEF Init, MInv, FromRenamings, StatementKept, NoStatement

LEMMA StepMeaning == IInv /\ MInv /\ [Next]_vars => MInv'
<1> SUFFICES ASSUME TypeOK, IInv, MInv, [Next]_vars PROVE MInv'  BY DEF IInv
<1>1. ASSUME NEW names \in Renamings, SetAlias(names.alias, names.object) PROVE MInv'
  BY <1>1, SetAliasKeepsMeaning
<1>2. ASSUME NEW params \in ParamLists, Execute(params) PROVE MInv'
  BY <1>2, ScanStarts DEF Execute
<1>3. ASSUME NEW params \in ParamLists, ExecutePrepared(params) PROVE MInv'
  <2>1. statement.prepared /\ statement.sql = Text(Prepared(asked, statement.aliases))
    BY <1>3 DEF ExecutePrepared, MInv, StatementKept
  <2>2. QED  BY <1>3, <2>1, ScanStarts DEF ExecutePrepared
<1>4. ASSUME Prepare PROVE MInv'
  BY <1>4, ScanStarts DEF Prepare
<1>5. ASSUME CloseBrace PROVE MInv'
  <2>1. Busy /\ Same  BY <1>5 DEF CloseBrace, Scanning, Replace
  <2>2. QED  BY <1>5, <2>1, CloseBraceMoves, InLoop DEF Busy
<1>6. ASSUME CloseBracket PROVE MInv'
  <2>1. Busy /\ Same  BY <1>6 DEF CloseBracket, Scanning, Replace
  <2>2. QED  BY <1>6, <2>1, CloseBracketMoves, InLoop DEF Busy
<1>7. ASSUME CloseQuote PROVE MInv'
  <2>1. Busy /\ Same /\ result' = "none"  BY <1>7 DEF CloseQuote, Scanning, Busy
  <2>2. QED  BY <1>7, <2>1, CloseQuoteMoves, InLoop
<1>8. ASSUME InsideQuote PROVE MInv'
  <2>1. Busy /\ Same /\ result' = "none"  BY <1>8 DEF InsideQuote, Scanning, Busy
  <2>2. QED  BY <1>8, <2>1, InsideQuoteMoves, InLoop
<1>9. ASSUME OpenQuote PROVE MInv'
  <2>1. Busy /\ Same /\ result' = "none"  BY <1>9 DEF OpenQuote, Scanning, Busy
  <2>2. QED  BY <1>9, <2>1, OpenQuoteMoves, InLoop
<1>10. ASSUME Placeholder PROVE MInv'
  <2>1. Busy /\ Same /\ result' = "none"  BY <1>10 DEF Placeholder, Scanning, Busy
  <2>2. FlushedText \in Seq(Symbols)
    <3>1. result = "none" /\ query[e] # "rb"
      BY <1>10, <2>1 DEF Placeholder, IsPlaceholder, Char, Busy
    <3>2. QED  BY <3>1, FlushedFacts
  <2>3. QED  BY <1>10, <2>1, <2>2, PlaceholderMoves, InLoop
<1>11. ASSUME TooFewParameters PROVE MInv'
  <2>1. Busy /\ Same  BY <1>11 DEF TooFewParameters, Scanning
  <2>2. QED  BY <1>11, <2>1, TooFewEnds, InLoop
<1>12. ASSUME Ordinary PROVE MInv'
  <2>1. Busy /\ Same /\ result' = "none"  BY <1>12 DEF Ordinary, Scanning, Busy
  <2>2. QED  BY <1>12, <2>1, OrdinaryMoves, InLoop
<1>13. ASSUME UNCHANGED vars PROVE MInv'
  <2> DEFINE All == /\ asked' = asked /\ aliases' = aliases /\ statement' = statement
                    /\ task' = task /\ query' = query /\ array' = array /\ s' = s /\ e' = e
                    /\ q' = q /\ n' = n /\ ret' = ret /\ result' = result
  <2>1. All  BY <1>13 DEF vars, scanner
  <2>2. Read' = Read /\ (Intact' <=> Intact)  BY <2>1 DEF Read, Intact
  <2>3. PICK units : units = Read /\ units = Read'  BY <2>2
  <2>4. Out(units)' = Out(units) /\ FlushedText' = FlushedText
    BY <2>1, OutStays DEF FlushedText
  <2>5. Ended(units)' <=> Ended(units)  BY <2>1, <2>4 DEF Ended, Nameless, Needed, Faultless, Fault
  <2>6. \A k, d \in Nat : Reading(units, k, d)' <=> Reading(units, k, d)
    BY <2>1, <2>4 DEF Reading, Position, InText, InBrackets
  <2>7. (Ended(Read)' <=> Ended(Read)) /\ \A k, d \in Nat : Reading(Read, k, d)' <=> Reading(Read, k, d)
    BY <2>3, <2>5, <2>6
  <2>8. Text(Read)' = Text(Read)  BY <2>2 DEF Text
  <2>9. FromRenamings(aliases)' /\ StatementKept'  BY <2>1 DEF MInv, FromRenamings, StatementKept
  <2>10. QED  BY <2>1, <2>2, <2>7, <2>8, <2>9 DEF MInv
<1>14. QED
  BY <1>1, <1>2, <1>3, <1>4, <1>5, <1>6, <1>7, <1>8, <1>9, <1>10, <1>11, <1>12, <1>13,
     FinishKeepsMeaning DEF Next

(* At every moment of a scan there is a unit of the statement and a        *)
(* character in it at which the scanner stands, and what it has made of    *)
(* the units before is what they stand for.                                *)
THEOREM WhereItStands == Spec => []MInv
<1>1. QED  BY InitMeaning, StepMeaning, Invariance, PTL DEF Spec

-----------------------------------------------------------------------------
(* What the units become is what the program meant. *)
LEMMA MeantAtOnce ==
  ASSUME TypeOK, task = "direct", Kept(asked)
  PROVE  FlattenSeq(Out(asked)) = SQL(asked, aliases, array)
<1>1. ASSUME NEW i \in DOMAIN asked PROVE Becomes(asked, i) = Meaning(asked, i, aliases, array)
  <2>1. asked[i].kind \in {"text", "param", "name", "table", "subscript"}
    <3>1. asked[i] \in Units  BY StatementsAssumption DEF IsStatement, TypeOK
    <3>2. QED  BY <3>1 DEF Units
  <2>2. asked[i].kind # "subscript"  BY DEF Kept
  <2>3. CASE asked[i].kind = "text"  BY <2>3 DEF Becomes, Meaning, Written
  <2>4. CASE asked[i].kind = "param"  BY <2>4 DEF Becomes, Meaning
  <2>5. CASE asked[i].kind \in {"name", "table"}  BY <2>5 DEF Becomes, Meaning
  <2>6. QED  BY <2>1, <2>2, <2>3, <2>4, <2>5
<1>2. QED  BY <1>1 DEF Out, SQL

LEMMA MeantPrepared ==
  ASSUME TypeOK, task = "execute", Kept(asked), NEW known
  PROVE  FlattenSeq(Out(Prepared(asked, known))) = SQL(asked, known, array)
<1> DEFINE after == Prepared(asked, known)
<1>1. asked \in Seq(Units)  BY StatementsAssumption DEF IsStatement, TypeOK
<1>2. /\ DOMAIN after = DOMAIN asked
      /\ \A i \in DOMAIN asked : /\ after[i] = AfterPreparing(asked[i], known)
                                /\ Needed(after, i) = Needed(asked, i)
  BY <1>1, PreparedFacts
<1> HIDE DEF after
<1>3. ASSUME NEW i \in DOMAIN asked PROVE Becomes(after, i) = Meaning(asked, i, known, array)
  <2>1. asked[i].kind \in {"text", "param", "name", "table", "subscript"}
    <3>1. asked[i] \in Units  BY <1>1
    <3>2. QED  BY <3>1 DEF Units
  <2>2. asked[i].kind # "subscript"  BY DEF Kept
  <2>3. CASE asked[i].kind = "text"
    <3>1. after[i] = asked[i]  BY <1>2, <2>3 DEF AfterPreparing
    <3>2. QED  BY <2>3, <3>1 DEF Becomes, Meaning, Written
  <2>4. CASE asked[i].kind = "param"
    <3>1. after[i] = asked[i]  BY <1>2, <2>4 DEF AfterPreparing
    <3>2. QED  BY <1>2, <2>4, <3>1 DEF Becomes, Meaning
  <2>5. CASE asked[i].kind = "name"
    <3>1. after[i] = [kind |-> "text", text |-> QuoteObject(known, asked[i].text, FALSE)]
      BY <1>2, <2>5 DEF AfterPreparing
    <3>2. QED  BY <2>5, <3>1 DEF Becomes, Meaning
  <2>6. CASE asked[i].kind = "table"
    <3>1. after[i] = [kind |-> "text", text |-> QuoteObject(known, asked[i].text, TRUE)]
      BY <1>2, <2>6 DEF AfterPreparing
    <3>2. QED  BY <2>6, <3>1 DEF Becomes, Meaning
  <2>7. QED  BY <2>1, <2>2, <2>3, <2>4, <2>5, <2>6
<1>4. Out(after) = [i \in DOMAIN asked |-> Meaning(asked, i, known, array)]
  BY <1>2, <1>3 DEF Out
<1>5. QED  BY <1>4 DEF SQL, after

(* A statement executed at once gives the SQL it stands for.               *)
THEOREM DirectSQL == Spec => []SaysWhatIsAsked
<1>1. ASSUME TypeOK, MInv PROVE SaysWhatIsAsked
  <2> SUFFICES ASSUME task = "direct", result = "sql", Kept(asked)
               PROVE  ret = SQL(asked, aliases, array)
    BY DEF SaysWhatIsAsked
  <2>1. Intact /\ Read = asked  BY DEF Intact, Read
  <2>2. ret = FlattenSeq(Out(asked))  BY <1>1, <2>1 DEF MInv, Ended
  <2>3. QED  BY <1>1, <2>2, MeantAtOnce
<1>2. IInv => TypeOK  BY DEF IInv
<1>3. QED  BY <1>1, <1>2, Invariance, WhereItStands, PTL

(* So does a prepared one, with the aliases known when it was prepared.    *)
THEOREM PreparedSQL == Spec => []PreparedSaysTheSame
<1>1. ASSUME TypeOK, MInv PROVE PreparedSaysTheSame
  <2> SUFFICES ASSUME task = "execute", result = "sql", Intact
               PROVE  ret = SQL(asked, statement.aliases, array)
    BY DEF PreparedSaysTheSame
  <2>1. Read = Prepared(asked, statement.aliases) /\ Kept(asked)
    BY DEF Read, Intact, KeptTwice
  <2>2. ret = FlattenSeq(Out(Prepared(asked, statement.aliases)))
    BY <1>1, <2>1 DEF MInv, Ended
  <2>3. QED  BY <1>1, <2>1, <2>2, MeantPrepared
<1>2. IInv => TypeOK  BY DEF IInv
<1>3. QED  BY <1>1, <1>2, Invariance, WhereItStands, PTL

(* How the call ends, said of the program's units: the first scan has left *)
(* as many placeholders, and no table without a name.                      *)
LEMMA EndedAsked ==
  ASSUME TypeOK, MInv, task # "idle", result # "none", Intact
  PROVE  /\ result = "sql" =>
              /\ \A j \in DOMAIN asked : ~Nameless(asked[j])
              /\ task # "prepare" => Needed(asked, Len(asked)) <= Len(array)
         /\ result = "nil" =>
              /\ task # "prepare" /\ Needed(asked, Len(asked)) > Len(array)
              /\ \E k \in DOMAIN asked :
                   Needed(asked, k) > Len(array) /\ Faultless(asked, k - 1)
         /\ result = "raised" =>
              \E k \in DOMAIN asked : Nameless(asked[k]) /\ Faultless(asked, k - 1)
<1>1. Ended(Read)  BY DEF MInv
<1>2. CASE task # "execute"  BY <1>1, <1>2 DEF Read, Ended
<1>3. CASE task = "execute"
  <2> DEFINE after == Prepared(asked, statement.aliases)
  <2>1. Read = after  BY <1>3 DEF Read
  <2>2. asked \in Seq(Units)  BY StatementsAssumption DEF IsStatement, TypeOK
  <2>3. /\ DOMAIN after = DOMAIN asked /\ Len(after) = Len(asked)
        /\ Needed(after, Len(asked)) = Needed(asked, Len(asked))
        /\ \A i \in DOMAIN asked : /\ after[i] = AfterPreparing(asked[i], statement.aliases)
                                  /\ Needed(after, i) = Needed(asked, i)
    BY <2>2, PreparedFacts
  <2>4. \A j \in DOMAIN asked : ~Nameless(asked[j])  BY <1>3 DEF MInv, StatementKept
  <2> HIDE DEF after
  <2>5. ASSUME NEW j \in DOMAIN asked PROVE ~Nameless(after[j])
    <3>1. CASE asked[j].kind \in {"name", "table", "subscript"}
      <4>1. AfterPreparing(asked[j], statement.aliases).kind = "text"
        BY <3>1 DEF AfterPreparing
      <4>2. QED  BY <2>3, <4>1 DEF Nameless
    <3>2. CASE asked[j].kind \notin {"name", "table", "subscript"}
      <4>1. AfterPreparing(asked[j], statement.aliases) = asked[j]
        BY <3>2 DEF AfterPreparing
      <4>2. QED  BY <2>3, <2>4, <4>1
    <3>3. QED  BY <3>1, <3>2
  <2>6. ASSUME NEW k \in DOMAIN asked, Faultless(after, k - 1) PROVE Faultless(asked, k - 1)
    <3> SUFFICES ASSUME NEW j \in 1..k - 1 PROVE ~Fault(asked, j)  BY DEF Faultless
    <3>1. j \in DOMAIN asked  BY <2>2
    <3>2. ~Fault(after, j)  BY <2>6 DEF Faultless
    <3>3. QED  BY <2>3, <2>4, <3>1, <3>2 DEF Fault
  <2>7. QED  BY <1>1, <1>3, <2>1, <2>3, <2>4, <2>5, <2>6 DEF Ended
<1>4. QED  BY <1>2, <1>3

(* The method returns nil exactly for want of parameters, and raises only  *)
(* for a table without a name.                                             *)
THEOREM Refusals == Spec => []RefusedForAReason
<1>1. ASSUME TypeOK, MInv PROVE RefusedForAReason
  BY <1>1, EndedAsked DEF RefusedForAReason
<1>2. IInv => TypeOK  BY DEF IInv
<1>3. QED  BY <1>1, <1>2, Invariance, WhereItStands, PTL

-----------------------------------------------------------------------------
(* The refinement of StatementCalls. *)
Verdict ==
  \/ result = "sql" /\ \A k \in DOMAIN asked : ~Fault(asked, k)
  \/ \E k \in DOMAIN asked :
       /\ Fault(asked, k) /\ Faultless(asked, k - 1)
       /\ result = IF Nameless(asked[k]) THEN "raised" ELSE "nil"

FirstFaultDecides == task # "idle" /\ result # "none" /\ Intact => Verdict

LEMMA DecidedByFirst ==
  ASSUME TypeOK, MInv
  PROVE  FirstFaultDecides
<1> SUFFICES ASSUME task # "idle", result # "none", Intact PROVE Verdict
  BY DEF FirstFaultDecides
<1>1. asked \in Seq(Units)  BY StatementsAssumption DEF IsStatement, TypeOK
<1>2. Len(asked) \in Nat /\ DOMAIN asked = 1..Len(asked) /\ Len(array) \in Nat
  BY <1>1, Ranges
<1>3. \A k \in Nat : Needed(asked, k) \in Nat  BY NeededFacts
<1>4. result \in {"sql", "nil", "raised"}  BY DEF TypeOK
<1>5. CASE result = "sql"
  <2> SUFFICES ASSUME NEW k \in DOMAIN asked PROVE ~Fault(asked, k)
    BY <1>5 DEF Verdict
  <2>1. ~Nameless(asked[k])  BY <1>5, EndedAsked
  <2>2. ASSUME task # "prepare" PROVE Needed(asked, k) <= Len(array)
    <3>1. Needed(asked, Len(asked)) <= Len(array)  BY <1>5, <2>2, EndedAsked
    <3>2. k \in Nat /\ k <= Len(asked)  BY <1>2
    <3>3. Needed(asked, k) <= Needed(asked, Len(asked))  BY <1>2, <3>2, NeededFacts
    <3>4. QED  BY <1>2, <1>3, <3>1, <3>2, <3>3
  <2>3. k \in Nat  BY <1>2
  <2>4. QED  BY <1>2, <1>3, <2>1, <2>2, <2>3 DEF Fault
<1>6. CASE result = "nil"
  <2>1. PICK k \in DOMAIN asked :
          task # "prepare" /\ Needed(asked, k) > Len(array) /\ Faultless(asked, k - 1)
    BY <1>6, EndedAsked
  <2>2. Fault(asked, k)  BY <2>1 DEF Fault
  <2>3. ~Nameless(asked[k])
    <3> SUFFICES ASSUME Nameless(asked[k]) PROVE FALSE  OBVIOUS
    <3>1. k \in Nat \ {0}  BY <1>2
    <3>2. asked[k].kind # "param"  BY DEF Nameless
    <3>3. Needed(asked, k) = Needed(asked, k - 1) + 0 /\ Needed(asked, k - 1) \in Nat
      BY <3>1, <3>2, CountUnit
    <3>4. CASE k = 1
      <4>1. Needed(asked, k - 1) = 0  BY <3>4, NeededFacts
      <4>2. QED  BY <1>2, <2>1, <3>3, <4>1
    <3>5. CASE k # 1
      <4>1. k - 1 \in 1..k - 1  BY <3>1, <3>5
      <4>2. ~Fault(asked, k - 1)  BY <2>1, <4>1 DEF Faultless
      <4>3. QED  BY <2>1, <3>3, <4>2 DEF Fault
    <3>6. QED  BY <3>4, <3>5
  <2>4. QED  BY <1>6, <2>1, <2>2, <2>3 DEF Verdict
<1>7. CASE result = "raised"
  <2>1. PICK k \in DOMAIN asked : Nameless(asked[k]) /\ Faultless(asked, k - 1)
    BY <1>7, EndedAsked
  <2>2. QED  BY <1>7, <2>1 DEF Verdict, Fault
<1>8. QED  BY <1>4, <1>5, <1>6, <1>7

(* Each step of the scanner is a step of a call, or none.                  *)
LEMMA CallsInit ==
  ASSUME Init
  PROVE  Calls!Init
  BY DEF Init, Calls!Init, NoStatement, Answered

LEMMA ScanIsCall ==
  ASSUME NEW who \in {"direct", "prepare", "execute"}, NEW text, NEW list,
         Scan(who, text, list), UNCHANGED <<asked, aliases, statement>>,
         who = "execute" => statement.prepared
  PROVE  Calls!Call(who, list)
  BY DEF Scan, Busy, Calls!Call, Calls!Waiting, Answered

LEMMA RenamingIsCall ==
  ASSUME NEW alias, NEW object, SetAlias(alias, object)
  PROVE  Calls!SetAlias(alias, object)
  BY DEF SetAlias, Busy, scanner, Calls!SetAlias, Calls!Waiting, Answered

LEMMA Silent ==
  ASSUME Busy, Same, result' = result
  PROVE  UNCHANGED Calls!vars
  BY DEF Busy, Same, Calls!vars, Answered

LEMMA EndIsAnswer ==
  ASSUME Busy, UNCHANGED <<asked, aliases, task, query, array>>,
         result' \in {"sql", "nil", "raised"},
         statement' = IF task = "prepare" /\ result' = "sql"
                      THEN [prepared |-> TRUE, sql |-> ret', aliases |-> aliases]
                      ELSE statement,
         FirstFaultDecides', SaysWhatIsAsked', PreparedSaysTheSame'
  PROVE  Calls!Answer
<1> DEFINE made == [is |-> statement.prepared, aliases |-> statement.aliases]
           verdict == IF task = "idle" THEN "none" ELSE result
           params == IF task = "idle" THEN <<>> ELSE array
           sql == IF Answered THEN ret ELSE <<>>
<1>1. /\ task # "idle" /\ result = "none" /\ task' = task /\ array' = array
      /\ asked' = asked /\ aliases' = aliases
  BY DEF Busy
<1>2. verdict = "none" /\ verdict' = result' /\ params = array /\ params' = params
  BY <1>1
<1>3. Calls!Waiting  BY <1>1 DEF Calls!Waiting
<1>4. ASSUME task # "execute" \/ KeptTwice(asked) PROVE Calls!Judged(result')
  <2>1. Intact'  BY <1>1, <1>4 DEF Intact
  <2>2. Verdict'  BY <1>1, <2>1 DEF FirstFaultDecides
  <2>3. \A k : Fault(asked, k)' <=> Calls!Wrong(k)
    BY <1>1 DEF Fault, Calls!Wrong, Needed, Nameless
  <2>4. \A k : Faultless(asked, k)' <=> \A j \in 1..k : ~Calls!Wrong(j)
    BY <2>3 DEF Faultless
  <2>5. QED  BY <1>1, <2>2, <2>3, <2>4 DEF Verdict, Calls!Judged, Calls!FirstWrong
<1>5. ASSUME result' = "sql", Calls!Intact
      PROVE  sql' = SQL(asked, IF task = "execute" THEN made.aliases ELSE aliases, params)
  <2>1. sql' = ret'  BY <1>1, <1>5 DEF Answered
  <2>2. CASE task = "direct"
    <3>1. Kept(asked)'  BY <1>1, <1>5, <2>2 DEF Calls!Intact, Kept
    <3>2. ret' = SQL(asked, aliases, array)'  BY <1>1, <1>5, <2>2, <3>1 DEF SaysWhatIsAsked
    <3>3. SQL(asked, aliases, array)' = SQL(asked, aliases, array)
      BY <1>1 DEF SQL, Meaning
    <3>4. QED  BY <1>2, <2>1, <2>2, <3>2, <3>3
  <2>3. CASE task = "execute"
    <3>1. Intact'  BY <1>1, <1>5, <2>3 DEF Calls!Intact, Intact
    <3>2. statement' = statement  BY <2>3
    <3>3. ret' = SQL(asked, statement.aliases, array)'
      BY <1>1, <1>5, <2>3, <3>1 DEF PreparedSaysTheSame
    <3>4. SQL(asked, statement.aliases, array)' = SQL(asked, statement.aliases, array)
      BY <1>1, <3>2 DEF SQL, Meaning
    <3>5. QED  BY <1>2, <2>1, <2>3, <3>3, <3>4
  <2>4. QED  BY <1>5, <2>2, <2>3 DEF Calls!Intact
<1>6. made' = IF task = "prepare" /\ result' = "sql"
              THEN [is |-> TRUE, aliases |-> aliases] ELSE made
  OBVIOUS
<1>7. QED  BY <1>1, <1>2, <1>3, <1>4, <1>5, <1>6 DEF Calls!Answer

LEMMA StepIsCall ==
  ASSUME TypeOK, [Next]_vars, FirstFaultDecides', SaysWhatIsAsked', PreparedSaysTheSame'
  PROVE  [Calls!Next]_(Calls!vars)
<1>1. CASE UNCHANGED vars  BY <1>1 DEF vars, scanner, Calls!vars, Answered
<1>2. CASE \E names \in Renamings : SetAlias(names.alias, names.object)
  BY <1>2, RenamingIsCall DEF Calls!Next
<1>3. CASE \E list \in ParamLists : Execute(list) \/ ExecutePrepared(list)
  <2>1. PICK list \in ParamLists : Execute(list) \/ ExecutePrepared(list)  BY <1>3
  <2>2. Calls!Call("direct", list) \/ Calls!Call("execute", list)
    BY <2>1, ScanIsCall DEF Execute, ExecutePrepared
  <2>3. QED  BY <2>2 DEF Calls!Next
<1>4. CASE Prepare
  <2>1. Calls!Call("prepare", <<>>)  BY <1>4, ScanIsCall DEF Prepare
  <2>2. QED  BY <2>1 DEF Calls!Next
<1>5. CASE CloseBrace \/ TooFewParameters
  <2>1. Busy /\ Same  BY <1>5 DEF CloseBrace, TooFewParameters, Scanning, Replace
  <2>2. result' = result \/ result' \in {"raised", "nil"}
    BY <1>5 DEF CloseBrace, TooFewParameters, Replace, Return
  <2>3. CASE result' = result  BY <2>1, <2>3, Silent
  <2>4. CASE result' \in {"raised", "nil"}
    <3>1. Calls!Answer  BY <2>1, <2>4, EndIsAnswer DEF Same
    <3>2. QED  BY <3>1 DEF Calls!Next
  <2>5. QED  BY <2>2, <2>3, <2>4
<1>6. CASE CloseBracket \/ CloseQuote \/ InsideQuote \/ OpenQuote \/ Placeholder \/ Ordinary
  <2>1. Busy /\ Same /\ result' = result
    BY <1>6 DEF CloseBracket, CloseQuote, InsideQuote, OpenQuote, Placeholder, Ordinary,
                Scanning, Replace
  <2>2. QED  BY <2>1, Silent
<1>7. CASE Finish
  <2>1. Calls!Answer  BY <1>7, EndIsAnswer DEF Finish, Return
  <2>2. QED  BY <2>1 DEF Calls!Next
<1>8. QED  BY <1>1, <1>2, <1>3, <1>4, <1>5, <1>6, <1>7 DEF Next

(* The scanner, character by character, implements the calls as the        *)
(* program sees them: each has one answer, and the first fault decides it. *)
THEOREM CallsAreAnswered == Spec => CallsAnswered
<1>1. Spec => []FirstFaultDecides
  <2>1. IInv => TypeOK  BY DEF IInv
  <2>2. QED  BY <2>1, DecidedByFirst, Invariance, WhereItStands, PTL
<1>2. IInv => TypeOK  BY DEF IInv
<1>3. QED
  BY <1>1, <1>2, CallsInit, StepIsCall, Invariance, DirectSQL, PreparedSQL, PTL
     DEF Spec, CallsAnswered, Calls!Spec

-----------------------------------------------------------------------------
(* Every text is the text of a statement.                                  *)
LEMMA OneUnitMore ==
  ASSUME NEW units \in Seq(Units), NEW u \in Units
  PROVE  /\ Append(units, u) \in Seq(Units)
         /\ Text(Append(units, u)) = Text(units) \o Written(u)
<1> DEFINE more == Append(units, u)
           seqs == In(more)
<1>1. /\ more \in Seq(Units) /\ Len(more) = Len(units) + 1 /\ Len(units) \in Nat
      /\ more[Len(units) + 1] = u /\ \A i \in 1..Len(units) : more[i] = units[i]
  OBVIOUS
<1> HIDE DEF more
<1>2. /\ seqs \in Seq(Seq(Chars)) /\ Len(seqs) = Len(units) + 1
      /\ \A i \in 1..Len(units) + 1 : seqs[i] = Written(more[i])
      /\ Text(more) = FlattenSeq(seqs)
  BY <1>1, InFacts
<1>3. /\ In(units) \in Seq(Seq(Chars)) /\ Len(In(units)) = Len(units)
      /\ \A i \in 1..Len(units) : In(units)[i] = Written(units[i])
      /\ Text(units) = FlattenSeq(In(units))
  BY InFacts
<1> HIDE DEF seqs
<1>4. SubSeq(seqs, 1, Len(units)) = In(units)
  <2> DEFINE part == SubSeq(seqs, 1, Len(units))
  <2>1. /\ part \in Seq(Seq(Chars)) /\ Len(part) = Len(units)
        /\ \A i \in 1..Len(units) : part[i] = seqs[i]
    BY <1>1, <1>2
  <2> HIDE DEF part
  <2>2. \A i \in 1..Len(units) : part[i] = In(units)[i]
    BY <1>1, <1>2, <1>3, <2>1
  <2> DEFINE all == In(units)
  <2>3. all \in Seq(Seq(Chars)) /\ Len(all) = Len(units) /\ Len(units) \in Nat
    BY <1>1, <1>3
  <2> HIDE DEF all
  <2>4. /\ part = [i \in 1..Len(units) |-> part[i]]
        /\ all = [i \in 1..Len(units) |-> all[i]]
    BY <2>1, <2>3
  <2>5. QED  BY <2>2, <2>4 DEF part, all
<1>5. Joined(seqs, Len(units) + 1) = Joined(seqs, Len(units)) \o seqs[Len(units) + 1]
  <2>1. Len(units) + 1 \in 1..Len(seqs) /\ (Len(units) + 1) - 1 = Len(units)  BY <1>1, <1>2
  <2>2. QED  BY <1>2, <2>1, JoinedStep
<1>6. Joined(seqs, Len(units) + 1) = FlattenSeq(seqs)  BY <1>2, JoinedAll
<1>7. Joined(seqs, Len(units)) = Text(units)  BY <1>3, <1>4 DEF Joined
<1>8. seqs[Len(units) + 1] = Written(u)  BY <1>1, <1>2
<1>9. Text(more) = Text(units) \o Written(u)  BY <1>2, <1>5, <1>6, <1>7, <1>8
<1>10. QED  BY <1>1, <1>9 DEF more

LEMMA EvenWhenLast ==
  ASSUME NEW u \in Units, NEW last \in BOOLEAN, WellWritten(u, FALSE)
  PROVE  WellWritten(u, last)
<1>1. CASE u.kind = "text"
  <2>1. u.text # <<>> /\ (Plain(u.text) \/ Quoted(u.text))  BY <1>1 DEF WellWritten
  <2>2. QED  BY <1>1, <2>1 DEF WellWritten
<1>2. CASE u.kind = "param"  BY <1>2 DEF WellWritten
<1>3. CASE u.kind = "table"  BY <1>3 DEF WellWritten
<1>4. CASE u.kind = "name"  BY <1>4 DEF WellWritten
<1>5. CASE u.kind = "subscript"  BY <1>5 DEF WellWritten
<1>6. QED  BY <1>1, <1>2, <1>3, <1>4, <1>5 DEF Units

(* A text begins with a unit; one that leaves a quote open is all of it.   *)
Begins(text, u, j) ==
  /\ u \in Units /\ j \in 1..Len(text) /\ Written(u) = SubSeq(text, 1, j)
  /\ WellWritten(u, FALSE) \/ (j = Len(text) /\ WellWritten(u, TRUE))

LEMMA BeginsWithUnit ==
  ASSUME NEW text \in Seq(Chars), text # <<>>
  PROVE  \E u, j : Begins(text, u, j)
<1> DEFINE unit(kind, t) == [kind |-> kind, text |-> t]
           c == text[1]
<1>1. Len(text) \in Nat \ {0} /\ c \in Chars /\ \A i \in 1..Len(text) : text[i] \in Chars
  OBVIOUS
<1>2. \A j \in 1..Len(text) :
        /\ SubSeq(text, 1, j) \in Seq(Chars) /\ Len(SubSeq(text, 1, j)) = j
        /\ \A i \in 1..j : SubSeq(text, 1, j)[i] = text[i]
  BY <1>1
<1>3. ASSUME NEW kind \in {"text", "param", "name", "table", "subscript"}, NEW t \in Seq(Chars)
      PROVE  unit(kind, t) \in Units
  BY DEF Units
<1>4. CASE c = "qm"
  <2>1. unit("param", <<>>) \in Units
    <3>1. <<>> \in Seq(Chars)  OBVIOUS
    <3>2. QED  BY <3>1, <1>3
  <2>2. SubSeq(text, 1, 1) = <<"qm">>
    <3> DEFINE t == SubSeq(text, 1, 1)
    <3>1. t \in Seq(Chars) /\ Len(t) = 1 /\ t[1] = "qm"
      <4>1. 1 \in 1..Len(text) /\ 1 \in 1..1  BY <1>1
      <4>2. QED  BY <4>1, <1>2, <1>4
    <3> HIDE DEF t
    <3>2. t = <<"qm">>  BY <3>1
    <3>3. QED  BY <3>2 DEF t
  <2>3. Written(unit("param", <<>>)) = <<"qm">> /\ WellWritten(unit("param", <<>>), FALSE)
    BY DEF Written, WellWritten
  <2>4. 1 \in 1..Len(text)  BY <1>1
  <2>5. QED  BY <2>1, <2>2, <2>3, <2>4, Zenon DEF Begins
<1>5. CASE c # "qm" /\ c \notin Openers
  <2> DEFINE t == SubSeq(text, 1, 1)
  <2>1. 1 \in 1..Len(text)  BY <1>1
  <2>2. t \in Seq(Chars) /\ Len(t) = 1 /\ t[1] = c  BY <1>2, <2>1
  <2> HIDE DEF t
  <2>3. t # <<>> /\ Plain(t)
    <3>1. t # <<>> /\ \A i \in DOMAIN t : i = 1  BY <2>2
    <3>2. \A i \in DOMAIN t : t[i] = c  BY <2>2, <3>1
    <3> HIDE DEF c
    <3>3. QED  BY <3>1, <3>2, <1>5, Zenon DEF Plain
  <2>4. unit("text", t) \in Units  BY <1>3, <2>2
  <2>5. Written(unit("text", t)) = t /\ WellWritten(unit("text", t), FALSE)
    BY <2>3 DEF Written, WellWritten
  <2>6. QED  BY <2>1, <2>4, <2>5, Zenon DEF Begins, t
<1>6. CASE c \in Openers /\ \A i \in 2..Len(text) : text[i] \notin Ends(c)
  <2>1. LeftOpen(text)  BY <1>6 DEF LeftOpen
  <2>2. unit("text", text) \in Units  BY <1>3
  <2>3. Written(unit("text", text)) = text /\ WellWritten(unit("text", text), TRUE)
    BY <2>1 DEF Written, WellWritten
  <2>4. SubSeq(text, 1, Len(text)) = text /\ Len(text) \in 1..Len(text)  BY <1>1
  <2>5. QED  BY <2>2, <2>3, <2>4, Zenon DEF Begins
<1>7. CASE c \in Openers /\ \E i \in 2..Len(text) : text[i] \in Ends(c)
  <2> DEFINE Stops == {i \in 2..Len(text) : text[i] \in Ends(c)}
  <2>1. Stops # {} /\ Stops \in SUBSET Nat  BY <1>7
  <2>2. PICK j \in Stops : \A i \in Stops : j <= i
    <3> HIDE DEF Stops
    <3>1. QED  BY <2>1, Least
  <2>3. /\ j \in 2..Len(text) /\ j \in 1..Len(text) /\ text[j] \in Ends(c)
        /\ \A i \in 2..j - 1 : text[i] \notin Ends(c)
    BY <1>1, <2>2
  <2> HIDE DEF Stops
  <2> DEFINE t == SubSeq(text, 1, j)
             inner == SubSeq(text, 2, j - 1)
  <2>4. /\ t \in Seq(Chars) /\ Len(t) = j /\ t[1] = c /\ t[j] = text[j]
        /\ \A i \in 2..j - 1 : t[i] = text[i]
    BY <1>1, <1>2, <2>3
  <2>5. /\ inner \in Seq(Chars) /\ Len(inner) = j - 2
        /\ \A i \in 1..j - 2 : inner[i] = text[i + 1]
    BY <1>1, <2>3
  <2>6. CASE text[j] = c
    <3> HIDE DEF t
    <3>1. t # <<>> /\ Quoted(t)  BY <1>7, <2>3, <2>4, <2>6 DEF Quoted
    <3>2. unit("text", t) \in Units  BY <1>3, <2>4
    <3>3. Written(unit("text", t)) = t /\ WellWritten(unit("text", t), FALSE)
      BY <3>1 DEF Written, WellWritten
    <3>4. QED  BY <2>3, <3>2, <3>3, Zenon DEF Begins, t
  <2>7. CASE text[j] # c
    <3>1. \/ c = "lb" /\ text[j] = "rb"
          \/ c = "lc" /\ text[j] = "rc"
      <4> HIDE DEF c
      <4>1. c = "lb" => Ends(c) = {"lb", "rb"}  BY DEF Ends
      <4>2. c = "lc" => Ends(c) = {"lc", "rc"}  BY DEF Ends
      <4>3. c # "lb" /\ c # "lc" => Ends(c) = {c}  BY DEF Ends
      <4> DEFINE x == text[j]
      <4>4. x \in Ends(c) /\ x # c  BY <2>3, <2>7
      <4> HIDE DEF x
      <4>5. (c = "lb" /\ x = "rb") \/ (c = "lc" /\ x = "rc")  BY <4>1, <4>2, <4>3, <4>4
      <4>6. QED  BY <4>5 DEF x
    <3>2. t = <<c>> \o inner \o <<text[j]>>
      <4> DEFINE w == <<c>> \o inner \o <<text[j]>>
      <4> HIDE DEF t, inner
      <4>1. /\ Len(w) = Len(inner) + 2 /\ w[1] = c /\ w[Len(inner) + 2] = text[j]
            /\ \A i \in 1..Len(inner) : w[i + 1] = inner[i]
        <5> HIDE DEF w, c
        <5>1. w = <<c>> \o inner \o <<text[j]>>  BY DEF w
        <5>2. QED  BY <1>1, <2>3, <2>5, <5>1, Enclosed
      <4>2. w \in Seq(Chars)  BY <1>1, <2>3, <2>5
      <4> HIDE DEF w
      <4>3. Len(w) = j  BY <2>3, <2>5, <4>1
      <4>4. ASSUME NEW i \in 1..j PROVE w[i] = t[i]
        <5>1. CASE i = 1  BY <5>1, <2>4, <4>1
        <5>2. CASE i = j  BY <5>2, <2>3, <2>4, <2>5, <4>1
        <5>3. CASE i # 1 /\ i # j
          <6>1. i - 1 \in 1..Len(inner) /\ i - 1 \in 1..j - 2 /\ i \in 2..j - 1
            BY <5>3, <2>3, <2>5
          <6>2. w[(i - 1) + 1] = inner[i - 1] /\ inner[i - 1] = text[(i - 1) + 1]
            BY <6>1, <2>5, <4>1
          <6>3. QED  BY <6>1, <6>2, <2>3, <2>4
        <5>4. QED  BY <5>1, <5>2, <5>3
      <4>5. w = t  BY <2>3, <2>4, <4>2, <4>3, <4>4
      <4>6. QED  BY <4>5 DEF w
    <3>3. Only(inner, Chars \ Ends(c))
      <4>1. ASSUME NEW i \in DOMAIN inner PROVE inner[i] \in Chars \ Ends(c)
        <5>1. i \in 1..j - 2 /\ i + 1 \in 2..j - 1  BY <2>3, <2>5
        <5>2. inner[i] = text[i + 1]  BY <2>5, <5>1
        <5>3. QED  BY <1>1, <2>3, <5>1, <5>2
      <4>2. QED  BY <4>1 DEF Only
    <3> HIDE DEF t, inner
    <3>4. CASE c = "lc"
      <4>1. text[j] = "rc"  BY <3>1, <3>4
      <4>2. unit("table", inner) \in Units  BY <1>3, <2>5
      <4>3. Written(unit("table", inner)) = t  BY <3>2, <3>4, <4>1 DEF Written
      <4>4. WellWritten(unit("table", inner), FALSE)  BY <3>3, <3>4 DEF WellWritten
      <4>5. QED  BY <2>3, <4>2, <4>3, <4>4, Zenon DEF Begins, t
    <3>5. CASE c = "lb" /\ Only(inner, Digits)
      <4>1. text[j] = "rb"  BY <3>1, <3>5
      <4>2. unit("subscript", inner) \in Units  BY <1>3, <2>5
      <4>3. Written(unit("subscript", inner)) = t  BY <3>2, <3>5, <4>1 DEF Written
      <4>4. WellWritten(unit("subscript", inner), FALSE)  BY <3>5 DEF WellWritten
      <4>5. QED  BY <2>3, <4>2, <4>3, <4>4, Zenon DEF Begins, t
    <3>6. CASE c = "lb" /\ ~Only(inner, Digits)
      <4>1. text[j] = "rb"  BY <3>1, <3>6
      <4>2. unit("name", inner) \in Units  BY <1>3, <2>5
      <4>3. Written(unit("name", inner)) = t  BY <3>2, <3>6, <4>1 DEF Written
      <4>4. WellWritten(unit("name", inner), FALSE)  BY <3>3, <3>6 DEF WellWritten
      <4>5. QED  BY <2>3, <4>2, <4>3, <4>4, Zenon DEF Begins, t
    <3>7. QED  BY <3>1, <3>4, <3>5, <3>6, Zenon
  <2>8. QED  BY <2>6, <2>7
<1>8. QED  BY <1>4, <1>5, <1>6, <1>7

(* What is left of a text after its first k characters. *)
LEMMA Remainder ==
  ASSUME NEW text \in Seq(Chars), NEW k \in 0..Len(text) - 1,
         NEW rest, rest = SubSeq(text, k + 1, Len(text))
  PROVE  /\ rest \in Seq(Chars) /\ Len(rest) = Len(text) - k /\ rest # <<>>
         /\ \A j \in 1..Len(text) - k :
              SubSeq(text, 1, k) \o SubSeq(rest, 1, j) = SubSeq(text, 1, k + j)
<1>1. k \in Nat /\ Len(text) \in Nat /\ k < Len(text) /\ \A i \in 1..Len(text) : text[i] \in Chars
  OBVIOUS
<1>2. /\ rest \in Seq(Chars) /\ Len(rest) = Len(text) - k
      /\ \A i \in 1..Len(text) - k : rest[i] = text[k + i]
  BY <1>1
<1>3. rest # <<>>
  <2>1. k \in Nat /\ Len(text) \in Nat /\ k < Len(text)  BY <1>1
  <2>2. Len(rest) # 0
    <3>1. Len(text) - k # 0  BY <2>1
    <3>2. QED  BY <1>2, <3>1
  <2>3. Len(<<>>) = 0  OBVIOUS
  <2>4. QED  BY <2>2, <2>3
<1>4. ASSUME NEW j \in 1..Len(text) - k
      PROVE  SubSeq(text, 1, k) \o SubSeq(rest, 1, j) = SubSeq(text, 1, k + j)
  <2> DEFINE a == SubSeq(rest, 1, j)
             b == SubSeq(text, k + 1, k + j)
  <2>1. a \in Seq(Chars) /\ Len(a) = j /\ \A i \in 1..j : a[i] = rest[i]
    BY <1>1, <1>2
  <2>2. b \in Seq(Chars) /\ Len(b) = j /\ \A i \in 1..j : b[i] = text[k + i]
    BY <1>1
  <2> HIDE DEF a, b
  <2>3. ASSUME NEW i \in 1..j PROVE a[i] = b[i]
    <3>1. i \in 1..Len(text) - k  BY <1>1
    <3>2. QED  BY <1>2, <2>1, <2>2, <3>1
  <2>4. a = [i \in 1..j |-> a[i]] /\ b = [i \in 1..j |-> b[i]]  BY <2>1, <2>2
  <2>5. a = b  BY <2>3, <2>4
  <2>6. 1 \in 1..Len(text) + 1 /\ k \in 1 - 1..Len(text) /\ k + j \in k..Len(text)
    BY <1>1
  <2>7. QED  BY <2>5, <2>6, ConcatAdjacentSubSeq DEF a, b
<1>5. QED  BY <1>2, <1>3, <1>4

(* The method takes any string (line 1404).  The syntax of statements      *)
(* leaves none out: every text is written by some statement, so what is    *)
(* proved of statements is proved of all texts.                            *)
THEOREM AnyText ==
  ASSUME NEW text \in Seq(Chars)
  PROVE  \E units : IsStatement(units) /\ Text(units) = text
<1> DEFINE Before(units, k) ==
             /\ units \in Seq(Units) /\ \A i \in DOMAIN units : WellWritten(units[i], FALSE)
             /\ Text(units) = SubSeq(text, 1, k)
           Left == {m \in 0..Len(text) : \E units : Before(units, Len(text) - m)}
<1>1. Len(text) \in Nat /\ SubSeq(text, 1, Len(text)) = text  OBVIOUS
<1>2. Len(text) \in Left
  <2>1. <<>> \in Seq(Units) /\ DOMAIN <<>> = {} /\ Len(<<>>) = 0  OBVIOUS
  <2>2. Text(<<>>) = <<>>
    <3>1. /\ In(<<>>) \in Seq(Seq(Chars)) /\ Len(In(<<>>)) = 0
          /\ Text(<<>>) = FlattenSeq(In(<<>>))
      BY <2>1, InFacts
    <3>2. Joined(In(<<>>), 0) = FlattenSeq(In(<<>>))  BY <3>1, JoinedAll
    <3>3. QED  BY <3>1, <3>2, JoinedNone
  <2>3. Len(text) - Len(text) = 0 /\ SubSeq(text, 1, 0) = <<>>  BY <1>1
  <2>4. Before(<<>>, Len(text) - Len(text))  BY <2>1, <2>2, <2>3
  <2> HIDE DEF Before
  <2>5. Len(text) \in 0..Len(text)  BY <1>1
  <2>6. QED  BY <2>4, <2>5
<1>3. Left \in SUBSET Nat /\ Left # {}
  <2> HIDE DEF Before
  <2>1. Left \in SUBSET Nat  BY <1>1
  <2>2. QED  BY <1>2, <2>1
<1>4. PICK m \in Left : \A y \in Left : m <= y
  <2> HIDE DEF Left
  <2>1. QED  BY <1>3, Least
<1> DEFINE k == Len(text) - m
<1>5. PICK units : Before(units, k)  OBVIOUS
<1>6. m \in 0..Len(text) /\ k \in 0..Len(text)  BY <1>1
<1>7. CASE m = 0
  <2>1. k = Len(text)  BY <1>1, <1>7
  <2>2. \A i \in DOMAIN units : WellWritten(units[i], i = Len(units))
    <3> TAKE i \in DOMAIN units
    <3>1. units[i] \in Units  BY <1>5
    <3>2. (i = Len(units)) \in BOOLEAN /\ WellWritten(units[i], FALSE)  BY <1>5, Zenon
    <3>3. QED  BY <3>1, <3>2, EvenWhenLast, Zenon
  <2>3. Text(units) = text  BY <1>1, <1>5, <2>1
  <2>4. units \in Seq(Units)  BY <1>5
  <2>5. QED  BY <2>2, <2>3, <2>4, Zenon DEF IsStatement
<1>8. CASE m # 0
  <2> DEFINE rest == SubSeq(text, k + 1, Len(text))
  <2> HIDE DEF Before, Left
  <2>1. /\ rest \in Seq(Chars) /\ Len(rest) = m /\ rest # <<>>
        /\ \A j \in 1..m : SubSeq(text, 1, k) \o SubSeq(rest, 1, j) = SubSeq(text, 1, k + j)
    <3>1. k \in 0..Len(text) - 1 /\ Len(text) - k = m  BY <1>1, <1>6, <1>8
    <3> HIDE DEF k
    <3>2. QED  BY <3>1, Remainder
  <2> HIDE DEF rest, Before, Left, k
  <2>3. PICK u, j : Begins(rest, u, j)  BY <2>1, BeginsWithUnit
  <2>4. /\ u \in Units /\ j \in 1..m /\ Written(u) = SubSeq(rest, 1, j)
        /\ WellWritten(u, FALSE) \/ (j = m /\ WellWritten(u, TRUE))
    BY <2>1, <2>3 DEF Begins
  <2> DEFINE more == Append(units, u)
  <2>5. units \in Seq(Units) /\ Text(units) = SubSeq(text, 1, k)  BY <1>5 DEF Before
  <2>6. more \in Seq(Units) /\ Text(more) = SubSeq(text, 1, k + j)
    <3>1. more \in Seq(Units) /\ Text(more) = Text(units) \o Written(u)
      BY <2>4, <2>5, OneUnitMore
    <3> HIDE DEF more
    <3>2. QED  BY <2>1, <2>4, <2>5, <3>1
  <2>7. /\ Len(units) \in Nat /\ DOMAIN more = 1..Len(units) + 1 /\ Len(more) = Len(units) + 1
        /\ more[Len(units) + 1] = u
        /\ \A i \in 1..Len(units) : i \in DOMAIN units /\ more[i] = units[i]
    BY <2>5, <2>4
  <2> HIDE DEF more
  <2>8. \A i \in 1..Len(units) : WellWritten(more[i], FALSE)
    BY <1>5, <2>7, Zenon DEF Before
  <2>9. CASE WellWritten(u, FALSE)
    <3>1. \A i \in DOMAIN more : WellWritten(more[i], FALSE)
      <4> TAKE i \in DOMAIN more
      <4>1. i \in 1..Len(units) \/ i = Len(units) + 1  BY <2>7
      <4>2. QED  BY <2>7, <2>8, <2>9, <4>1, Zenon
    <3>2. Before(more, k + j)  BY <2>6, <3>1 DEF Before
    <3>3. m - j \in 0..Len(text) /\ Len(text) - (m - j) = k + j /\ ~(m <= m - j)
      BY <1>1, <1>6, <2>4 DEF k
    <3>4. Before(more, Len(text) - (m - j))  BY <3>2, <3>3
    <3>5. m - j \in Left  BY <3>3, <3>4 DEF Left
    <3>6. QED  BY <1>4, <3>3, <3>5
  <2>10. CASE j = m /\ WellWritten(u, TRUE)
    <3>1. k + m = Len(text)  BY <1>1, <1>6 DEF k
    <3>2. Text(more) = text  BY <1>1, <2>6, <2>10, <3>1
    <3>3. \A i \in DOMAIN more : WellWritten(more[i], i = Len(more))
      <4> TAKE i \in DOMAIN more
      <4>1. CASE i \in 1..Len(units)
        <5>1. WellWritten(more[i], FALSE)  BY <2>8, <4>1
        <5>2. (i = Len(more)) \in BOOLEAN  OBVIOUS
        <5>3. more[i] \in Units  BY <2>6
        <5>4. QED  BY <5>1, <5>2, <5>3, EvenWhenLast, Zenon
      <4>2. CASE i = Len(units) + 1
        <5>1. (i = Len(more)) = TRUE /\ more[i] = u  BY <2>7, <4>2
        <5>2. WellWritten(more[i], TRUE)  BY <5>1, <2>10
        <5>3. QED  BY <5>1, <5>2, Zenon
      <4>3. i \in 1..Len(units) \/ i = Len(units) + 1  BY <2>7
      <4>4. QED  BY <4>1, <4>2, <4>3
    <3>4. QED  BY <2>6, <3>2, <3>3, Zenon DEF IsStatement
  <2>11. QED  BY <2>4, <2>9, <2>10
<1>9. QED  BY <1>7, <1>8
=============================================================================
