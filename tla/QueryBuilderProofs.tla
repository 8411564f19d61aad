------------------------- MODULE QueryBuilderProofs -------------------------
(***************************************************************************)
(* Proofs about QueryBuilder, for statements, parameters, names and        *)
(* aliases of any length and number.                                       *)
(*                                                                         *)
(* What the properties need beyond themselves: a piece carries no number   *)
(* above n, the result of a statement that is prepared consists of         *)
(* characters alone, and the pending text begins with the open quote.      *)
(***************************************************************************)
EXTENDS QueryBuilder, Flattening, TLAPS

Preparing == task = "prepare" => ret \in Seq(Chars)

Bounded == \A i \in DOMAIN tarray : tarray[i].index <= n

(* The pending text begins with the quote or the bracket that is open.     *)
Opened == q # "none" => s < e /\ query[s] = q

IInv == TypeOK /\ OnlySuffixEndsLost /\ ParametersInOrder /\ Preparing /\ Bounded /\ Opened

Pieces == [kind : {"copy", "name", "value"}, from : Nat, to : Nat,
           text : Seq(Symbols), index : Nat]

-----------------------------------------------------------------------------
(* Sequences. *)

LEMMA AppendFacts ==
  ASSUME NEW S, NEW x \in Seq(S), NEW v \in S
  PROVE  /\ Append(x, v) \in Seq(S)
         /\ Len(Append(x, v)) = Len(x) + 1
         /\ DOMAIN Append(x, v) = 1..Len(x) + 1
         /\ Append(x, v)[Len(x) + 1] = v
         /\ \A i \in DOMAIN x : Append(x, v)[i] = x[i]
  OBVIOUS

LEMMA PartOf ==
  ASSUME NEW S, NEW x \in Seq(S), NEW i \in Nat \ {0}, NEW j \in Nat, j <= Len(x)
  PROVE  SubSeq(x, i, j) \in Seq(S)
  OBVIOUS

LEMMA Wider ==
  ASSUME NEW S, NEW T, S \subseteq T, NEW x \in Seq(S)
  PROVE  x \in Seq(T)
  OBVIOUS

(* Quoted names consist of characters. *)
LEMMA QuotedName ==
  ASSUME NEW known, \A a \in DOMAIN known : known[a] \in Seq(Chars),
         NEW name \in Seq(Chars), NEW qualify \in BOOLEAN
  PROVE  QuoteObject(known, name, qualify) \in Seq(Chars)
<1>1. "dq" \in Chars  BY DEF Chars, Openers
<1>2. InQuotes(name) \in Seq(Chars)  BY <1>1 DEF InQuotes
<1>3. Qualified(name) \in Seq(Chars)
  BY <1>2, QueryBuilderAssumption DEF Qualified
<1>4. QED  BY <1>2, <1>3 DEF QuoteObject

(* So does the text of a statement.                                        *)
LEMMA WrittenType ==
  ASSUME NEW u \in Units
  PROVE  Written(u) \in Seq(Chars)
<1>1. {"qm", "lc", "rc", "lb", "rb"} \subseteq Chars  BY DEF Chars, Openers
<1>2. u.text \in Seq(Chars)  BY DEF Units
<1>3. /\ <<"qm">> \in Seq(Chars) /\ <<"lc">> \in Seq(Chars) /\ <<"rc">> \in Seq(Chars)
      /\ <<"lb">> \in Seq(Chars) /\ <<"rb">> \in Seq(Chars)
  BY <1>1
<1>4. /\ <<"lc">> \o u.text \o <<"rc">> \in Seq(Chars)
      /\ <<"lb">> \o u.text \o <<"rb">> \in Seq(Chars)
  BY <1>2, <1>3
<1>5. QED  BY <1>2, <1>3, <1>4 DEF Written

LEMMA TextType ==
  ASSUME NEW units \in Seq(Units)
  PROVE  /\ [i \in DOMAIN units |-> Written(units[i])] \in Seq(Seq(Chars))
         /\ Text(units) \in Seq(Chars)
<1> DEFINE written == [i \in DOMAIN units |-> Written(units[i])]
<1>1. \A i \in DOMAIN units : Written(units[i]) \in Seq(Chars)
  <2>1. \A i \in DOMAIN units : units[i] \in Units  OBVIOUS
  <2>2. QED  BY <2>1, WrittenType
<1>2. DOMAIN units = 1..Len(units) /\ Len(units) \in Nat  OBVIOUS
<1>3. written \in Seq(Seq(Chars))  BY <1>1, <1>2
<1> HIDE DEF written
<1>4. Len(written) \in 0..Len(written)  BY <1>3
<1>5. FlattenSeq(written) \in Seq(Chars)  BY <1>3, <1>4, JoinedType, JoinedAll
<1>6. QED  BY <1>3, <1>5 DEF Text, written

LEMMA CharsAreSymbols == Chars \subseteq Symbols
  BY DEF Symbols
-----------------------------------------------------------------------------
(* Lists of pieces: what OnlySuffixEndsLost, ParametersInOrder and Bounded *)
(* say of one, and what appending a piece does to it.                      *)
Cut(p, text) ==
  /\ p.kind = "copy" /\ text[p.from] = "lb"
  /\ \A i \in p.from + 1..p.to : text[i] \in Digits
  /\ p.to < Len(text) /\ text[p.to + 1] = "rb"

After(p, text) == IF Cut(p, text) THEN p.to + 2 ELSE p.to + 1

Upto(t, text) == IF t = <<>> THEN 1 ELSE After(t[Len(t)], text)

(* A piece is what stands in the text, or stands for what is there.        *)
Fits(p, text) ==
  /\ p.from <= p.to
  /\ p.kind = "copy" => p.text = SubSeq(text, p.from, p.to)
  /\ p.kind = "name" => \/ text[p.from] = "lb" /\ text[p.to] = "rb"
                        \/ text[p.from] = "lc" /\ text[p.to] = "rc"

Tiling(t, text) ==
  \A i \in DOMAIN t :
    Fits(t[i], text) /\ t[i].from = IF i = 1 THEN 1 ELSE After(t[i - 1], text)

Texts(t) == [i \in DOMAIN t |-> t[i].text]

Glued(t) == FlattenSeq(Texts(t))

Numbered(t, k) ==
  /\ \A i, j \in DOMAIN t :
       t[i].index > 0 /\ t[j].index > 0 /\ i < j => t[i].index < t[j].index
  /\ \A m \in 1..k : \E i \in DOMAIN t : t[i].index = m

Marked(t, text) ==
  \A i \in DOMAIN t :
    t[i].index > 0 => text[t[i].from] = "qm" /\ t[i].to = t[i].from

Below(t, k) == \A i \in DOMAIN t : t[i].index <= k

LEMMA AppendTiling ==
  ASSUME NEW text, NEW t \in Seq(Pieces), NEW p \in Pieces,
         Tiling(t, text), p.from = Upto(t, text), Fits(p, text)
  PROVE  Tiling(Append(t, p), text) /\ Upto(Append(t, p), text) = After(p, text)
<1> DEFINE u == Append(t, p)
<1>1. /\ u \in Seq(Pieces) /\ Len(u) = Len(t) + 1 /\ DOMAIN u = 1..Len(t) + 1
      /\ u[Len(t) + 1] = p /\ \A i \in DOMAIN t : u[i] = t[i]
  BY AppendFacts
<1>2. DOMAIN t = 1..Len(t) /\ Len(t) \in Nat /\ (t = <<>> <=> Len(t) = 0)  OBVIOUS
<1>3. Upto(u, text) = After(p, text)
  BY <1>1, <1>2 DEF Upto
<1>4. ASSUME NEW i \in DOMAIN u
      PROVE  Fits(u[i], text) /\ u[i].from = IF i = 1 THEN 1 ELSE After(u[i - 1], text)
  <2> HIDE DEF u
  <2>1. CASE i = Len(t) + 1
    <3>1. CASE Len(t) = 0
      BY <2>1, <3>1, <1>1, <1>2 DEF Upto
    <3>2. CASE Len(t) > 0
      <4>1. i # 1 /\ i - 1 = Len(t) /\ i - 1 \in DOMAIN t  BY <2>1, <3>2, <1>2
      <4>2. u[i - 1] = t[Len(t)]  BY <4>1, <1>1
      <4>3. p.from = After(t[Len(t)], text)  BY <3>2, <1>2 DEF Upto
      <4>4. QED  BY <2>1, <4>1, <4>2, <4>3, <1>1
    <3>3. QED  BY <3>1, <3>2, <1>2
  <2>2. CASE i # Len(t) + 1
    <3>1. i \in DOMAIN t /\ (i # 1 => i - 1 \in DOMAIN t)  BY <2>2, <1>1, <1>2
    <3>2. u[i] = t[i] /\ (i # 1 => u[i - 1] = t[i - 1])  BY <3>1, <1>1
    <3>3. QED  BY <3>1, <3>2 DEF Tiling
  <2>3. QED  BY <2>1, <2>2
<1>5. QED  BY <1>3, <1>4 DEF Tiling

LEMMA GluedNone == Glued(<<>>) = <<>>
<1>1. Texts(<<>>) \in Seq(Seq(Symbols)) /\ Len(Texts(<<>>)) = 0
  BY DEF Texts
<1>2. QED  BY <1>1, JoinedAll, JoinedNone DEF Glued

LEMMA AppendGlued ==
  ASSUME NEW t \in Seq(Pieces), NEW p \in Pieces
  PROVE  Glued(Append(t, p)) = Glued(t) \o p.text
<1> DEFINE u == Append(t, p)
           k == Len(t) + 1
<1>1. /\ u \in Seq(Pieces) /\ Len(u) = k /\ DOMAIN u = 1..k
      /\ u[k] = p /\ \A i \in DOMAIN t : u[i] = t[i]
  BY AppendFacts
<1>2. DOMAIN t = 1..Len(t) /\ Len(t) \in Nat  OBVIOUS
<1>3. /\ Texts(t) \in Seq(Seq(Symbols)) /\ Len(Texts(t)) = Len(t)
      /\ Texts(u) \in Seq(Seq(Symbols)) /\ Len(Texts(u)) = k
      /\ Texts(u)[k] = p.text
  <2>1. ASSUME NEW x \in Seq(Pieces)
        PROVE  Texts(x) \in Seq(Seq(Symbols)) /\ Len(Texts(x)) = Len(x)
    <3>1. \A i \in 1..Len(x) : x[i] \in Pieces  OBVIOUS
    <3>2. \A i \in 1..Len(x) : x[i].text \in Seq(Symbols)  BY <3>1 DEF Pieces
    <3>3. Texts(x) = [i \in 1..Len(x) |-> x[i].text] /\ Len(x) \in Nat  BY DEF Texts
    <3>4. QED  BY <3>2, <3>3
  <2> HIDE DEF u
  <2>2. k \in DOMAIN u  BY <1>1, <1>2
  <2>3. Texts(u)[k] = p.text  BY <1>1, <2>2 DEF Texts
  <2>4. QED  BY <1>1, <2>1, <2>3
<1>4. SubSeq(Texts(u), 1, Len(t)) = Texts(t)
  <2> DEFINE front == SubSeq(Texts(u), 1, Len(t))
             old == Texts(t)
  <2>1. front \in Seq(Seq(Symbols)) /\ Len(front) = Len(t)  BY <1>2, <1>3
  <2>2. ASSUME NEW i \in 1..Len(t) PROVE front[i] = old[i]
    <3> HIDE DEF u
    <3>1. front[i] = Texts(u)[i]  BY <1>2, <1>3
    <3>2. i \in DOMAIN u /\ i \in DOMAIN t  BY <1>1, <1>2
    <3>3. Texts(u)[i] = u[i].text /\ Texts(t)[i] = t[i].text  BY <3>2 DEF Texts
    <3>4. u[i] = t[i]  BY <1>1, <3>2
    <3>5. QED  BY <3>1, <3>3, <3>4
  <2>3. old \in Seq(Seq(Symbols)) /\ Len(old) = Len(t)  BY <1>3
  <2> HIDE DEF front, old
  <2>4. front = [i \in 1..Len(t) |-> front[i]] /\ old = [i \in 1..Len(t) |-> old[i]]
    BY <2>1, <2>3
  <2>5. front = old  BY <2>2, <2>4
  <2>6. QED  BY <2>5 DEF front, old
<1>5. k \in 1..Len(Texts(u)) /\ k - 1 = Len(t)  BY <1>2, <1>3
<1>6. Joined(Texts(u), k) = Joined(Texts(u), k - 1) \o Texts(u)[k]
  BY <1>3, <1>5, JoinedStep
<1>7. Joined(Texts(u), k - 1) = Glued(t)  BY <1>4, <1>5 DEF Joined, Glued
<1>8. Joined(Texts(u), k) = Glued(u)  BY <1>3, JoinedAll DEF Glued
<1>9. QED  BY <1>3, <1>6, <1>7, <1>8

LEMMA AppendNumbered ==
  ASSUME NEW t \in Seq(Pieces), NEW p \in Pieces, NEW k \in Nat, NEW m \in Nat,
         NEW text, Numbered(t, k), Marked(t, text), Below(t, k),
         (p.index = 0 /\ m = k) \/ (p.index = k + 1 /\ m = k + 1),
         p.index > 0 => text[p.from] = "qm" /\ p.to = p.from
  PROVE  Numbered(Append(t, p), m) /\ Marked(Append(t, p), text) /\ Below(Append(t, p), m)
<1> DEFINE u == Append(t, p)
<1>1. /\ u \in Seq(Pieces) /\ Len(u) = Len(t) + 1 /\ DOMAIN u = 1..Len(t) + 1
      /\ u[Len(t) + 1] = p /\ \A i \in DOMAIN t : u[i] = t[i]
  BY AppendFacts
<1>2. DOMAIN t = 1..Len(t) /\ Len(t) \in Nat  OBVIOUS
<1>3. \A i \in DOMAIN t : t[i].index \in Nat /\ t[i].to \in Nat
  <2>1. \A i \in DOMAIN t : t[i] \in Pieces  OBVIOUS
  <2>2. QED  BY <2>1 DEF Pieces
<1> HIDE DEF u
<1>4. \A i \in DOMAIN u : i \in DOMAIN t \/ i = Len(t) + 1  BY <1>1, <1>2
<1>5. Below(u, m)
  <2>1. p.index <= m  BY DEF Pieces
  <2>2. \A i \in DOMAIN t : t[i].index <= m  BY <1>3 DEF Below
  <2>3. QED  BY <2>1, <2>2, <1>1, <1>4 DEF Below
<1>6. Marked(u, text)  BY <1>1, <1>4 DEF Marked
<1>7. ASSUME NEW i \in DOMAIN u, NEW j \in DOMAIN u,
             u[i].index > 0, u[j].index > 0, i < j
      PROVE  u[i].index < u[j].index
  <2>1. i \in DOMAIN t  BY <1>7, <1>1, <1>2
  <2>2. CASE j \in DOMAIN t
    <3>1. u[i] = t[i] /\ u[j] = t[j]  BY <2>1, <2>2, <1>1
    <3>2. QED  BY <2>1, <2>2, <3>1, <1>7 DEF Numbered
  <2>3. CASE j = Len(t) + 1
    <3>1. u[i] = t[i] /\ u[j] = p  BY <2>1, <2>3, <1>1
    <3>2. t[i].index <= k /\ t[i].index \in Nat  BY <2>1, <1>3 DEF Below
    <3>3. p.index = k + 1  BY <3>1, <1>7
    <3>4. QED  BY <3>1, <3>2, <3>3
  <2>4. QED  BY <2>2, <2>3, <1>4
<1>8. ASSUME NEW x \in 1..m
      PROVE  \E i \in DOMAIN u : u[i].index = x
  <2>1. CASE x \in 1..k
    <3>1. PICK i \in DOMAIN t : t[i].index = x  BY <2>1 DEF Numbered
    <3>2. i \in DOMAIN u /\ u[i] = t[i]  BY <1>1, <1>2
    <3>3. QED  BY <3>1, <3>2
  <2>2. CASE x \notin 1..k
    <3>1. x = k + 1 /\ p.index = x  BY <2>2
    <3>2. QED  BY <3>1, <1>1, <1>2
  <2>3. QED  BY <2>1, <2>2
<1>9. QED  BY <1>5, <1>6, <1>7, <1>8 DEF Numbered, u

LEMMA AppendUnnumbered ==
  ASSUME NEW t \in Seq(Pieces), NEW p \in Pieces, NEW k \in Nat,
         NEW text, Numbered(t, k), Marked(t, text), Below(t, k),
         p.index = 0
  PROVE  /\ Numbered(Append(t, p), k) /\ Marked(Append(t, p), text)
         /\ Below(Append(t, p), k)
<1>1. p.index = 0 /\ k = k  OBVIOUS
<1>2. p.index > 0 => text[p.from] = "qm" /\ p.to = p.from  OBVIOUS
<1>3. QED  BY <1>1, <1>2, AppendNumbered

(* What TypeOK says of the scanner's variables. *)
LEMMA Ranges ==
  ASSUME TypeOK
  PROVE  /\ tarray \in Seq(Pieces) /\ ret \in Seq(Symbols) /\ query \in Seq(Chars)
         /\ array \in Seq(Values)
         /\ s \in Nat /\ e \in Nat /\ n \in Nat /\ Len(query) \in Nat /\ Len(array) \in Nat
         /\ 1 <= s /\ s <= e /\ e <= Len(query) + 1 /\ n <= Len(array)
  BY DEF TypeOK, Pieces

(* The conjuncts of IInv in these words. *)
LEMMA InWords ==
  /\ OnlySuffixEndsLost <=>
       /\ ret = Glued(tarray) /\ Tiling(tarray, query)
       /\ Upto(tarray, query) = IF result = "sql" THEN Len(query) + 1 ELSE s
  /\ ParametersInOrder <=>
       Numbered(tarray, n) /\ Marked(tarray, query) /\ (task = "prepare" => n = 0)
  /\ Bounded <=> Below(tarray, n)
<1>1. /\ Glued(tarray) = FlattenSeq([i \in DOMAIN tarray |-> tarray[i].text])
      /\ \A p : After(p, query) = Resumes(p)
      /\ Upto(tarray, query) = Continued
  BY DEF Glued, Texts, After, Cut, Resumes, CutShort, Upto, Continued
<1>2. Tiling(tarray, query) <=>
        \A i \in DOMAIN tarray :
          LET p == tarray[i] IN
          /\ p.from <= p.to
          /\ p.from = IF i = 1 THEN 1 ELSE Resumes(tarray[i - 1])
          /\ p.kind = "copy" => p.text = SubSeq(query, p.from, p.to)
          /\ p.kind = "name" => IsBracket(p.from, p.to)
  BY <1>1, Zenon DEF Tiling, Fits, IsBracket
<1>3. OnlySuffixEndsLost <=>
       /\ ret = Glued(tarray) /\ Tiling(tarray, query)
       /\ Upto(tarray, query) = IF result = "sql" THEN Len(query) + 1 ELSE s
  BY <1>1, <1>2, Zenon DEF OnlySuffixEndsLost
<1>4. ParametersInOrder <=>
       Numbered(tarray, n) /\ Marked(tarray, query) /\ (task = "prepare" => n = 0)
  BY DEF ParametersInOrder, Numbered, Marked, IsValue
<1>5. QED  BY <1>3, <1>4 DEF Bounded, Below

LEMMA WordsPrimed ==
  ASSUME ret' = Glued(tarray'), Tiling(tarray', query'),
         Upto(tarray', query') = IF result' = "sql" THEN Len(query') + 1 ELSE s',
         Numbered(tarray', n'), Marked(tarray', query'), Below(tarray', n'),
         task' = "prepare" => n' = 0
  PROVE  OnlySuffixEndsLost' /\ ParametersInOrder' /\ Bounded'
<1>1. (/\ OnlySuffixEndsLost <=>
            /\ ret = Glued(tarray) /\ Tiling(tarray, query)
            /\ Upto(tarray, query) = IF result = "sql" THEN Len(query) + 1 ELSE s
       /\ ParametersInOrder <=>
            Numbered(tarray, n) /\ Marked(tarray, query) /\ (task = "prepare" => n = 0)
       /\ Bounded <=> Below(tarray, n))'
  BY InWords, PTL
<1>2. QED  BY <1>1

-----------------------------------------------------------------------------
(* What flushing the pending text does, for the actions that flush.        *)
LEMMA FlushedFacts ==
  ASSUME IInv, result = "none", e <= Len(query) => query[e] # "rb"
  PROVE  /\ Flushed \in Seq(Pieces) /\ Tiling(Flushed, query) /\ Upto(Flushed, query) = e
         /\ FlushedText = Glued(Flushed)
         /\ Numbered(Flushed, n) /\ Marked(Flushed, query) /\ Below(Flushed, n)
         /\ FlushedText \in Seq(Symbols)
         /\ task = "prepare" => FlushedText \in Seq(Chars)
<1>1. /\ tarray \in Seq(Pieces) /\ s \in Nat /\ e \in Nat /\ n \in Nat /\ s <= e /\ 1 <= s
      /\ e <= Len(query) + 1 /\ query \in Seq(Chars) /\ ret \in Seq(Symbols)
      /\ Len(query) \in Nat
  BY Ranges DEF IInv
<1>2. /\ Tiling(tarray, query) /\ Upto(tarray, query) = s /\ ret = Glued(tarray)
      /\ Numbered(tarray, n) /\ Marked(tarray, query) /\ Below(tarray, n)
  BY InWords DEF IInv
<1>3. CASE e > s
  <2> DEFINE p == Copied(s, e - 1)
  <2>1. SubSeq(query, s, e - 1) \in Seq(Chars)
    <3>1. s \in Nat \ {0} /\ e - 1 \in Nat /\ e - 1 <= Len(query)  BY <1>1
    <3>2. QED  BY <1>1, <3>1, PartOf
  <2>2. SubSeq(query, s, e - 1) \in Seq(Symbols)  BY <2>1, CharsAreSymbols, Wider
  <2>3. /\ p.from = s /\ p.to = e - 1 /\ p.index = 0 /\ p.kind = "copy"
        /\ p.text = SubSeq(query, s, e - 1)
    BY DEF Copied, Piece
  <2>4. p \in Pieces
    <3>1. e - 1 \in Nat  BY <1>1
    <3>2. QED  BY <1>1, <2>2, <3>1 DEF Copied, Piece, Pieces
  <2> HIDE DEF p
  <2>5. Tiling(Append(tarray, p), query) /\ Upto(Append(tarray, p), query) = e
    <3>1. Fits(p, query)  BY <1>1, <1>3, <2>3 DEF Fits
    <3>2. After(p, query) = e
      <4>1. ~Cut(p, query)  BY <1>1, <2>3 DEF Cut
      <4>2. QED  BY <1>1, <2>3, <4>1 DEF After
    <3>3. p.from = Upto(tarray, query)  BY <1>2, <2>3
    <3>4. QED  BY <1>1, <1>2, <2>4, <3>1, <3>2, <3>3, AppendTiling
  <2>6. Numbered(Append(tarray, p), n) /\ Marked(Append(tarray, p), query) /\ Below(Append(tarray, p), n)
    BY <1>1, <1>2, <2>3, <2>4, AppendUnnumbered
  <2>7. Flushed = Append(tarray, p)  BY <1>3 DEF Flushed, p
  <2>8. Append(tarray, p) \in Seq(Pieces)  BY <1>1, <2>4
  <2>9. FlushedText = Glued(Append(tarray, p))
    BY <1>1, <1>2, <2>3, <2>4, AppendGlued DEF FlushedText
  <2>10. FlushedText \in Seq(Symbols) /\ (task = "prepare" => FlushedText \in Seq(Chars))
    BY <1>1, <2>1, <2>2 DEF FlushedText, IInv, Preparing
  <2>11. QED  BY <2>5, <2>6, <2>7, <2>8, <2>9, <2>10
<1>4. CASE ~(e > s)
  <2>1. s = e /\ Flushed = tarray  BY <1>1, <1>4 DEF Flushed
  <2>2. SubSeq(query, s, e - 1) = <<>>  BY <2>1, <1>1
  <2>3. FlushedText = ret  BY <2>2, <1>1 DEF FlushedText
  <2>4. QED  BY <1>1, <1>2, <2>1, <2>3 DEF IInv, Preparing
<1>5. QED  BY <1>3, <1>4

(* Every character of the query is a character, and the name in brackets   *)
(* consists of characters.                                                 *)
LEMMA BracketFacts ==
  ASSUME IInv, Scanning, q \in {"lb", "lc"}
  PROVE  /\ s + 1 \in Nat /\ SubSeq(query, s, e - 1) \in Seq(Chars)
         /\ Name \in Seq(Chars)
<1>1. /\ s \in Nat /\ e \in Nat /\ 1 <= s /\ s <= e /\ e <= Len(query) + 1 /\ query \in Seq(Chars)
      /\ Len(query) \in Nat
  BY Ranges DEF IInv
<1>2. s \in Nat \ {0} /\ s + 1 \in Nat \ {0} /\ e - 1 \in Nat /\ e - 1 <= Len(query)
  BY <1>1
<1>3. QED  BY <1>1, <1>2, PartOf DEF Name

(* A piece takes the place of the brackets.                                *)
LEMMA ReplaceKeeps ==
  ASSUME IInv, Scanning, q \in {"lb", "lc"}, NEW p \in Pieces, Replace(p),
         p.text \in Seq(Chars), p.from = s, p.index = 0,
         Fits(p, query), After(p, query) = e + 1
  PROVE  IInv'
<1>1. /\ tarray \in Seq(Pieces) /\ s \in Nat /\ e \in Nat /\ n \in Nat /\ s <= e /\ 1 <= s
      /\ e <= Len(query) /\ ret \in Seq(Symbols)
  BY Ranges DEF IInv, Scanning
<1>2. /\ Tiling(tarray, query) /\ Upto(tarray, query) = s /\ ret = Glued(tarray)
      /\ Numbered(tarray, n) /\ Marked(tarray, query) /\ Below(tarray, n)
      /\ task = "prepare" => n = 0
  BY InWords DEF IInv, Scanning, Busy
<1>3. tarray' = Append(tarray, p)  BY DEF Replace
<1>4. /\ e' = e + 1 /\ s' = e + 1 /\ q' = "none" /\ n' = n /\ result' = result /\ task' = task
      /\ query' = query /\ array' = array /\ asked' = asked /\ aliases' = aliases
      /\ statement' = statement /\ ret' = ret \o p.text
  BY DEF Replace, Advance, Same
<1>5. Tiling(Append(tarray, p), query) /\ Upto(Append(tarray, p), query) = e + 1
  BY <1>1, <1>2, AppendTiling
<1>6. /\ Numbered(Append(tarray, p), n) /\ Marked(Append(tarray, p), query)
      /\ Below(Append(tarray, p), n)
  BY <1>1, <1>2, AppendUnnumbered
<1>7. ret' = Glued(Append(tarray, p))  BY <1>1, <1>2, <1>4, AppendGlued
<1>8. Append(tarray, p) \in Seq(Pieces)  BY <1>1
<1>9. p.text \in Seq(Symbols)  BY CharsAreSymbols, Wider
<1>10. TypeOK'
  <2>1. e' \in 1..Len(query') + 1 /\ s' \in 1..e'  BY <1>1, <1>4
  <2>2. ret' \in Seq(Symbols)  BY <1>1, <1>4, <1>9
  <2>3. QED  BY <1>3, <1>4, <1>8, <2>1, <2>2 DEF IInv, TypeOK, Pieces
<1>11. Preparing'
  <2>1. task = "prepare" => ret \in Seq(Chars)  BY DEF IInv, Preparing
  <2>2. task = "prepare" => ret \o p.text \in Seq(Chars)  BY <2>1
  <2>3. QED  BY <2>2, <1>4 DEF Preparing
<1>12. /\ Tiling(tarray', query') /\ Upto(tarray', query') = s' /\ ret' = Glued(tarray')
       /\ Numbered(tarray', n') /\ Marked(tarray', query') /\ Below(tarray', n')
  BY <1>3, <1>4, <1>5, <1>6, <1>7
<1>13. result' # "sql"  BY <1>4 DEF Scanning, Busy
<1>14. OnlySuffixEndsLost' /\ ParametersInOrder' /\ Bounded'
  BY <1>2, <1>4, <1>12, <1>13, WordsPrimed
<1>15. Opened'  BY <1>4 DEF Opened
<1>16. QED  BY <1>10, <1>11, <1>14, <1>15 DEF IInv

(* The brackets themselves are there: what the open bracket is, and where. *)
LEMMA NamedKeeps ==
  ASSUME IInv, Scanning, Closes, NEW qualify \in BOOLEAN, Replace(Named(qualify))
  PROVE  IInv'
<1> DEFINE p == Named(qualify)
<1>1. s \in Nat /\ e \in Nat /\ s <= e /\ q \in {"lb", "lc"} /\ query[s] = q
  BY Ranges DEF IInv, Closes, Opened
<1>2. QuoteObject(aliases, Name, qualify) \in Seq(Chars)
  <2>1. Name \in Seq(Chars)  BY <1>1, BracketFacts
  <2>2. \A a \in DOMAIN aliases : aliases[a] \in Seq(Chars)  BY DEF IInv, TypeOK
  <2>3. QED  BY <2>1, <2>2, QuotedName
<1>3. /\ p.kind = "name" /\ p.from = s /\ p.to = e /\ p.index = 0
      /\ p.text = QuoteObject(aliases, Name, qualify)
  BY DEF Named, Piece
<1>4. p \in Pieces
  <2>1. QuoteObject(aliases, Name, qualify) \in Seq(Symbols)
    BY <1>2, CharsAreSymbols, Wider
  <2>2. QED  BY <1>1, <2>1 DEF Named, Piece, Pieces
<1> HIDE DEF p
<1>5. Fits(p, query)  BY <1>1, <1>3 DEF Fits, Closes, Char
<1>6. After(p, query) = e + 1  BY <1>3 DEF After, Cut
<1>7. Replace(p)  BY DEF p
<1>8. QED  BY <1>1, <1>2, <1>3, <1>4, <1>5, <1>6, <1>7, ReplaceKeeps

LEMMA SuffixKeeps ==
  ASSUME IInv, Scanning, q = "lb", Char = "rb", IsSubscript,
         Replace(Copied(s, e - 1))
  PROVE  IInv'
<1> DEFINE p == Copied(s, e - 1)
<1>1. /\ s \in Nat /\ e \in Nat /\ e <= Len(query) /\ Len(query) \in Nat
      /\ e - 1 \in Nat /\ (e - 1) + 1 = e /\ (e - 1) + 2 = e + 1 /\ s <= e - 1
      /\ query[s] = "lb"
  BY Ranges DEF IInv, Scanning, Opened
<1>2. SubSeq(query, s, e - 1) \in Seq(Chars)  BY BracketFacts
<1>3. /\ p.kind = "copy" /\ p.from = s /\ p.to = e - 1 /\ p.index = 0
      /\ p.text = SubSeq(query, s, e - 1)
  BY DEF Copied, Piece
<1>4. p \in Pieces
  <2>1. SubSeq(query, s, e - 1) \in Seq(Symbols)  BY <1>2, CharsAreSymbols, Wider
  <2>2. QED  BY <1>1, <2>1 DEF Copied, Piece, Pieces
<1> HIDE DEF p
<1>5. Fits(p, query)  BY <1>1, <1>3 DEF Fits
<1>6. After(p, query) = e + 1
  <2>1. \A i \in p.from + 1..p.to : query[i] \in Digits  BY <1>3 DEF IsSubscript
  <2>2. p.to < Len(query) /\ query[p.to + 1] = "rb"  BY <1>1, <1>3 DEF Char
  <2>3. Cut(p, query)  BY <1>1, <1>3, <2>1, <2>2 DEF Cut
  <2>4. QED  BY <1>1, <1>3, <2>3 DEF After
<1>7. Replace(p)  BY DEF p
<1>8. QED  BY <1>2, <1>3, <1>4, <1>5, <1>6, <1>7, ReplaceKeeps

(* A step that moves e inside the text and leaves the rest alone.          *)
LEMMA MoveKeeps ==
  ASSUME IInv, Scanning, NEW quoted \in {q, "none"}, Advance(s, quoted), Same,
         UNCHANGED <<n, tarray, ret, result>>
  PROVE  IInv'
<1>1. /\ s \in Nat /\ e \in Nat /\ s <= e /\ 1 <= s /\ e <= Len(query) /\ Len(query) \in Nat
  BY Ranges DEF IInv, Scanning
<1>2. /\ e' = e + 1 /\ s' = s /\ q' = quoted /\ n' = n /\ result' = result /\ task' = task
      /\ query' = query /\ array' = array /\ asked' = asked /\ aliases' = aliases
      /\ statement' = statement /\ ret' = ret /\ tarray' = tarray
  BY DEF Advance, Same
<1>3. e' \in 1..Len(query') + 1 /\ s' \in 1..e'  BY <1>1, <1>2
<1>4. TypeOK'
  <2>1. q' \in Openers \cup {"none"}  BY <1>2 DEF IInv, TypeOK
  <2>2. QED  BY <1>2, <1>3, <2>1 DEF IInv, TypeOK
<1>5. OnlySuffixEndsLost'
  BY <1>2 DEF IInv, OnlySuffixEndsLost, Continued, Resumes, CutShort, IsBracket
<1>6. ParametersInOrder' /\ Preparing' /\ Bounded'
  BY <1>2 DEF IInv, ParametersInOrder, IsValue, Preparing, Bounded
<1>7. Opened'  BY <1>1, <1>2 DEF IInv, Opened
<1>8. QED  BY <1>4, <1>5, <1>6, <1>7 DEF IInv

LEMMA OpenQuoteKeeps ==
  ASSUME IInv, OpenQuote
  PROVE  IInv'
<1> USE DEF OpenQuote
<1>1. /\ e \in Nat /\ n \in Nat /\ 1 <= e /\ e <= Len(query) /\ Len(query) \in Nat
      /\ result = "none" /\ query[e] # "rb"
  BY Ranges DEF IInv, Scanning, Busy, Opens, Openers, Char
<1>2. /\ e' = e + 1 /\ s' = e /\ q' = Char /\ n' = n /\ result' = result /\ task' = task
      /\ query' = query /\ array' = array /\ asked' = asked /\ aliases' = aliases
      /\ statement' = statement /\ ret' = FlushedText /\ tarray' = Flushed
  BY DEF Advance, Same
<1>3. /\ Flushed \in Seq(Pieces) /\ Tiling(Flushed, query) /\ Upto(Flushed, query) = e
      /\ FlushedText = Glued(Flushed)
      /\ Numbered(Flushed, n) /\ Marked(Flushed, query) /\ Below(Flushed, n)
      /\ FlushedText \in Seq(Symbols)
      /\ task = "prepare" => FlushedText \in Seq(Chars)
  BY <1>1, FlushedFacts
<1>4. TypeOK'
  <2>1. e' \in 1..Len(query') + 1 /\ s' \in 1..e'  BY <1>1, <1>2
  <2>2. tarray' \in Seq(Pieces)  BY <1>2, <1>3
  <2>3. q' \in Openers \cup {"none"}  BY <1>2 DEF Opens
  <2>4. ret' \in Seq(Symbols)  BY <1>2, <1>3
  <2>5. QED  BY <1>2, <2>1, <2>2, <2>3, <2>4 DEF IInv, TypeOK, Pieces
<1>5. Preparing'  BY <1>2, <1>3 DEF Preparing
<1>6. /\ Tiling(tarray', query') /\ Upto(tarray', query') = s' /\ ret' = Glued(tarray')
      /\ Numbered(tarray', n') /\ Marked(tarray', query') /\ Below(tarray', n')
      /\ result' # "sql"
  BY <1>1, <1>2, <1>3
<1>7. task' = "prepare" => n' = 0  BY <1>2 DEF IInv, ParametersInOrder
<1>8. OnlySuffixEndsLost' /\ ParametersInOrder' /\ Bounded'  BY <1>6, <1>7, WordsPrimed
<1>9. Opened'  BY <1>1, <1>2 DEF Opened, Char
<1>10. QED  BY <1>4, <1>5, <1>8, <1>9 DEF IInv

LEMMA PlaceholderKeeps ==
  ASSUME IInv, Placeholder
  PROVE  IInv'
<1> USE DEF Placeholder
<1>1. /\ e \in Nat /\ n \in Nat /\ 1 <= e /\ e <= Len(query) /\ Len(query) \in Nat
      /\ Len(array) \in Nat /\ array \in Seq(Values) /\ n < Len(array) /\ result = "none"
      /\ query[e] # "rb"
  BY Ranges DEF IInv, Scanning, Busy, IsPlaceholder, Char
<1> DEFINE p == Piece("value", e, e, <<quote[array[n + 1]]>>, n + 1)
<1>2. /\ e' = e + 1 /\ s' = e + 1 /\ q' = "none" /\ n' = n + 1 /\ result' = result
      /\ query' = query /\ array' = array /\ asked' = asked /\ aliases' = aliases
      /\ statement' = statement /\ task' = task
      /\ tarray' = Append(Flushed, p)
      /\ ret' = Append(FlushedText, quote[array[n + 1]])
  BY DEF Advance, Same
<1>3. /\ Flushed \in Seq(Pieces) /\ Tiling(Flushed, query) /\ Upto(Flushed, query) = e
      /\ FlushedText = Glued(Flushed)
      /\ Numbered(Flushed, n) /\ Marked(Flushed, query) /\ Below(Flushed, n)
      /\ FlushedText \in Seq(Symbols)
  BY <1>1, FlushedFacts
<1>4. quote[array[n + 1]] \in Symbols
  <2>1. n + 1 \in 1..Len(array)  BY <1>1
  <2>2. array[n + 1] \in Values  BY <1>1, <2>1
  <2>3. QED  BY <2>2 DEF Symbols
<1>5. /\ p \in Pieces /\ p.kind = "value" /\ p.from = e /\ p.to = e /\ p.index = n + 1
      /\ p.text = <<quote[array[n + 1]]>>
  BY <1>1, <1>4 DEF Piece, Pieces
<1>6. task # "prepare" /\ query[e] = "qm"  BY DEF IsPlaceholder, Char
<1> HIDE DEF p
<1>7. Tiling(Append(Flushed, p), query) /\ Upto(Append(Flushed, p), query) = e + 1
  <2>1. Fits(p, query)  BY <1>1, <1>5 DEF Fits
  <2>2. After(p, query) = e + 1  BY <1>5 DEF After, Cut
  <2>3. p.from = Upto(Flushed, query)  BY <1>3, <1>5
  <2>4. QED  BY <1>3, <1>5, <2>1, <2>2, <2>3, AppendTiling
<1>8. /\ Numbered(Append(Flushed, p), n + 1) /\ Marked(Append(Flushed, p), query)
      /\ Below(Append(Flushed, p), n + 1)
  <2>1. n + 1 \in Nat  BY <1>1
  <2>2. p.index = n + 1 /\ n + 1 = n + 1  BY <1>5
  <2>3. query[p.from] = "qm" /\ p.to = p.from  BY <1>5, <1>6
  <2>4. QED  BY <1>1, <1>3, <1>5, <2>1, <2>2, <2>3, AppendNumbered
<1>9. ret' = Glued(Append(Flushed, p))
  <2>1. Glued(Append(Flushed, p)) = FlushedText \o <<quote[array[n + 1]]>>
    BY <1>3, <1>5, AppendGlued
  <2> DEFINE flushed == FlushedText
             x == quote[array[n + 1]]
  <2>2. flushed \in Seq(Symbols) /\ x \in Symbols  BY <1>3, <1>4
  <2>3. ret' = Append(flushed, x) /\ Glued(Append(Flushed, p)) = flushed \o <<x>>
    BY <1>2, <2>1
  <2> HIDE DEF flushed, x
  <2>4. Append(flushed, x) = flushed \o <<x>>  BY <2>2
  <2>5. QED  BY <2>3, <2>4
<1>10. TypeOK'
  <2>1. e' \in 1..Len(query') + 1 /\ s' \in 1..e' /\ n' \in 0..Len(array')  BY <1>1, <1>2
  <2>2. Append(Flushed, p) \in Seq(Pieces)  BY <1>3, <1>5
  <2>3. tarray' \in Seq(Pieces)  BY <1>2, <2>2
  <2>4. ret' \in Seq(Symbols)  BY <1>2, <1>3, <1>4
  <2>5. QED  BY <1>2, <2>1, <2>3, <2>4 DEF IInv, TypeOK, Pieces
<1>11. Preparing' /\ task' # "prepare"  BY <1>2, <1>6 DEF Preparing
<1>12. /\ Tiling(tarray', query') /\ Upto(tarray', query') = s' /\ ret' = Glued(tarray')
       /\ Numbered(tarray', n') /\ Marked(tarray', query') /\ Below(tarray', n')
       /\ result' # "sql"
  BY <1>1, <1>2, <1>7, <1>8, <1>9
<1>13. OnlySuffixEndsLost' /\ ParametersInOrder' /\ Bounded'  BY <1>11, <1>12, WordsPrimed
<1>14. Opened'  BY <1>2 DEF Opened
<1>15. QED  BY <1>10, <1>11, <1>13, <1>14 DEF IInv

LEMMA FinishKeeps ==
  ASSUME IInv, Finish
  PROVE  IInv'
<1> USE DEF Finish
<1>1. /\ e \in Nat /\ s \in Nat /\ n \in Nat /\ e = Len(query) + 1 /\ Len(query) \in Nat
      /\ s <= e /\ result = "none"
  BY Ranges DEF IInv, Busy
<1>2. /\ e' = e /\ s' = s /\ q' = q /\ n' = n /\ result' = "sql" /\ task' = task
      /\ query' = query /\ array' = array /\ asked' = asked /\ aliases' = aliases
      /\ ret' = FlushedText /\ tarray' = Flushed
  BY DEF Return
<1>3. /\ Flushed \in Seq(Pieces) /\ Tiling(Flushed, query) /\ Upto(Flushed, query) = e
      /\ FlushedText = Glued(Flushed)
      /\ Numbered(Flushed, n) /\ Marked(Flushed, query) /\ Below(Flushed, n)
      /\ FlushedText \in Seq(Symbols)
      /\ task = "prepare" => FlushedText \in Seq(Chars)
  BY <1>1, FlushedFacts
<1>4. TypeOK'
  <2>1. tarray' \in Seq(Pieces)  BY <1>2, <1>3
  <2>2. statement'.prepared \in BOOLEAN /\ statement'.sql \in Seq(Chars)
    <3>1. CASE task = "prepare"  BY <3>1, <1>2, <1>3
    <3>2. CASE task # "prepare"  BY <3>2 DEF IInv, TypeOK
    <3>3. QED  BY <3>1, <3>2
  <2>3. ret' \in Seq(Symbols)  BY <1>2, <1>3
  <2>4. QED  BY <1>2, <2>1, <2>2, <2>3 DEF IInv, TypeOK, Pieces
<1>5. Preparing'  BY <1>2, <1>3 DEF Preparing
<1>6. task' = "prepare" => n' = 0  BY <1>2 DEF IInv, ParametersInOrder
<1>7. /\ Tiling(tarray', query') /\ Upto(tarray', query') = Len(query') + 1
      /\ ret' = Glued(tarray')
      /\ Numbered(tarray', n') /\ Marked(tarray', query') /\ Below(tarray', n')
  BY <1>1, <1>2, <1>3
<1>8. OnlySuffixEndsLost' /\ ParametersInOrder' /\ Bounded'
  BY <1>2, <1>6, <1>7, WordsPrimed
<1>9. Opened'  BY <1>2 DEF IInv, Opened
<1>10. QED  BY <1>4, <1>5, <1>8, <1>9 DEF IInv

(* The invariant holds when a call begins.                                 *)
LEMMA ScanKeeps ==
  ASSUME IInv, NEW who \in {"direct", "prepare", "execute"}, NEW text \in Seq(Chars),
         NEW params \in Seq(Values), Scan(who, text, params),
         UNCHANGED <<asked, aliases, statement>>
  PROVE  IInv'
<1> USE DEF Scan
<1>1. /\ e' = 1 /\ s' = 1 /\ q' = "none" /\ n' = 0 /\ result' = "none" /\ task' = who
      /\ query' = text /\ array' = params /\ tarray' = <<>> /\ ret' = <<>>
  OBVIOUS
<1>2. e' \in 1..Len(query') + 1 /\ s' \in 1..e' /\ n' \in 0..Len(array')  BY <1>1
<1>3. <<>> \in Seq(Symbols) /\ <<>> \in Seq(Chars) /\ <<>> \in Seq(Pieces)
  OBVIOUS
<1>4. TypeOK'  BY <1>1, <1>2, <1>3 DEF IInv, TypeOK, Pieces
<1>5. Preparing' /\ Opened'  BY <1>1, <1>3 DEF Preparing, Opened
<1>6. OnlySuffixEndsLost'
  BY <1>1, GluedNone DEF OnlySuffixEndsLost, Continued, Glued, Texts
<1>7. ParametersInOrder'  BY <1>1 DEF ParametersInOrder, IsValue
<1>8. Bounded'  BY <1>1 DEF Bounded
<1>9. QED  BY <1>4, <1>5, <1>6, <1>7, <1>8 DEF IInv

(* So does it when the method raises or gives up, and between calls.       *)
LEMMA StopKeeps ==
  ASSUME IInv, NEW what \in {"nil", "raised"}, result = "none", Return(what), Same,
         UNCHANGED <<s, e, q, n, tarray, ret>>
  PROVE  IInv'
<1> USE DEF Return, Same
<1>1. TypeOK'  BY DEF IInv, TypeOK
<1>2. OnlySuffixEndsLost'
  BY DEF IInv, OnlySuffixEndsLost, Continued, Resumes, CutShort, IsBracket
<1>3. ParametersInOrder' /\ Preparing' /\ Bounded' /\ Opened'
  BY DEF IInv, ParametersInOrder, IsValue, Preparing, Bounded, Opened
<1>4. QED  BY <1>1, <1>2, <1>3 DEF IInv

LEMMA SetAliasKeeps ==
  ASSUME IInv, NEW names \in Renamings, SetAlias(names.alias, names.object)
  PROVE  IInv'
<1> DEFINE alias == names.alias
           object == names.object
<1>1. alias \in Seq(Chars) /\ object \in Seq(Chars)  BY QueryBuilderAssumption
<1>2. Qualified(object) \in Seq(Chars)
  <2>1. "dq" \in Chars  BY DEF Chars, Openers
  <2>2. InQuotes(object) \in Seq(Chars)  BY <1>1, <2>1 DEF InQuotes
  <2>3. QED  BY <2>2, QueryBuilderAssumption DEF Qualified
<1>3. aliases' = [a \in DOMAIN aliases \cup {alias} |->
                    IF a = alias THEN Qualified(object) ELSE aliases[a]]
  BY DEF SetAlias
<1>4. task' = "idle" /\ UNCHANGED <<asked, statement, scanner>>  BY DEF SetAlias
<1> HIDE DEF alias, object
<1>5. /\ DOMAIN aliases \subseteq Seq(Chars)
      /\ \A a \in DOMAIN aliases : aliases[a] \in Seq(Chars)
  BY DEF IInv, TypeOK
<1>6. DOMAIN aliases' = DOMAIN aliases \cup {alias}  BY <1>3
<1>7. \A a \in DOMAIN aliases' : aliases'[a] \in Seq(Chars)
  BY <1>2, <1>3, <1>5, <1>6
<1>8. TypeOK'
  BY <1>1, <1>4, <1>5, <1>6, <1>7 DEF IInv, TypeOK, scanner
<1>9. OnlySuffixEndsLost'
  BY <1>4 DEF IInv, OnlySuffixEndsLost, Continued, Resumes, CutShort, IsBracket, scanner
<1>10. ParametersInOrder' /\ Preparing' /\ Bounded' /\ Opened'
  BY <1>4 DEF IInv, ParametersInOrder, IsValue, Preparing, Bounded, Opened, scanner
<1>11. QED  BY <1>8, <1>9, <1>10 DEF IInv

-----------------------------------------------------------------------------
LEMMA InitInv == Init => IInv
<1> SUFFICES ASSUME Init PROVE IInv  OBVIOUS
<1> USE DEF Init
<1>1. <<>> \in Seq(Symbols) /\ <<>> \in Seq(Chars) /\ <<>> \in Seq(Values)
      /\ <<>> \in Seq(Pieces) /\ DOMAIN <<>> = {} /\ Len(<<>>) = 0
  OBVIOUS
<1>2. TypeOK
  <2>1. e \in 1..Len(query) + 1 /\ s \in 1..e /\ n \in 0..Len(array)  BY <1>1
  <2>2. statement.prepared \in BOOLEAN /\ statement.sql \in Seq(Chars)
    BY <1>1 DEF NoStatement
  <2>3. DOMAIN aliases = {}  BY <1>1
  <2>4. QED  BY <1>1, <2>1, <2>2, <2>3 DEF TypeOK, Pieces
<1>3. OnlySuffixEndsLost
  BY <1>1, GluedNone DEF OnlySuffixEndsLost, Continued, Glued, Texts
<1>4. ParametersInOrder /\ Preparing /\ Bounded /\ Opened
  BY <1>1 DEF ParametersInOrder, Preparing, Bounded, Opened
<1>5. QED  BY <1>2, <1>3, <1>4 DEF IInv

LEMMA StepInv == IInv /\ [Next]_vars => IInv'
<1> SUFFICES ASSUME IInv, [Next]_vars PROVE IInv'  OBVIOUS
<1>1. ASSUME NEW names \in Renamings, SetAlias(names.alias, names.object) PROVE IInv'
  BY <1>1, SetAliasKeeps
<1>2. ASSUME NEW params \in ParamLists, Execute(params) PROVE IInv'
  <2>1. Text(asked) \in Seq(Chars) /\ params \in Seq(Values)
    BY QueryBuilderAssumption, StatementsAssumption, TextType DEF IsStatement, IInv, TypeOK
  <2>2. QED  BY <1>2, <2>1, ScanKeeps DEF Execute
<1>3. ASSUME NEW params \in ParamLists, ExecutePrepared(params) PROVE IInv'
  <2>1. statement.sql \in Seq(Chars) /\ params \in Seq(Values)
    BY QueryBuilderAssumption DEF IInv, TypeOK
  <2>2. QED  BY <1>3, <2>1, ScanKeeps DEF ExecutePrepared
<1>4. ASSUME Prepare PROVE IInv'
  <2>1. Text(asked) \in Seq(Chars)
    BY StatementsAssumption, TextType DEF IsStatement, IInv, TypeOK
  <2>2. <<>> \in Seq(Values)  OBVIOUS
  <2>3. QED  BY <1>4, <2>1, <2>2, ScanKeeps DEF Prepare
<1>5. ASSUME CloseBrace PROVE IInv'
  <2>1. CASE Name = <<>>
    BY <1>5, <2>1, StopKeeps DEF CloseBrace, Scanning, Busy
  <2>2. CASE Name # <<>>
    <3>1. Replace(Named(TRUE)) /\ Scanning /\ Closes
      BY <1>5, <2>2 DEF CloseBrace, Closes
    <3>2. QED  BY <3>1, NamedKeeps
  <2>3. QED  BY <2>1, <2>2
<1>6. ASSUME CloseBracket PROVE IInv'
  <2>1. Scanning /\ q = "lb" /\ Char = "rb" /\ Closes  BY <1>6 DEF CloseBracket, Closes
  <2>2. CASE IsSubscript
    <3>1. Replace(Copied(s, e - 1))  BY <1>6, <2>2 DEF CloseBracket
    <3>2. QED  BY <2>1, <2>2, <3>1, SuffixKeeps
  <2>3. CASE ~IsSubscript
    <3>1. Replace(Named(FALSE))  BY <1>6, <2>3 DEF CloseBracket
    <3>2. QED  BY <2>1, <3>1, NamedKeeps
  <2>4. QED  BY <2>2, <2>3
<1>7. ASSUME CloseQuote PROVE IInv'
  BY <1>7, MoveKeeps DEF CloseQuote
<1>8. ASSUME InsideQuote PROVE IInv'
  BY <1>8, MoveKeeps DEF InsideQuote
<1>9. ASSUME Ordinary PROVE IInv'
  BY <1>9, MoveKeeps DEF Ordinary
<1>10. ASSUME TooFewParameters PROVE IInv'
  BY <1>10, StopKeeps DEF TooFewParameters, Scanning, Busy
<1>11. ASSUME UNCHANGED vars PROVE IInv'
  <2>1. TypeOK'  BY <1>11 DEF IInv, TypeOK, vars, scanner
  <2>2. OnlySuffixEndsLost'
    BY <1>11 DEF IInv, OnlySuffixEndsLost, Continued, Resumes, CutShort, IsBracket, vars, scanner
  <2>3. ParametersInOrder' /\ Preparing' /\ Bounded' /\ Opened'
    BY <1>11 DEF IInv, ParametersInOrder, IsValue, Preparing, Bounded, Opened, vars, scanner
  <2>4. QED  BY <2>1, <2>2, <2>3 DEF IInv
<1>12. QED
  BY <1>1, <1>2, <1>3, <1>4, <1>5, <1>6, <1>7, <1>8, <1>9, <1>10, <1>11,
     OpenQuoteKeeps, PlaceholderKeeps, FinishKeeps DEF Next

THEOREM Invariance == Spec => []IInv
<1>1. QED  BY InitInv, StepInv, PTL DEF Spec

(* The scanner's variables are well typed, for statements of any length:   *)
(* in particular e never leaves the query, s never passes e, and no more   *)
(* parameters are used than were given.                                    *)
THEOREM TypeCorrect == Spec => []TypeOK
<1>1. IInv => TypeOK  BY DEF IInv
<1>2. QED  BY <1>1, Invariance, PTL

(* The result is the query, piece by piece and in order, with no character *)
(* twice and none left out but the closing bracket of an array suffix.     *)
THEOREM LossesKnown == Spec => []OnlySuffixEndsLost
<1>1. IInv => OnlySuffixEndsLost  BY DEF IInv
<1>2. QED  BY <1>1, Invariance, PTL

(* Parameters are used in order, each once, each for a question mark, and  *)
(* never while a statement is prepared.                                    *)
THEOREM InOrder == Spec => []ParametersInOrder
<1>1. IInv => ParametersInOrder  BY DEF IInv
<1>2. QED  BY <1>1, Invariance, PTL
=============================================================================
