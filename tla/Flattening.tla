----------------------------- MODULE Flattening -----------------------------
(***************************************************************************)
(* What FlattenSeq of the community modules computes, for sequences of     *)
(* sequences of any number and length.  Its definition is recursive; the   *)
(* induction is over the natural numbers, in the form that a set of        *)
(* numbers that is not empty has a least element.                          *)
(***************************************************************************)
EXTENDS Naturals, Sequences, SequencesExt, WellFoundedInduction, TLAPS

(* Induction.  A proof that all numbers have a property takes the least    *)
(* one that does not have it.                                              *)
LEMMA Least ==
  ASSUME NEW T \in SUBSET Nat, T # {}
  PROVE  \E x \in T : \A y \in T : x <= y
<1> DEFINE R == {pair \in Nat \X Nat : pair[1] < pair[2]}
<1>1. IsWellFoundedOn(R, Nat)  BY NatLessThanWellFounded DEF OpToRel
<1>2. PICK x \in T : \A y \in T : ~ (<<y, x>> \in R)
  <2> HIDE DEF R
  <2>1. QED  BY <1>1, WFMin
<1>3. \A y \in T : <<y, x>> \in R <=> y < x  OBVIOUS
<1>4. \A y \in T : ~(y < x)  BY <1>2, <1>3
<1>5. x \in Nat /\ \A y \in T : y \in Nat  OBVIOUS
<1>6. QED  BY <1>4, <1>5

-----------------------------------------------------------------------------
(* The first k of some sequences joined.                                   *)
Joined(seqs, k) == FlattenSeq(SubSeq(seqs, 1, k))

(* The function that FlattenSeq chooses.                                   *)
Joins(seqs, k, f) ==
  f = [i \in 1..k |-> IF i = 1 THEN seqs[i] ELSE f[i - 1] \o seqs[i]]

LEMMA JoinsExists ==
  ASSUME NEW seqs, NEW N \in Nat \ {0}
  PROVE  \E f : Joins(seqs, N, f)
<1> DEFINE Bad == {k \in Nat \ {0} : ~ \E f : Joins(seqs, k, f)}
<1> SUFFICES ASSUME Bad # {} PROVE FALSE  OBVIOUS
<1>1. Bad \in SUBSET Nat  OBVIOUS
<1>2. PICK k \in Bad : \A y \in Bad : k <= y
  <2> HIDE DEF Bad
  <2>1. QED  BY <1>1, Least
<1>3. k \in Nat \ {0} /\ ~ \E f : Joins(seqs, k, f)  OBVIOUS
<1>4. CASE k = 1
  <2> DEFINE f == [i \in 1..1 |-> seqs[i]]
  <2>1. Joins(seqs, 1, f)  BY DEF Joins
  <2>2. QED  BY <1>3, <1>4, <2>1
<1>5. CASE k # 1
  <2>1. k - 1 \in Nat \ {0} /\ k - 1 \notin Bad  BY <1>2, <1>3, <1>5
  <2>2. PICK g : Joins(seqs, k - 1, g)  BY <2>1
  <2> DEFINE f == [i \in 1..k |-> IF i < k THEN g[i] ELSE g[k - 1] \o seqs[k]]
  <2>3. ASSUME NEW i \in 1..k
        PROVE  f[i] = IF i = 1 THEN seqs[i] ELSE f[i - 1] \o seqs[i]
    <3>1. CASE i < k
      <4>1. i \in 1..k - 1 /\ f[i] = g[i]  BY <3>1, <1>3
      <4>2. g[i] = IF i = 1 THEN seqs[i] ELSE g[i - 1] \o seqs[i]
        BY <2>2, <4>1 DEF Joins
      <4>3. i # 1 => f[i - 1] = g[i - 1]  BY <3>1, <1>3
      <4>4. QED  BY <4>1, <4>2, <4>3
    <3>2. CASE i = k
      <4>1. i # 1 /\ i - 1 \in 1..k /\ i - 1 < k  BY <3>2, <1>3, <1>5
      <4>2. f[i - 1] = g[i - 1]  BY <4>1
      <4>3. f[i] = g[k - 1] \o seqs[k]
        <5>1. k \in 1..k /\ ~(k < k)  BY <1>3
        <5>2. f[k] = IF k < k THEN g[k] ELSE g[k - 1] \o seqs[k]  BY <5>1
        <5>3. QED  BY <3>2, <5>1, <5>2
      <4>4. QED  BY <3>2, <4>1, <4>2, <4>3
    <3>3. QED  BY <3>1, <3>2, <1>3
  <2>4. f = [i \in 1..k |-> f[i]]  OBVIOUS
  <2> HIDE DEF f
  <2>5. Joins(seqs, k, f)  BY <2>3, <2>4 DEF Joins
  <2>6. QED  BY <1>3, <2>5
<1>6. QED  BY <1>4, <1>5

LEMMA JoinsUnique ==
  ASSUME NEW seqs, NEW j \in Nat, NEW k \in Nat, NEW f, NEW g,
         Joins(seqs, j, f), Joins(seqs, k, g), NEW n \in 1..j, n <= k
  PROVE  f[n] = g[n]
<1> DEFINE Bad == {i \in 1..j : i <= k /\ f[i] # g[i]}
<1> SUFFICES ASSUME Bad # {} PROVE FALSE  OBVIOUS
<1>1. Bad \in SUBSET Nat  OBVIOUS
<1>2. PICK i \in Bad : \A y \in Bad : i <= y
  <2> HIDE DEF Bad
  <2>1. QED  BY <1>1, Least
<1>3. i \in 1..j /\ i \in 1..k /\ f[i] # g[i]  OBVIOUS
<1>4. /\ f[i] = IF i = 1 THEN seqs[i] ELSE f[i - 1] \o seqs[i]
      /\ g[i] = IF i = 1 THEN seqs[i] ELSE g[i - 1] \o seqs[i]
  BY <1>3 DEF Joins
<1>5. i # 1  BY <1>3, <1>4
<1>6. i - 1 \in 1..j /\ i - 1 <= k /\ i - 1 \notin Bad  BY <1>2, <1>3, <1>5
<1>7. f[i - 1] = g[i - 1]  BY <1>6
<1>8. QED  BY <1>3, <1>4, <1>5, <1>7

(* FlattenSeq returns the last value of that function.                     *)
LEMMA FlattenIsJoins ==
  ASSUME NEW seqs, Len(seqs) \in Nat \ {0}, NEW f, Joins(seqs, Len(seqs), f)
  PROVE  FlattenSeq(seqs) = f[Len(seqs)]
<1> DEFINE g == CHOOSE h : Joins(seqs, Len(seqs), h)
<1>1. FlattenSeq(seqs) = g[Len(seqs)]
  <2>1. Len(seqs) # 0  OBVIOUS
  <2>2. QED  BY <2>1, Zenon DEF FlattenSeq, Joins
<1>2. \E h : Joins(seqs, Len(seqs), h)  OBVIOUS
<1>3. Joins(seqs, Len(seqs), g)  BY <1>2, Zenon
<1> HIDE DEF g
<1>4. g[Len(seqs)] = f[Len(seqs)]  BY <1>3, JoinsUnique
<1>5. QED  BY <1>1, <1>4

LEMMA JoinedIsJoins ==
  ASSUME NEW S, NEW seqs \in Seq(Seq(S)), NEW f, Joins(seqs, Len(seqs), f),
         NEW k \in 1..Len(seqs)
  PROVE  Joined(seqs, k) = f[k]
<1> DEFINE part == SubSeq(seqs, 1, k)
<1>1. Len(part) = k /\ k \in Nat \ {0} /\ k <= Len(seqs) /\ Len(seqs) \in Nat
      /\ \A i \in 1..k : part[i] = seqs[i]
  OBVIOUS
<1> HIDE DEF part
<1>2. PICK g : Joins(part, k, g)  BY <1>1, JoinsExists
<1>3. FlattenSeq(part) = g[k]  BY <1>1, <1>2, FlattenIsJoins
<1>4. Joins(seqs, k, g)
  <2>1. [i \in 1..k |-> IF i = 1 THEN part[i] ELSE g[i - 1] \o part[i]]
          = [i \in 1..k |-> IF i = 1 THEN seqs[i] ELSE g[i - 1] \o seqs[i]]
    BY <1>1
  <2>2. QED  BY <1>2, <2>1 DEF Joins
<1>5. k \in 1..k /\ k \in Nat  BY <1>1
<1>6. g[k] = f[k]  BY <1>1, <1>4, <1>5, JoinsUnique
<1>7. QED  BY <1>3, <1>6 DEF Joined, part

-----------------------------------------------------------------------------
LEMMA JoinedNone ==
  ASSUME NEW seqs
  PROVE  Joined(seqs, 0) = <<>>
<1>1. SubSeq(seqs, 1, 0) = <<>>  OBVIOUS
<1>2. Len(<<>>) = 0  OBVIOUS
<1>3. FlattenSeq(<<>>) = <<>>  BY <1>2 DEF FlattenSeq
<1>4. QED  BY <1>1, <1>3 DEF Joined

LEMMA JoinedAll ==
  ASSUME NEW S, NEW seqs \in Seq(Seq(S))
  PROVE  Joined(seqs, Len(seqs)) = FlattenSeq(seqs)
<1>1. SubSeq(seqs, 1, Len(seqs)) = seqs  OBVIOUS
<1>2. QED  BY <1>1 DEF Joined

LEMMA JoinedType ==
  ASSUME NEW S, NEW seqs \in Seq(Seq(S)), NEW k \in 0..Len(seqs)
  PROVE  Joined(seqs, k) \in Seq(S)
<1>1. CASE k = 0
  <2>1. <<>> \in Seq(S)  OBVIOUS
  <2>2. QED  BY <1>1, <2>1, JoinedNone
<1>2. CASE k # 0
  <2>1. Len(seqs) \in Nat \ {0} /\ k \in 1..Len(seqs)  BY <1>2
  <2>2. PICK f : Joins(seqs, Len(seqs), f)  BY <2>1, JoinsExists
  <2> DEFINE Bad == {i \in 1..Len(seqs) : f[i] \notin Seq(S)}
  <2> SUFFICES Bad = {}  BY <2>1, <2>2, JoinedIsJoins
  <2> SUFFICES ASSUME Bad # {} PROVE FALSE  OBVIOUS
  <2>3. Bad \in SUBSET Nat  OBVIOUS
  <2>4. PICK i \in Bad : \A y \in Bad : i <= y
    <3> HIDE DEF Bad
    <3>1. QED  BY <2>3, Least
  <2>5. i \in 1..Len(seqs) /\ f[i] \notin Seq(S) /\ seqs[i] \in Seq(S)  OBVIOUS
  <2>6. f[i] = IF i = 1 THEN seqs[i] ELSE f[i - 1] \o seqs[i]  BY <2>2, <2>5 DEF Joins
  <2>7. i # 1  BY <2>5, <2>6
  <2>8. i - 1 \in 1..Len(seqs) /\ i - 1 \notin Bad  BY <2>4, <2>5, <2>7
  <2>9. f[i - 1] \in Seq(S)  BY <2>8
  <2>10. QED  BY <2>5, <2>6, <2>7, <2>9
<1>3. QED  BY <1>1, <1>2

LEMMA JoinedStep ==
  ASSUME NEW S, NEW seqs \in Seq(Seq(S)), NEW k \in 1..Len(seqs)
  PROVE  Joined(seqs, k) = Joined(seqs, k - 1) \o seqs[k]
<1>1. Len(seqs) \in Nat \ {0}  OBVIOUS
<1>2. PICK f : Joins(seqs, Len(seqs), f)  BY <1>1, JoinsExists
<1>3. f[k] = IF k = 1 THEN seqs[k] ELSE f[k - 1] \o seqs[k]  BY <1>2 DEF Joins
<1>4. Joined(seqs, k) = f[k]  BY <1>2, JoinedIsJoins
<1>5. CASE k = 1
  <2>1. seqs[k] \in Seq(S)  OBVIOUS
  <2>2. Joined(seqs, k - 1) = <<>>  BY <1>5, JoinedNone
  <2>3. <<>> \o seqs[k] = seqs[k]  BY <2>1
  <2>4. QED  BY <1>3, <1>4, <1>5, <2>2, <2>3
<1>6. CASE k # 1
  <2>1. k - 1 \in 1..Len(seqs)  BY <1>6
  <2>2. Joined(seqs, k - 1) = f[k - 1]  BY <1>2, <2>1, JoinedIsJoins
  <2>3. QED  BY <1>3, <1>4, <1>6, <2>2
<1>7. QED  BY <1>5, <1>6

(* What is joined first stays in front.                                    *)
LEMMA JoinedFront ==
  ASSUME NEW S, NEW seqs \in Seq(Seq(S)),
         NEW k \in 0..Len(seqs), NEW m \in k..Len(seqs)
  PROVE  /\ Len(Joined(seqs, k)) <= Len(Joined(seqs, m))
         /\ \A p \in 1..Len(Joined(seqs, k)) : Joined(seqs, m)[p] = Joined(seqs, k)[p]
<1> DEFINE Holds(j) ==
             /\ Len(Joined(seqs, k)) <= Len(Joined(seqs, j))
             /\ \A p \in 1..Len(Joined(seqs, k)) : Joined(seqs, j)[p] = Joined(seqs, k)[p]
           Bad == {j \in k..Len(seqs) : ~Holds(j)}
<1> SUFFICES ASSUME Bad # {} PROVE FALSE  OBVIOUS
<1>1. Bad \in SUBSET Nat  OBVIOUS
<1>2. PICK j \in Bad : \A y \in Bad : j <= y
  <2> HIDE DEF Bad
  <2>1. QED  BY <1>1, Least
<1> HIDE DEF Holds
<1>3. j \in k..Len(seqs) /\ ~Holds(j)  OBVIOUS
<1>4. Joined(seqs, k) \in Seq(S)  BY JoinedType
<1>5. j # k  BY <1>3, <1>4 DEF Holds
<1>6. j - 1 \in k..Len(seqs) /\ j - 1 \notin Bad  BY <1>2, <1>3, <1>5
<1>7. Holds(j - 1)  BY <1>6
<1>8. j \in 1..Len(seqs) /\ j - 1 \in 0..Len(seqs)  BY <1>3, <1>6
<1>9. Joined(seqs, j) = Joined(seqs, j - 1) \o seqs[j]  BY <1>8, JoinedStep
<1>10. Joined(seqs, j - 1) \in Seq(S) /\ seqs[j] \in Seq(S)  BY <1>8, JoinedType
<1> DEFINE a == Joined(seqs, j - 1)
           b == Joined(seqs, k)
           c == seqs[j]
<1>11. a \in Seq(S) /\ b \in Seq(S) /\ c \in Seq(S)  BY <1>4, <1>10
<1>12. Len(b) <= Len(a) /\ \A p \in 1..Len(b) : a[p] = b[p]  BY <1>7 DEF Holds
<1>13. Joined(seqs, j) = a \o c  BY <1>9
<1> HIDE DEF a, b, c
<1>14. Len(b) <= Len(a \o c)  BY <1>11, <1>12
<1>15. \A p \in 1..Len(b) : (a \o c)[p] = b[p]  BY <1>11, <1>12
<1>16. QED  BY <1>3, <1>13, <1>14, <1>15 DEF Holds, b

(* Where the members of the k-th sequence are.                             *)
LEMMA JoinedPlace ==
  ASSUME NEW S, NEW seqs \in Seq(Seq(S)), NEW k \in 1..Len(seqs)
  PROVE  /\ Len(Joined(seqs, k)) = Len(Joined(seqs, k - 1)) + Len(seqs[k])
         /\ Len(Joined(seqs, k)) <= Len(FlattenSeq(seqs))
         /\ \A d \in 1..Len(seqs[k]) :
              FlattenSeq(seqs)[Len(Joined(seqs, k - 1)) + d] = seqs[k][d]
<1> DEFINE a == Joined(seqs, k - 1)
           c == seqs[k]
           all == FlattenSeq(seqs)
<1>1. a \in Seq(S) /\ c \in Seq(S)
  <2>1. k - 1 \in 0..Len(seqs)  OBVIOUS
  <2>2. QED  BY <2>1, JoinedType
<1>2. Joined(seqs, k) = a \o c  BY JoinedStep
<1>3. /\ Len(a \o c) <= Len(all)
      /\ \A p \in 1..Len(a \o c) : all[p] = (a \o c)[p]
  <2>1. k \in 0..Len(seqs) /\ Len(seqs) \in k..Len(seqs)
    OBVIOUS
  <2>2. all = Joined(seqs, Len(seqs))  BY JoinedAll
  <2>3. /\ Len(Joined(seqs, k)) <= Len(Joined(seqs, Len(seqs)))
        /\ \A p \in 1..Len(Joined(seqs, k)) : Joined(seqs, Len(seqs))[p] = Joined(seqs, k)[p]
    BY <2>1, JoinedFront
  <2> HIDE DEF a, c, all
  <2>4. QED  BY <1>2, <2>2, <2>3
<1> HIDE DEF a, c, all
<1>4. Len(a \o c) = Len(a) + Len(c)  BY <1>1
<1>5. ASSUME NEW d \in 1..Len(c) PROVE all[Len(a) + d] = c[d]
  <2>1. Len(a) + d \in 1..Len(a \o c)  BY <1>1, <1>4
  <2>2. (a \o c)[Len(a) + d] = c[d]  BY <1>1
  <2>3. QED  BY <1>3, <2>1, <2>2
<1>6. QED  BY <1>2, <1>3, <1>4, <1>5 DEF a, c, all
=============================================================================
