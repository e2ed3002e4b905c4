------------------------- MODULE SegmentRange_proofs -------------------------
(***************************************************************************)
(* A read over at most two segments copies all its bytes, for any number   *)
(* of segments, any sizes and any estimates of them.                       *)
(***************************************************************************)
EXTENDS SegmentRange, FiniteSetTheorems, WellFoundedInduction, TLAPS

-----------------------------------------------------------------------------
(* Recursion over the segments.                                            *)

\* A set of natural numbers that is not empty has a least element.
LEMMA Least ==
  ASSUME NEW T, T \subseteq Nat, T # {}
  PROVE  \E n \in T : \A m \in T : n <= m
<1> DEFINE R == OpToRel(<, Nat)
<1>1. IsWellFoundedOn(R, Nat)
  BY NatLessThanWellFounded
<1>2. \A x, y \in Nat : <<y, x>> \in R <=> y < x
  BY DEF OpToRel
<1> HIDE DEF R
<1>3. PICK x \in T : \A y \in T : ~ (<<y, x>> \in R)
  BY <1>1, <1>2, WFMin
<1>4. \A y \in T : ~ (y < x)
  BY <1>2, <1>3
<1>5. QED
  BY <1>4

\* A set of indexes that has 0 and the index after each of its own has all.
LEMMA AllIndexes ==
  ASSUME NEW G, Last \in Nat, 0 \in G,
         \A i \in Index : i > 0 /\ i - 1 \in G => i \in G
  PROVE  \A i \in Index : i \in G
<1> DEFINE Bad == Index \ G
<1> SUFFICES ASSUME Bad # {} PROVE FALSE
  OBVIOUS
<1>1. PICK n \in Bad : \A m \in Bad : n <= m
  <2>1. Bad \subseteq Nat
    BY DEF Index
  <2> HIDE DEF Bad
  <2>2. QED
    BY <2>1, Least
<1>2. n \in Index /\ n \notin G /\ n > 0 /\ n - 1 \in Index
  BY DEF Index
<1>3. n - 1 \in G
  BY <1>1, <1>2 DEF Index
<1>4. QED
  BY <1>2, <1>3

\* A boundary is given, or comes behind the one before.
BoundaryStep(e, K, c, a, i) ==
  IF i \in K THEN c[i] ELSE a[i] + (IF i = 0 THEN 0 ELSE e[i - 1])

LEMMA BoundariesExist ==
  ASSUME NEW K, NEW c \in [Index -> Nat], NEW a \in [Index -> Nat], Last \in Nat
  PROVE  \E e \in [Index -> Nat] : \A i \in Index : e[i] = BoundaryStep(e, K, c, a, i)
<1> DEFINE Upto(n, e) == e \in [Index -> Nat] /\ \A i \in 0 .. n : e[i] = BoundaryStep(e, K, c, a, i)
           G == {n \in Index : \E e : Upto(n, e)}
<1>1. 0 \in G
  <2> DEFINE e == [i \in Index |-> BoundaryStep(<<>>, K, c, a, 0)]
  <2>1. 0 \in Index /\ \A i \in 0 .. 0 : i = 0
    BY DEF Index
  <2>2. e \in [Index -> Nat]
    BY <2>1 DEF BoundaryStep
  <2>3. e[0] = BoundaryStep(e, K, c, a, 0)
    BY <2>1 DEF BoundaryStep
  <2> HIDE DEF e
  <2>4. QED
    BY <2>1, <2>2, <2>3
<1>2. ASSUME NEW n \in Index, n > 0, n - 1 \in G PROVE n \in G
  <2>1. PICK e : Upto(n - 1, e)
    BY <1>2
  <2> DEFINE f == [e EXCEPT ![n] = BoundaryStep(e, K, c, a, n)]
  <2>2. n - 1 \in Index /\ \A i \in 0 .. n : i \in Index /\ (i = n \/ i \in 0 .. n - 1)
    BY <1>2 DEF Index
  <2>3. f \in [Index -> Nat] /\ f[n] = BoundaryStep(e, K, c, a, n) /\ \A i \in 0 .. n - 1 : f[i] = e[i]
    BY <2>1, <2>2 DEF BoundaryStep
  <2> HIDE DEF f
  <2>4. ASSUME NEW i \in 0 .. n PROVE f[i] = BoundaryStep(f, K, c, a, i)
    <3>1. i # 0 => i - 1 \in 0 .. n - 1
      BY DEF Index
    <3>2. BoundaryStep(f, K, c, a, i) = BoundaryStep(e, K, c, a, i)
      BY <2>3, <3>1 DEF BoundaryStep
    <3>3. f[i] = BoundaryStep(e, K, c, a, i)
      BY <2>1, <2>2, <2>3
    <3>4. QED
      BY <3>2, <3>3
  <2>5. QED
    BY <2>3, <2>4
<1>3. \A n \in Index : n \in G
  <2> HIDE DEF G
  <2>1. QED
    BY <1>1, <1>2, AllIndexes
<1>4. Last \in G
  <2>1. Last \in Index
    BY DEF Index
  <2> HIDE DEF G
  <2>2. QED
    BY <1>3, <2>1
<1>5. PICK e : Upto(Last, e)
  BY <1>4
<1>6. QED
  BY <1>5 DEF Index

-----------------------------------------------------------------------------
(* Where the segments lie.                                                 *)

Sizes == size \in [Index -> Nat \ {0}]

LEMMA PartEndIs ==
  ASSUME Sizes, Last \in Nat, NEW i \in Index
  PROVE  PartEnd(i) \in Nat /\ PartEnd(i) = size[i] + (IF i = 0 THEN 0 ELSE PartEnd(i - 1))
<1> DEFINE Step(s) == [j \in Index |-> size[j] + (IF j = 0 THEN 0 ELSE s[j - 1])]
           Sum == CHOOSE s : s = Step(s)
<1>1. PICK e \in [Index -> Nat] : \A j \in Index : e[j] = BoundaryStep(e, {}, size, size, j)
  <2>1. size \in [Index -> Nat]
    BY DEF Sizes
  <2>2. QED
    BY <2>1, BoundariesExist
<1>2. e = Step(e)
  BY <1>1 DEF BoundaryStep
<1>3. Sum = Step(Sum)
  BY <1>2
<1>4. \A k \in Index : PartEnd(k) = Sum[k]
  BY DEF PartEnd
<1> HIDE DEF Sum
<1>5. \A k \in Index : Sum[k] = size[k] + (IF k = 0 THEN 0 ELSE Sum[k - 1])
  BY <1>3
<1>6. \A k \in Index : k \in {j \in Index : Sum[j] \in Nat}
  <2> DEFINE G == {j \in Index : Sum[j] \in Nat}
  <2>1. 0 \in G
    BY <1>5 DEF Index, Sizes
  <2>2. ASSUME NEW k \in Index, k > 0, k - 1 \in G PROVE k \in G
    BY <1>5, <2>2 DEF Index, Sizes
  <2> HIDE DEF G
  <2>3. \A k \in Index : k \in G
    BY <2>1, <2>2, AllIndexes
  <2>4. QED
    BY <2>3 DEF G
<1>7. i # 0 => i - 1 \in Index
  BY DEF Index
<1>8. QED
  BY <1>4, <1>5, <1>6, <1>7

\* The segments lie one behind the other.
LEMMA PartsInOrder ==
  ASSUME Sizes, Last \in Nat
  PROVE  \A i, j \in Index : i < j => PartEnd(i) <= PartBegin(j) /\ PartEnd(i) < PartEnd(j)
<1> SUFFICES ASSUME NEW i \in Index
             PROVE  \A j \in Index : i < j => PartEnd(i) <= PartBegin(j) /\ PartEnd(i) < PartEnd(j)
  OBVIOUS
<1> DEFINE G == {j \in Index : i < j => PartEnd(i) <= PartBegin(j) /\ PartEnd(i) < PartEnd(j)}
<1>1. 0 \in G
  BY DEF Index
<1>2. ASSUME NEW j \in Index, j > 0, j - 1 \in G PROVE j \in G
  <2>1. j - 1 \in Index /\ size[j] \in Nat /\ size[j] > 0
    BY <1>2 DEF Index, Sizes
  <2>2. PartEnd(i) \in Nat /\ PartEnd(j - 1) \in Nat /\ PartEnd(j) = size[j] + PartEnd(j - 1)
    BY <1>2, <2>1, PartEndIs
  <2>3. PartBegin(j) = PartEnd(j - 1)
    BY <2>1, <2>2 DEF PartBegin
  <2>4. i < j => i = j - 1 \/ i < j - 1
    BY DEF Index
  <2>5. QED
    BY <1>2, <2>1, <2>2, <2>3, <2>4
<1> HIDE DEF G
<1>3. \A j \in Index : j \in G
  BY <1>1, <1>2, AllIndexes
<1>4. QED
  BY <1>3 DEF G

LEMMA PartTypes ==
  ASSUME Sizes, Last \in Nat
  PROVE  /\ \A i \in Index : PartBegin(i) \in Nat /\ PartEnd(i) \in Nat /\ PartBegin(i) < PartEnd(i)
         /\ FileSize \in Nat
         /\ \A i \in Index : PartEnd(i) <= FileSize
<1>1. ASSUME NEW i \in Index PROVE PartBegin(i) \in Nat /\ PartEnd(i) \in Nat /\ PartBegin(i) < PartEnd(i)
  <2>1. PartEnd(i) \in Nat /\ PartEnd(i) = size[i] + (IF i = 0 THEN 0 ELSE PartEnd(i - 1))
    BY PartEndIs
  <2>2. size[i] \in Nat /\ size[i] > 0 /\ (i # 0 => i - 1 \in Index)
    BY DEF Sizes, Index
  <2>3. i # 0 => PartEnd(i - 1) \in Nat
    BY <2>2, PartEndIs
  <2>4. QED
    BY <2>1, <2>2, <2>3 DEF PartBegin
<1>2. Last \in Index /\ \A i \in Index : i = Last \/ i < Last
  BY DEF Index
<1>3. QED
  BY <1>1, <1>2, PartsInOrder DEF FileSize

\* Every byte of the file is in a segment.
LEMMA SomePart ==
  ASSUME Sizes, Last \in Nat, NEW x \in Nat, x < FileSize
  PROVE  \E i \in Index : PartBegin(i) <= x /\ x < PartEnd(i)
<1> DEFINE After == {i \in Index : x < PartEnd(i)}
<1>1. After # {} /\ After \subseteq Nat
  BY DEF FileSize, Index
<1>2. PICK i \in After : \A j \in After : i <= j
  BY <1>1, Least
<1>3. i \in Index /\ x < PartEnd(i)
  OBVIOUS
<1>4. PartEnd(i) = size[i] + (IF i = 0 THEN 0 ELSE PartEnd(i - 1)) /\ size[i] \in Nat /\ PartEnd(i) \in Nat
  BY <1>3, PartEndIs DEF Sizes
<1>5. CASE i = 0
  BY <1>3, <1>4, <1>5 DEF PartBegin
<1>6. CASE i # 0
  <2>1. i - 1 \in Index /\ i - 1 < i
    BY <1>3, <1>6 DEF Index
  <2>2. PartEnd(i - 1) \in Nat /\ ~ (x < PartEnd(i - 1))
    BY <1>2, <2>1, PartEndIs DEF Index
  <2>3. QED
    BY <1>3, <1>4, <1>6, <2>2 DEF PartBegin
<1>7. QED
  BY <1>5, <1>6

\* A boundary is exact where the header is known.
LEMMA BoundaryKnown ==
  ASSUME Sizes, Last \in Nat, estimate \in [Index -> Nat], NEW K, NEW i \in Index, i \in K
  PROVE  EndBoundary(K)[i] = PartEnd(i)
<1> DEFINE Step(s) == [j \in Index |-> IF j \in K THEN PartEnd(j)
                                      ELSE estimate[j] + (IF j = 0 THEN 0 ELSE s[j - 1])]
           Ends == [j \in Index |-> PartEnd(j)]
<1>1. Ends \in [Index -> Nat]
  BY PartTypes
<1>2. PICK e \in [Index -> Nat] : \A j \in Index : e[j] = BoundaryStep(e, K, Ends, estimate, j)
  <2> HIDE DEF Ends
  <2>1. QED
    BY <1>1, BoundariesExist
<1>3. e = Step(e)
  BY <1>2 DEF BoundaryStep
<1>4. EndBoundary(K) = CHOOSE s : s = Step(s)
  BY DEF EndBoundary
<1>5. EndBoundary(K) = Step(EndBoundary(K))
  BY <1>3, <1>4
<1>6. QED
  BY <1>5
-----------------------------------------------------------------------------
(* The searches.                                                           *)

\* One turn of the loop, with the rest of it from f.
Half(f, left, p) ==
  LET m == (p[1] + p[2]) \div 2 IN
  IF p[2] <= p[1] + 1 THEN p
  ELSE IF m \in left THEN f[<<p[1], m>>] ELSE f[<<m, p[2]>>]

Pairs == Index \X Index
Apart(n) == {p \in Pairs : p[2] <= p[1] + n}

\* Both halves of an interval are shorter.
LEMMA Halves ==
  ASSUME Last \in Nat, NEW n \in Nat, NEW p \in Apart(n + 1), ~ (p[2] <= p[1] + 1),
         NEW m, m = (p[1] + p[2]) \div 2
  PROVE  /\ m \in Index /\ p[1] < m /\ m < p[2]
         /\ <<p[1], m>> \in Apart(n) /\ <<m, p[2]>> \in Apart(n)
<1>1. /\ p \in Pairs /\ p[1] \in Nat /\ p[2] \in Nat /\ p[2] <= p[1] + n + 1
        /\ p[1] \in Index /\ p[2] \in Index /\ p[2] <= Last
  BY DEF Apart, Pairs, Index
<1>2. m \in Nat /\ p[1] < m /\ m < p[2]
  BY <1>1
<1>3. m \in Index
  BY <1>1, <1>2 DEF Index
<1>4. m <= p[1] + n /\ p[2] <= m + n
  BY <1>1, <1>2
<1>5. QED
  BY <1>1, <1>2, <1>3, <1>4 DEF Apart, Pairs

LEMMA BisectExists ==
  ASSUME NEW left, Last \in Nat
  PROVE  \E f : f = [p \in Pairs |-> Half(f, left, p)]
<1> DEFINE Below(n, f) == /\ f \in [Pairs -> Pairs]
                          /\ \A p \in Apart(n) : f[p] = Half(f, left, p)
           G == {n \in Index : \E f : Below(n, f)}
<1>1. 0 \in G
  <2> DEFINE f == [p \in Pairs |-> p]
  <2>1. \A p \in Apart(0) : p[2] <= p[1] + 1
    BY DEF Apart, Pairs, Index
  <2>2. Below(0, f)
    BY <2>1 DEF Half, Apart
  <2> HIDE DEF f
  <2>3. QED
    BY <2>2 DEF Index
<1>2. ASSUME NEW n \in Index, n > 0, n - 1 \in G PROVE n \in G
  <2>1. PICK f : Below(n - 1, f)
    BY <1>2
  <2> DEFINE g == [p \in Pairs |-> IF p \in Apart(n - 1) THEN f[p]
                                   ELSE IF p \in Apart(n) THEN Half(f, left, p) ELSE p]
  <2>2. n - 1 \in Nat /\ n - 1 + 1 = n
    BY <1>2 DEF Index
  <2>3. ASSUME NEW p \in Apart(n) PROVE p \in Pairs /\ Half(f, left, p) \in Pairs
    <3>1. CASE p[2] <= p[1] + 1
      BY <3>1 DEF Half, Apart
    <3>2. CASE ~ (p[2] <= p[1] + 1)
      <4>1. /\ <<p[1], (p[1] + p[2]) \div 2>> \in Pairs
            /\ <<(p[1] + p[2]) \div 2, p[2]>> \in Pairs
        BY <2>2, <3>2, Halves DEF Apart
      <4>2. QED
        BY <2>1, <3>2, <4>1 DEF Half, Apart
    <3>3. QED
      BY <3>1, <3>2
  <2>4. g \in [Pairs -> Pairs]
    BY <2>1, <2>3
  <2>5. Apart(n - 1) \subseteq Apart(n)
    BY <2>2 DEF Apart, Pairs, Index
  <2>6. ASSUME NEW p \in Apart(n) PROVE g[p] = Half(f, left, p)
    BY <2>1, <2>3, <2>6
  <2>7. \A p \in Apart(n - 1) : g[p] = f[p]
    BY DEF Apart
  <2> HIDE DEF g
  <2>8. ASSUME NEW p \in Apart(n) PROVE g[p] = Half(g, left, p)
    <3>1. CASE p[2] <= p[1] + 1
      BY <2>6, <3>1 DEF Half
    <3>2. CASE ~ (p[2] <= p[1] + 1)
      <4>1. /\ <<p[1], (p[1] + p[2]) \div 2>> \in Apart(n - 1)
            /\ <<(p[1] + p[2]) \div 2, p[2]>> \in Apart(n - 1)
        BY <2>2, <3>2, Halves
      <4>2. Half(g, left, p) = Half(f, left, p)
        BY <2>7, <4>1 DEF Half
      <4>3. QED
        BY <2>6, <4>2
    <3>3. QED
      BY <3>1, <3>2
  <2>9. QED
    BY <2>4, <2>8
<1>3. Last \in G
  <2>1. Last \in Index
    BY DEF Index
  <2> HIDE DEF G
  <2>2. QED
    BY <1>1, <1>2, <2>1, AllIndexes
<1>4. PICK f : Below(Last, f)
  BY <1>3
<1>5. Apart(Last) = Pairs
  BY DEF Apart, Pairs, Index
<1>6. f = [p \in Pairs |-> Half(f, left, p)]
  BY <1>4, <1>5
<1>7. QED
  BY <1>6

\* The loop ends with an interval that is one long, or with the one it started
\* with; each bound stayed where it was or was found by a test of  left.
LEMMA BisectFinds ==
  ASSUME NEW left, Last \in Nat, NEW lb \in Index, NEW ub \in Index, lb <= ub
  PROVE  LET b == Bisect(left, lb, ub) IN
         /\ b \in Pairs
         /\ lb <= b[1] /\ b[1] <= b[2] /\ b[2] <= ub
         /\ b[1] = lb \/ (b[1] < ub /\ b[1] \notin left)
         /\ b[2] = ub \/ b[2] \in left
<1> DEFINE Step(s) == [p \in Pairs |-> Half(s, left, p)]
           F == CHOOSE s : s = Step(s)
           Found(p, b) ==
             /\ b \in Pairs
             /\ p[1] <= b[1] /\ b[1] <= b[2] /\ b[2] <= p[2]
             /\ b[1] = p[1] \/ (b[1] < p[2] /\ b[1] \notin left)
             /\ b[2] = p[2] \/ b[2] \in left
           G == {n \in Index : \A p \in Apart(n) : p[1] <= p[2] => Found(p, F[p])}
<1>1. F = Step(F)
  BY BisectExists
<1>2. Bisect(left, lb, ub) = F[<<lb, ub>>]
  BY DEF Bisect, Half, Pairs
<1> HIDE DEF F
<1>3. \A p \in Pairs : F[p] = Half(F, left, p)
  BY <1>1
<1>4. 0 \in G
  <2>1. ASSUME NEW p \in Apart(0), p[1] <= p[2] PROVE Found(p, F[p])
    <3>1. p \in Pairs /\ p[2] <= p[1] + 1 /\ p[1] \in Nat /\ p[2] \in Nat
      BY DEF Apart, Pairs, Index
    <3>2. F[p] = p
      BY <1>3, <3>1 DEF Half
    <3>3. QED
      BY <2>1, <3>1, <3>2
  <2>2. QED
    BY <2>1 DEF Index
<1>5. ASSUME NEW n \in Index, n > 0, n - 1 \in G PROVE n \in G
  <2>1. ASSUME NEW p \in Apart(n), p[1] <= p[2] PROVE Found(p, F[p])
    <3>1. p \in Pairs /\ p[1] \in Nat /\ p[2] \in Nat
      BY DEF Apart, Pairs, Index
    <3>2. CASE p[2] <= p[1] + 1
      <4>1. F[p] = p
        BY <1>3, <3>1, <3>2 DEF Half
      <4>2. QED
        BY <2>1, <3>1, <4>1
    <3>3. CASE ~ (p[2] <= p[1] + 1)
      <4> DEFINE m == (p[1] + p[2]) \div 2
      <4>1. /\ m \in Index /\ p[1] < m /\ m < p[2]
            /\ <<p[1], m>> \in Apart(n - 1) /\ <<m, p[2]>> \in Apart(n - 1)
        <5>1. n - 1 \in Nat /\ n - 1 + 1 = n
          BY <1>5 DEF Index
        <5>2. QED
          BY <3>3, <5>1, Halves
      <4>2. F[p] = IF m \in left THEN F[<<p[1], m>>] ELSE F[<<m, p[2]>>]
        BY <1>3, <3>1, <3>3 DEF Half
      <4> HIDE DEF m
      <4>3. m \in Nat
        BY <4>1 DEF Index
      <4>4. CASE m \in left
        <5> DEFINE q == <<p[1], m>>
        <5>1. q \in Apart(n - 1) /\ q[1] <= q[2] /\ q[1] = p[1] /\ q[2] = m
          BY <3>1, <4>1, <4>3
        <5> HIDE DEF q
        <5>2. Found(q, F[q]) /\ F[p] = F[q]
          BY <1>5, <4>2, <4>4, <5>1 DEF q
        <5>3. F[q][1] \in Nat /\ F[q][2] \in Nat
          BY <5>2 DEF Pairs, Index
        <5>4. QED
          BY <3>1, <4>1, <4>3, <4>4, <5>1, <5>2, <5>3
      <4>5. CASE m \notin left
        <5> DEFINE q == <<m, p[2]>>
        <5>1. q \in Apart(n - 1) /\ q[1] <= q[2] /\ q[1] = m /\ q[2] = p[2]
          BY <3>1, <4>1, <4>3
        <5> HIDE DEF q
        <5>2. Found(q, F[q]) /\ F[p] = F[q]
          BY <1>5, <4>2, <4>5, <5>1 DEF q
        <5>3. F[q][1] \in Nat /\ F[q][2] \in Nat
          BY <5>2 DEF Pairs, Index
        <5>4. QED
          BY <3>1, <4>1, <4>3, <4>5, <5>1, <5>2, <5>3
      <4>6. QED
        BY <4>4, <4>5
    <3>4. QED
      BY <3>2, <3>3
  <2>2. QED
    BY <2>1
<1>6. Last \in G
  <2>1. Last \in Index
    BY DEF Index
  <2> HIDE DEF G
  <2>2. QED
    BY <1>4, <1>5, <2>1, AllIndexes
<1>7. <<lb, ub>> \in Apart(Last)
  BY DEF Apart, Pairs, Index
<1>8. Found(<<lb, ub>>, F[<<lb, ub>>])
  BY <1>6, <1>7
<1>9. QED
  BY <1>2, <1>8
-----------------------------------------------------------------------------
(* A read.                                                                 *)

Read == begin \in Nat /\ end \in Nat /\ begin < end

\* The bytes of the file that a read is to copy, each to its place.
Bytes == {<<p, begin + p>> : p \in {q \in 0 .. end - begin - 1 : begin + q < FileSize}}

\* What is copied of a segment are the bytes of it that the read is to have.
LEMMA CopyIs ==
  ASSUME Sizes, Last \in Nat, Read, NEW i \in Index, Overlaps(i)
  PROVE  /\ DOMAIN Copy(i) = {p \in 0 .. end - begin - 1 :
                                PartBegin(i) <= begin + p /\ begin + p < PartEnd(i)}
         /\ \A p \in DOMAIN Copy(i) : Copy(i)[p] = begin + p
<1> DEFINE pb == PartBegin(i)
           pe == PartEnd(i)
           bufOffset == IF pb > begin THEN pb - begin ELSE 0
           segOffset == IF begin > pb THEN begin - pb ELSE 0
           atMost == pe - (IF pb > begin THEN pb ELSE begin)
           wanted == end - begin - bufOffset
           n == IF wanted < atMost THEN wanted ELSE atMost
<1>1. Copy(i) = [p \in bufOffset .. bufOffset + n - 1 |-> pb + segOffset + p - bufOffset]
  BY DEF Copy
<1>2. pb \in Nat /\ pe \in Nat /\ pb < pe
  BY PartTypes
<1>3. begin < pe /\ pb < end /\ begin \in Nat /\ end \in Nat /\ begin < end
  BY DEF Overlaps, Read
<1> HIDE DEF pb, pe
<1>4. bufOffset .. bufOffset + n - 1
        = {p \in 0 .. end - begin - 1 : pb <= begin + p /\ begin + p < pe}
  BY <1>2, <1>3
<1>5. \A p \in bufOffset .. bufOffset + n - 1 : pb + segOffset + p - bufOffset = begin + p
  BY <1>2, <1>3
<1>6. QED
  BY <1>1, <1>4, <1>5 DEF pb, pe

\* What a read copies of the segments I.
CopiedOf(I) == UNION {{<<p, Copy(i)[p]>> : p \in DOMAIN Copy(i)} : i \in I}

LEMMA CopiedRight ==
  ASSUME Sizes, Last \in Nat, Read, NEW I \in SUBSET Index, \A i \in I : Overlaps(i)
  PROVE  CopiedOf(I) \subseteq Bytes
<1> SUFFICES ASSUME NEW i \in I, NEW p \in DOMAIN Copy(i) PROVE <<p, Copy(i)[p]>> \in Bytes
  BY DEF CopiedOf
<1>1. /\ p \in 0 .. end - begin - 1 /\ PartBegin(i) <= begin + p /\ begin + p < PartEnd(i)
      /\ Copy(i)[p] = begin + p
  BY CopyIs
<1>2. PartEnd(i) \in Nat /\ PartEnd(i) <= FileSize /\ FileSize \in Nat
  BY PartTypes
<1>3. begin + p < FileSize
  BY <1>1, <1>2 DEF Read
<1>4. QED
  BY <1>1, <1>3 DEF Bytes

\* A read that copies all segments it overlaps copies all its bytes.
LEMMA CopiedAll ==
  ASSUME Sizes, Last \in Nat, Read, NEW I, Needed \subseteq I, \A i \in I : i \in Index /\ Overlaps(i)
  PROVE  Bytes \subseteq CopiedOf(I)
<1> SUFFICES ASSUME NEW p \in 0 .. end - begin - 1, begin + p < FileSize
             PROVE  <<p, begin + p>> \in CopiedOf(I)
  BY DEF Bytes
<1>1. p \in Nat /\ begin + p \in Nat /\ begin + p < end
  BY DEF Read
<1>2. PICK i \in Index : PartBegin(i) <= begin + p /\ begin + p < PartEnd(i)
  BY <1>1, SomePart
<1>3. PartBegin(i) \in Nat /\ PartEnd(i) \in Nat
  BY PartTypes
<1>4. Overlaps(i)
  BY <1>1, <1>2, <1>3 DEF Overlaps, Read
<1>5. i \in I
  BY <1>4 DEF Needed
<1>6. p \in DOMAIN Copy(i) /\ Copy(i)[p] = begin + p
  BY <1>2, <1>4, CopyIs
<1>7. <<p, begin + p>> \in {<<q, Copy(i)[q]>> : q \in DOMAIN Copy(i)}
  BY <1>6
<1>8. QED
  BY <1>5, <1>7 DEF CopiedOf

\* Of the segments that a read overlaps none is between two others.
LEMMA AtMostTwo ==
  ASSUME Cardinality(Needed) <= MaxSpan, MaxSpan \in Nat, MaxSpan <= 2, Last \in Nat,
         NEW i \in Needed, NEW j \in Needed, NEW k \in Needed
  PROVE  i = j \/ j = k \/ i = k
<1> SUFFICES ASSUME i # j, j # k, i # k PROVE FALSE
  OBVIOUS
<1>1. IsFiniteSet(Needed)
  <2>1. IsFiniteSet(Index)
    BY FS_Interval DEF Index
  <2>2. Needed \subseteq Index
    BY DEF Needed
  <2>3. QED
    BY <2>1, <2>2, FS_Subset
<1>2. IsFiniteSet({i, j, k}) /\ Cardinality({i, j, k}) = 3
  <2>1. IsFiniteSet({i}) /\ Cardinality({i}) = 1
    BY FS_Singleton
  <2>2. IsFiniteSet({i} \cup {j}) /\ Cardinality({i} \cup {j}) = 2
    BY <2>1, FS_AddElement
  <2>3. IsFiniteSet({i} \cup {j} \cup {k}) /\ Cardinality({i} \cup {j} \cup {k}) = 3
    BY <2>2, FS_AddElement
  <2>4. {i} \cup {j} \cup {k} = {i, j, k}
    OBVIOUS
  <2>5. QED
    BY <2>3, <2>4
<1>3. Cardinality({i, j, k}) <= Cardinality(Needed) /\ Cardinality(Needed) \in Nat
  BY <1>1, FS_Subset, FS_CardinalityType
<1>4. QED
  BY <1>2, <1>3

\* The searches stay among the segments.
LEMMA RangeInIndex ==
  ASSUME Last \in Nat, NEW e
  PROVE  FindSegmentIdxRange(e) \subseteq Index
<1> DEFINE low == {m \in Index : begin < e[m]}
           high == {m \in Index : end <= e[m]}
           b == Bisect(low, 0, Last)
           r == Bisect(high, b[1], Last)
<1>1. FindSegmentIdxRange(e) = r[1] .. r[2]
  BY DEF FindSegmentIdxRange
<1>2. 0 \in Index /\ Last \in Index /\ 0 <= Last
  BY DEF Index
<1>3. b[1] \in Index /\ b[1] <= Last
  <2> HIDE DEF low
  <2>1. b \in Pairs /\ 0 <= b[1] /\ b[1] <= b[2] /\ b[2] <= Last
    BY <1>2, BisectFinds
  <2>2. QED
    BY <2>1 DEF Pairs, Index
<1>4. r \in Pairs
  <2> HIDE DEF high, b
  <2>1. QED
    BY <1>2, <1>3, BisectFinds
<1> HIDE DEF r
<1>5. QED
  BY <1>1, <1>4 DEF Pairs, Index

\* When all headers of the range are known the read needs no other segment.
LEMMA RangeCovers ==
  ASSUME Sizes, Last \in Nat, estimate \in [Index -> Nat], Read,
         Cardinality(Needed) <= MaxSpan, MaxSpan \in Nat, MaxSpan <= 2,
         NEW K, FindSegmentIdxRange(EndBoundary(K)) \subseteq K
  PROVE  Needed \subseteq FindSegmentIdxRange(EndBoundary(K))
<1> DEFINE e == EndBoundary(K)
           low == {m \in Index : begin < e[m]}
           high == {m \in Index : end <= e[m]}
           b == Bisect(low, 0, Last)
           r == Bisect(high, b[1], Last)
<1>1. FindSegmentIdxRange(e) = r[1] .. r[2]
  BY DEF FindSegmentIdxRange
<1>2. 0 \in Index /\ Last \in Index /\ 0 <= Last
  BY DEF Index
<1>3. b \in Pairs /\ 0 <= b[1] /\ b[1] <= Last /\ (b[1] = 0 \/ b[1] \notin low)
  <2> HIDE DEF low
  <2>1. b \in Pairs /\ 0 <= b[1] /\ b[1] <= b[2] /\ b[2] <= Last /\ (b[1] = 0 \/ b[1] \notin low)
    BY <1>2, BisectFinds
  <2>2. QED
    BY <2>1 DEF Pairs, Index
<1>4. /\ r \in Pairs /\ b[1] <= r[1] /\ r[1] <= r[2]
      /\ r[1] = b[1] \/ (r[1] < Last /\ r[1] \notin high)
      /\ r[2] = Last \/ r[2] \in high
  <2> HIDE DEF high, b
  <2>1. b[1] \in Index
    BY <1>3 DEF Pairs
  <2>2. QED
    BY <1>2, <1>3, <2>1, BisectFinds
<1>5. r[1] \in Index /\ r[2] \in Index /\ r[1] \in K /\ r[2] \in K
  <2> HIDE DEF r
  <2>1. r[1] \in Index /\ r[2] \in Index /\ r[1] \in r[1] .. r[2] /\ r[2] \in r[1] .. r[2]
    BY <1>4 DEF Pairs, Index
  <2>2. QED
    BY <1>1, <2>1 DEF e
<1>6. e[r[1]] = PartEnd(r[1]) /\ e[r[2]] = PartEnd(r[2])
  <2> HIDE DEF r
  <2>1. QED
    BY <1>5, BoundaryKnown
<1>7. /\ r[1] = 0 \/ PartEnd(r[1]) <= begin \/ (r[1] < Last /\ PartEnd(r[1]) < end)
      /\ r[2] = Last \/ end <= PartEnd(r[2])
  <2>1. PartEnd(r[1]) \in Nat /\ PartEnd(r[2]) \in Nat
    <3> HIDE DEF r
    <3>1. QED
      BY <1>5, PartTypes
  <2>2. r[1] = b[1] => r[1] = 0 \/ ~ (begin < e[r[1]])
    <3> HIDE DEF e, r, b
    <3>1. QED
      BY <1>3, <1>5
  <2>3. r[1] # b[1] => r[1] < Last /\ ~ (end <= e[r[1]])
    <3> HIDE DEF e, r, b
    <3>1. QED
      BY <1>4, <1>5
  <2>4. r[2] = Last \/ end <= e[r[2]]
    <3> HIDE DEF e, r
    <3>1. QED
      BY <1>4
  <2> HIDE DEF e, r, b
  <2>5. QED
    BY <1>6, <2>1, <2>2, <2>3, <2>4 DEF Read
<1> HIDE DEF r, b, e
<1>8. ASSUME NEW j \in Needed PROVE j \in r[1] .. r[2]
  <2>1. /\ j \in Index /\ j \in Nat /\ r[1] \in Nat /\ r[2] \in Nat /\ j <= Last
        /\ begin < PartEnd(j) /\ PartBegin(j) < end
    BY <1>5 DEF Needed, Overlaps, Index
  <2>2. /\ PartEnd(j) \in Nat /\ PartBegin(j) \in Nat
        /\ PartEnd(r[1]) \in Nat /\ PartEnd(r[2]) \in Nat
    BY <1>5, <2>1, PartTypes
  <2>3. j <= r[2]
    <3>1. r[2] < j => PartEnd(r[2]) <= PartBegin(j)
      BY <1>5, <2>1, PartsInOrder
    <3>2. QED
      BY <1>7, <2>1, <2>2, <3>1 DEF Read
  <2>4. r[1] <= j
    <3> SUFFICES ASSUME j < r[1] PROVE FALSE
      BY <2>1
    <3>1. PartEnd(j) < PartEnd(r[1]) /\ PartEnd(j) <= PartBegin(r[1])
      BY <1>5, <2>1, PartsInOrder
    <3>2. r[1] < Last /\ PartEnd(r[1]) < end
      BY <1>7, <2>1, <2>2, <3>1 DEF Read
    <3>3. r[1] + 1 \in Index /\ r[1] < r[1] + 1
      <4>1. r[1] + 1 \in Nat /\ r[1] + 1 <= Last /\ r[1] < r[1] + 1
        BY <2>1, <3>2
      <4>2. QED
        BY <4>1 DEF Index
    <3>4. /\ PartEnd(r[1] + 1) \in Nat /\ PartBegin(r[1] + 1) = PartEnd(r[1])
          /\ PartEnd(r[1]) < PartEnd(r[1] + 1)
          /\ PartBegin(r[1]) < PartEnd(r[1]) /\ PartBegin(r[1]) \in Nat
      <4>1. PartEnd(r[1] + 1) = size[r[1] + 1] + PartEnd(r[1]) /\ PartEnd(r[1] + 1) \in Nat
        BY <2>1, <3>3, PartEndIs
      <4>2. size[r[1] + 1] \in Nat /\ size[r[1] + 1] > 0
        BY <3>3 DEF Sizes
      <4>3. QED
        BY <1>5, <2>2, <4>1, <4>2, PartTypes DEF PartBegin
    <3>5. r[1] \in Needed
      BY <1>5, <2>1, <2>2, <3>1, <3>2, <3>4 DEF Needed, Overlaps, Read
    <3>6. r[1] + 1 \in Needed
      BY <2>1, <2>2, <3>1, <3>2, <3>3, <3>4 DEF Needed, Overlaps, Read
    <3>7. QED
      BY <2>1, <3>5, <3>6, AtMostTwo
  <2>5. QED
    BY <2>1, <2>3, <2>4
<1>9. QED
  BY <1>1, <1>8 DEF e
-----------------------------------------------------------------------------
(* The inductive invariant.                                                *)

ReadInv ==
  /\ Read
  /\ size \in [Index -> Size] /\ estimate \in [Index -> Estimate]
  /\ known \subseteq Index
  /\ Cardinality(Needed) <= MaxSpan
  /\ copied \subseteq Bytes
  /\ ready \in BOOLEAN
  /\ MaxSpan <= 2 /\ ready => Bytes \subseteq copied

LEMMA ReadTypes ==
  ASSUME size \in [Index -> Size], estimate \in [Index -> Estimate]
  PROVE  Sizes /\ Last \in Nat /\ MaxSpan \in Nat /\ estimate \in [Index -> Nat]
BY RangeAssumption DEF RangeAssumption, Sizes

\* The segments and the read stay where they are.
LEMMA SameRead ==
  ASSUME UNCHANGED <<size, begin, end>>
  PROVE  Needed' = Needed /\ Bytes' = Bytes /\ FileSize' = FileSize
<1>1. \A i : PartEnd(i)' = PartEnd(i)
  BY DEF PartEnd
<1>2. \A i : PartBegin(i)' = PartBegin(i)
  BY <1>1 DEF PartBegin
<1>3. FileSize' = FileSize
  BY <1>1 DEF FileSize
<1>4. \A i : Overlaps(i)' <=> Overlaps(i)
  BY <1>1, <1>2 DEF Overlaps
<1>5. QED
  BY <1>3, <1>4 DEF Needed, Bytes

LEMMA ReadStarts == Init => ReadInv
<1> SUFFICES ASSUME Init PROVE ReadInv
  OBVIOUS
<1>1. Sizes /\ Last \in Nat
  BY ReadTypes DEF Init
<1>2. FileSize \in Nat
  BY <1>1, PartTypes
<1>3. Read
  BY <1>2 DEF Init, Read
<1>4. 0 \in Index
  BY <1>1 DEF Index
<1>5. QED
  BY <1>3, <1>4 DEF Init, ReadInv

LEMMA TryGetDataKeeps ==
  ASSUME ReadInv, TryGetData
  PROVE  ReadInv'
<1> DEFINE range == FindSegmentIdxRange(EndBoundary(known))
           here == {i \in range \cap known : Overlaps(i)}
<1>1. Sizes /\ Last \in Nat /\ MaxSpan \in Nat /\ estimate \in [Index -> Nat] /\ Read
  BY ReadTypes DEF ReadInv
<1>2. /\ ~ ready /\ copied' = copied \cup CopiedOf(here) /\ known' = known \cup range
      /\ ready' = (range \subseteq known)
      /\ UNCHANGED <<size, estimate, begin, end>>
  BY DEF TryGetData, CopiedOf
<1>3. Needed' = Needed /\ Bytes' = Bytes
  BY <1>2, SameRead
<1>4. range \subseteq Index
  BY <1>1, RangeInIndex
<1>5. CopiedOf(here) \subseteq Bytes
  <2>1. here \in SUBSET Index /\ \A i \in here : Overlaps(i)
    BY <1>4
  <2> HIDE DEF here
  <2>2. QED
    BY <1>1, <2>1, CopiedRight
<1>6. ASSUME MaxSpan <= 2, ready' PROVE Bytes \subseteq CopiedOf(here)
  <2>1. range \subseteq known
    BY <1>2, <1>6
  <2>2. Needed \subseteq range
    BY <1>1, <1>6, <2>1, RangeCovers DEF ReadInv
  <2>3. Needed \subseteq here /\ \A i \in here : i \in Index /\ Overlaps(i)
    BY <1>4, <2>1, <2>2 DEF Needed
  <2> HIDE DEF here
  <2>4. QED
    BY <1>1, <2>3, CopiedAll
<1> HIDE DEF range, here
<1>7. QED
  BY <1>2, <1>3, <1>4, <1>5, <1>6 DEF ReadInv, Read

LEMMA OtherSegmentKeeps ==
  ASSUME ReadInv, (\E i \in Index : OtherSegment(i)) \/ UNCHANGED vars
  PROVE  ReadInv'
<1>1. /\ UNCHANGED <<size, estimate, begin, end, copied, ready>> /\ known' \subseteq Index
  BY DEF OtherSegment, vars, ReadInv
<1>2. Needed' = Needed /\ Bytes' = Bytes
  BY <1>1, SameRead
<1>3. QED
  BY <1>1, <1>2 DEF ReadInv, Read

LEMMA ReadAlways == Spec => []ReadInv
<1>1. ReadInv /\ [Next]_vars => ReadInv'
  BY TryGetDataKeeps, OtherSegmentKeeps DEF Next
<1>2. QED
  BY <1>1, ReadStarts, PTL DEF Spec

-----------------------------------------------------------------------------
(* The theorems.                                                           *)

\* The segments a read knows and what it copied have their types: nothing is
\* written outside of buf, nothing read behind the end of the file.
THEOREM TypeCorrect == Spec => []TypeOK
<1>1. ReadInv => TypeOK
  <2> SUFFICES ASSUME ReadInv PROVE TypeOK
    OBVIOUS
  <2>1. FileSize \in Nat
    BY ReadTypes, PartTypes DEF ReadInv
  <2>2. Bytes \subseteq (0 .. end - begin - 1) \X (0 .. FileSize - 1)
    BY <2>1 DEF Bytes, ReadInv, Read
  <2>3. QED
    BY <2>2 DEF ReadInv, Read, TypeOK
<1>2. QED
  BY <1>1, ReadAlways, PTL

\* A read that overlaps no more than two segments has all its bytes when
\* TryGetData says so, for any number of segments, sizes and estimates.
THEOREM AllBytesAlways ==
  ASSUME MaxSpan <= 2
  PROVE  Spec => []AllBytes
<1>1. ReadInv => AllBytes
  BY DEF ReadInv, AllBytes, Bytes
<1>2. QED
  BY <1>1, ReadAlways, PTL

=============================================================================
