------------------------- MODULE NZBDriveIMPL_proofs -------------------------
(***************************************************************************)
(* What holds of the life of a drive for any NZBs, any layout of their     *)
(* archives and any number of starts and failures: the types, who uses the *)
(* mounter and the mount state when (LifeInv), the tree of files, and the  *)
(* count of the parts (CountInv).                                          *)
(***************************************************************************)
EXTENDS NZBDriveIMPL, FiniteSetTheorems, SequenceTheorems, WellFoundedInduction, TLAPS

-----------------------------------------------------------------------------
(* Finite sets of numbers.                                                 *)

\* A set of natural numbers that is not empty has a least element.
LEMMA Least ==
  ASSUME NEW T, T \subseteq Nat, T # {}
  PROVE  \E n \in T : \A m \in T : n <= m
<1> DEFINE R == OpToRel(<, Nat)
<1>1. IsWellFoundedOn(R, Nat)
  BY NatLessThanWellFounded
<1>2. \A x, y \in Nat : <<y, x>> \in R <=> y < x
  BY DEF OpToRel
<1> HIDE DEF R
<1>3. PICK x \in T : \A y \in T : ~ (<<y, x>> \in R)
  BY <1>1, WFMin
<1>4. \A y \in T : ~ (y < x)
  BY <1>2, <1>3
<1>5. QED
  BY <1>4

\* A finite one has a greatest element.
LEMMA Greatest ==
  ASSUME NEW S, S \subseteq Nat, IsFiniteSet(S), S # {}
  PROVE  \E n \in S : \A m \in S : m <= n
<1> DEFINE HasOne(T) == \E n \in T : \A m \in T : m <= n
           Bad == {n \in Nat : \E T : /\ T \subseteq Nat /\ IsFiniteSet(T) /\ T # {}
                                      /\ Cardinality(T) = n /\ ~ HasOne(T)}
<1>1. Bad = {}
  <2> SUFFICES ASSUME Bad # {} PROVE FALSE
    OBVIOUS
  <2>1. PICK n \in Bad : \A m \in Bad : n <= m
    <3>1. Bad \subseteq Nat
      OBVIOUS
    <3> HIDE DEF Bad
    <3>2. QED
      BY <3>1, Least
  <2>2. PICK T : T \subseteq Nat /\ IsFiniteSet(T) /\ T # {} /\ Cardinality(T) = n /\ ~ HasOne(T)
    BY <2>1
  <2>3. PICK x \in T : TRUE
    BY <2>2
  <2> DEFINE U == T \ {x}
  <2>4. IsFiniteSet(U) /\ Cardinality(U) = n - 1 /\ n \in Nat /\ n - 1 \in Nat
    <3>1. IsFiniteSet(U) /\ Cardinality(U) = n - 1
      BY <2>2, <2>3, FS_RemoveElement
    <3>2. QED
      BY <2>1, <3>1, FS_CardinalityType
  <2>5. U # {}
    <3> SUFFICES ASSUME U = {} PROVE FALSE
      OBVIOUS
    <3>1. T = {x}
      BY <2>3
    <3>2. HasOne(T)
      BY <2>2, <3>1
    <3>3. QED
      BY <2>2, <3>2
  <2>6. HasOne(U)
    <3>1. n - 1 \notin Bad
      BY <2>1, <2>4
    <3> HIDE DEF HasOne
    <3>2. QED
      BY <2>2, <2>4, <2>5, <3>1
  <2>7. PICK u \in U : \A m \in U : m <= u
    BY <2>6
  <2>8. \A m \in T : m \in U \/ m = x
    OBVIOUS
  <2>9. u \in Nat /\ x \in Nat /\ u \in T
    BY <2>2, <2>3, <2>7
  <2>10. CASE x <= u
    BY <2>2, <2>7, <2>8, <2>9, <2>10
  <2>11. CASE ~ (x <= u)
    <3>1. \A m \in T : m \in Nat
      BY <2>2
    <3>2. \A m \in T : m <= x
      BY <2>7, <2>8, <2>9, <2>11, <3>1
    <3>3. QED
      BY <2>2, <2>3, <3>2
  <2>12. QED
    BY <2>10, <2>11
<1>2. Cardinality(S) \in Nat
  BY FS_CardinalityType
<1> HIDE DEF HasOne
<1>3. HasOne(S)
  BY <1>1, <1>2
<1>4. QED
  BY <1>3 DEF HasOne

LEMMA LeastAndGreatest ==
  ASSUME NEW S, IsFiniteSet(S), S \subseteq Nat, S # {}
  PROVE  Min(S) \in S /\ Max(S) \in S
<1>1. Min(S) \in S
  BY Least DEF Min
<1>2. \E n \in S : \A m \in S : n >= m
  BY Greatest
<1>3. QED
  BY <1>1, <1>2 DEF Max

\* A finite set of n numbers whose greatest is n - 1 above its least has all those
\* between the two.
LEMMA NoGap ==
  ASSUME NEW S, S \subseteq Nat, IsFiniteSet(S), S # {},
         Max(S) - Min(S) = Cardinality(S) - 1
  PROVE  /\ Min(S) \in Nat /\ Cardinality(S) \in Nat
         /\ \A i \in 1 .. Cardinality(S) : Min(S) + i - 1 \in S
         /\ S = Min(S) .. Max(S)
<1>1. Min(S) \in S /\ \A y \in S : Min(S) <= y
  BY Least DEF Min
<1>2. Max(S) \in S /\ \A y \in S : Max(S) >= y
  <2>1. \E n \in S : \A m \in S : m <= n
    BY Greatest
  <2>2. \E n \in S : \A m \in S : n >= m
    BY <2>1
  <2>3. QED
    BY <2>2 DEF Max
<1>3. Min(S) \in Nat /\ Max(S) \in Nat /\ Min(S) <= Max(S)
  BY <1>1, <1>2
<1>4. Cardinality(S) \in Nat
  BY FS_CardinalityType
<1>5. S \subseteq Min(S) .. Max(S)
  BY <1>1, <1>2, <1>3
<1>6. IsFiniteSet(Min(S) .. Max(S)) /\ Cardinality(Min(S) .. Max(S)) = Max(S) - Min(S) + 1
  BY <1>3, FS_Interval
<1>7. Cardinality(Min(S) .. Max(S)) = Cardinality(S)
  BY <1>3, <1>4, <1>6
<1>8. S = Min(S) .. Max(S)
  BY <1>5, <1>6, <1>7, FS_Subset
<1>9. \A i \in 1 .. Cardinality(S) : Min(S) + i - 1 \in Min(S) .. Max(S)
  BY <1>3, <1>4
<1>10. QED
  BY <1>3, <1>4, <1>8, <1>9

\* The image of a finite set under a function.
LEMMA FiniteImage ==
  ASSUME NEW S, IsFiniteSet(S), NEW f, DOMAIN f = S
  PROVE  IsFiniteSet({f[x] : x \in S})
<1> DEFINE T == {f[x] : x \in S}
           g == [x \in S |-> f[x]]
<1>1. g \in Surjection(S, T)
  BY DEF Surjection
<1>2. QED
  BY <1>1, FS_Surjection

-----------------------------------------------------------------------------
(* Files.                                                                  *)

FileFields(f) ==
  f = [name |-> f.name, nzb |-> f.nzb, method |-> f.method, size |-> f.size, parts |-> f.parts,
       map |-> f.map]

PartsOK(f) ==
  /\ IsFiniteSet(DOMAIN f.parts) /\ DOMAIN f.parts \subseteq Nat
  /\ \A k \in DOMAIN f.parts : f.parts[k].size \in Nat /\ f.parts[k].offset \in Nat

\* The numbers of the parts have no gap.
Gapless(f) ==
  DOMAIN f.parts # {} /\ Max(DOMAIN f.parts) - Min(DOMAIN f.parts) = Cardinality(DOMAIN f.parts) - 1

\* Its parts were all there when it was finalized.
Whole(f) == PartsOK(f) /\ Gapless(f) /\ f.size = Finalize(f).size /\ f.map = Finalize(f).map

\* A file made of parts has bytes only when it is whole.
FileOf(f) == FileFields(f) /\ f.nzb \in Nat /\ (f.nzb # 0 \/ f.size = 0 \/ Whole(f))

\* The file and all those that it is made of are such files.
Closed(T) == \A f \in T : FileOf(f) /\ \A k \in DOMAIN f.parts : f.parts[k].file \in T
Made(f) == \E T : Closed(T) /\ f \in T

\* A file made of parts that has bytes has all parts from its beginning to its end.
Ended(f) == f.parts[Min(DOMAIN f.parts)].bof /\ f.parts[Max(DOMAIN f.parts)].eof
AllThere(f) ==
  f.nzb = 0 /\ f.size # 0 => DOMAIN f.parts = Min(DOMAIN f.parts) .. Max(DOMAIN f.parts) /\ Ended(f)

FileOK(f) ==
  FileFields(f) /\ f.nzb \in Nat /\ f.name.num \in Nat /\ f.size \in Nat /\ Made(f) /\ AllThere(f)

\* The parts that are in volumes are in those of this archive, by their numbers.
InVolumes(f, archive) ==
  \A k \in DOMAIN f.parts :
    IsRARName(f.parts[k].file.name) =>
      RARPart(f.parts[k].file.name) = k /\ archive = NoExt(f.parts[k].file.name.base)

\* The parts of a file without a gap, one behind the other: each begins where the one
\* before it ends.
LEMMA EndsOfParts ==
  ASSUME NEW f, PartsOK(f), Gapless(f)
  PROVE  LET count == Cardinality(DOMAIN f.parts) IN
         /\ count \in Nat /\ Ends(f) \in [0 .. count -> Nat] /\ Ends(f)[0] = 0
         /\ \A i \in 1 .. count :
              /\ First(f) + i - 1 \in DOMAIN f.parts
              /\ Ends(f)[i] = Ends(f)[i - 1] + PartOf(f, i).size
<1> DEFINE count == Cardinality(DOMAIN f.parts)
           Step(g, i) == IF i = 0 THEN 0 ELSE g[i - 1] + PartOf(f, i).size
           Good(n) == \E g : g = [i \in 0 .. n |-> Step(g, i)]
           Bad == {n \in Nat : ~ Good(n)}
           end == Ends(f)
<1>1. /\ count \in Nat
      /\ \A i \in 1 .. count : First(f) + i - 1 \in DOMAIN f.parts /\ PartOf(f, i).size \in Nat
  <2>1. count \in Nat /\ \A i \in 1 .. count : Min(DOMAIN f.parts) + i - 1 \in DOMAIN f.parts
    BY NoGap DEF PartsOK, Gapless
  <2>2. QED
    BY <2>1 DEF PartsOK, PartOf, First
<1>2. Good(0)
  <2>1. [i \in 0 .. 0 |-> 0] = [i \in 0 .. 0 |-> Step([k \in 0 .. 0 |-> 0], i)]
    OBVIOUS
  <2>2. QED
    BY <2>1
<1>3. ASSUME NEW n \in Nat, Good(n) PROVE Good(n + 1)
  <2>1. PICK g : g = [i \in 0 .. n |-> Step(g, i)]
    BY <1>3
  <2> DEFINE h == [i \in 0 .. n + 1 |-> IF i = n + 1 THEN Step(g, i) ELSE g[i]]
  <2>2. \A i \in 0 .. n + 1 : h[i] = Step(h, i)
    <3> SUFFICES ASSUME NEW i \in 0 .. n + 1 PROVE h[i] = Step(h, i)
      OBVIOUS
    <3>1. i # 0 => i - 1 \in 0 .. n
      OBVIOUS
    <3>2. i # 0 => h[i - 1] = g[i - 1]
      BY <3>1
    <3>3. CASE i = n + 1
      BY <3>2, <3>3
    <3>4. CASE i # n + 1
      <4>1. i \in 0 .. n /\ h[i] = g[i]
        BY <3>4
      <4>2. g[i] = Step(g, i)
        BY <2>1, <4>1
      <4>3. QED
        BY <3>2, <4>1, <4>2
    <3>5. QED
      BY <3>3, <3>4
  <2>3. h = [i \in 0 .. n + 1 |-> Step(h, i)]
    BY <2>2
  <2>4. QED
    BY <2>3
<1>4. Bad = {}
  <2> SUFFICES ASSUME Bad # {} PROVE FALSE
    OBVIOUS
  <2> HIDE DEF Good
  <2>1. PICK n \in Bad : \A m \in Bad : n <= m
    BY Least
  <2>2. n # 0 /\ n - 1 \in Nat
    BY <1>2, <2>1
  <2>3. Good(n - 1)
    BY <2>1, <2>2
  <2>4. Good((n - 1) + 1)
    BY <1>3, <2>2, <2>3
  <2>5. QED
    BY <2>1, <2>4
<1>5. end = [i \in 0 .. count |-> Step(end, i)]
  <2>1. Good(count)
    <3> HIDE DEF Good
    <3>1. QED
      BY <1>1, <1>4
  <2>2. QED
    BY <2>1 DEF Ends
<1> DEFINE NotNat == {n \in 0 .. count : end[n] \notin Nat}
<1>6. NotNat = {}
  <2> SUFFICES ASSUME NotNat # {} PROVE FALSE
    OBVIOUS
  <2>1. PICK n \in NotNat : \A m \in NotNat : n <= m
    <3>1. NotNat \subseteq Nat
      BY <1>1
    <3> HIDE DEF NotNat
    <3>2. QED
      BY <3>1, Least
  <2>2. n \in 0 .. count /\ end[n] = Step(end, n)
    BY <1>5, <2>1
  <2>3. n # 0
    BY <2>1, <2>2
  <2>4. n - 1 \in 0 .. count /\ n \in 1 .. count
    BY <1>1, <2>2, <2>3
  <2>5. end[n - 1] \in Nat
    BY <1>1, <2>1, <2>4
  <2>6. QED
    BY <1>1, <2>1, <2>2, <2>3, <2>4, <2>5
<1>7. end \in [0 .. count -> Nat]
  BY <1>1, <1>5, <1>6
<1>8. end[0] = 0 /\ \A i \in 1 .. count : end[i] = end[i - 1] + PartOf(f, i).size
  BY <1>1, <1>5
<1> HIDE DEF end, count
<1>9. QED
  BY <1>1, <1>7, <1>8 DEF end, count

LEMMA MadeOfParts ==
  ASSUME NEW f, FileOf(f), \A k \in DOMAIN f.parts : Made(f.parts[k].file)
  PROVE  Made(f)
<1> DEFINE Files(k) == CHOOSE T : Closed(T) /\ f.parts[k].file \in T
           T == {f} \cup UNION {Files(k) : k \in DOMAIN f.parts}
<1>1. \A k \in DOMAIN f.parts : Closed(Files(k)) /\ f.parts[k].file \in Files(k)
  BY DEF Made
<1> HIDE DEF Files
<1>2. \A g \in T : g = f \/ \E k \in DOMAIN f.parts : g \in Files(k)
  OBVIOUS
<1>3. /\ f \in T
      /\ \A k \in DOMAIN f.parts : \A g \in Files(k) : g \in T
  OBVIOUS
<1> HIDE DEF T
<1>4. ASSUME NEW g \in T PROVE FileOf(g) /\ \A k \in DOMAIN g.parts : g.parts[k].file \in T
  <2>1. CASE g = f
    BY <1>1, <1>3, <2>1
  <2>2. ASSUME NEW k \in DOMAIN f.parts, g \in Files(k)
        PROVE  FileOf(g) /\ \A i \in DOMAIN g.parts : g.parts[i].file \in T
    BY <1>1, <1>3, <2>2 DEF Closed
  <2>3. QED
    BY <1>2, <2>1, <2>2
<1>5. Closed(T)
  BY <1>4 DEF Closed
<1>6. QED
  BY <1>3, <1>5 DEF Made

LEMMA MadeIs ==
  ASSUME NEW f, Made(f)
  PROVE  FileOf(f) /\ \A k \in DOMAIN f.parts : Made(f.parts[k].file)
BY DEF Made, Closed

\* What Finalize computes depends on the parts.
LEMMA SameParts ==
  ASSUME NEW f, NEW g, f.parts = g.parts
  PROVE  Ends(f) = Ends(g) /\ \A i : PartOf(f, i) = PartOf(g, i)
<1>1. First(f) = First(g) /\ \A i : PartOf(f, i) = PartOf(g, i)
  BY DEF First, PartOf
<1>2. Ends(f) = Ends(g)
  BY <1>1 DEF Ends
<1>3. QED
  BY <1>1, <1>2

LEMMA FinalizeSame ==
  ASSUME NEW f, NEW g, f.parts = g.parts, FileFields(f), FileFields(g)
  PROVE  Finalize(f).size = Finalize(g).size /\ Finalize(f).map = Finalize(g).map
<1> DEFINE count == Cardinality(DOMAIN f.parts)
           end == Ends(f)
           kept == {i \in 1 .. count : \A j \in i + 1 .. count : end[j] # end[i]}
           Kept(n) == CHOOSE i \in kept : Cardinality({j \in kept : j <= i}) = n
           map == [n \in 1 .. Cardinality(kept) |-> [end |-> end[Kept(n)], part |-> PartOf(f, Kept(n))]]
           map2 == [n \in 1 .. Cardinality(kept) |-> [end |-> end[Kept(n)], part |-> PartOf(g, Kept(n))]]
<1>1. Ends(f) = Ends(g) /\ \A i : PartOf(f, i) = PartOf(g, i)
  BY SameParts
<1>2. Finalize(f) = [f EXCEPT !.size = end[count], !.map = map]
  BY DEF Finalize
<1>3. Finalize(g) = [g EXCEPT !.size = end[count], !.map = map2]
  BY <1>1 DEF Finalize
<1> HIDE DEF end, count, kept, Kept
<1>4. map = map2
  BY <1>1
<1> HIDE DEF map, map2
<1>5. Finalize(f).size = end[count] /\ Finalize(f).map = map
  BY <1>2 DEF FileFields
<1>6. Finalize(g).size = end[count] /\ Finalize(g).map = map
  BY <1>3, <1>4 DEF FileFields
<1>7. QED
  BY <1>5, <1>6

\* Finalize gives a file a size and changes nothing else but its map.
LEMMA FinalizeKeeps ==
  ASSUME NEW f, FileOK(f), PartsOK(f), Gapless(f), Ended(f), \A k \in DOMAIN f.parts : Made(f.parts[k].file)
  PROVE  /\ FileOK(Finalize(f)) /\ Finalize(f).parts = f.parts
         /\ Finalize(f).name = f.name /\ Finalize(f).nzb = f.nzb
<1> DEFINE count == Cardinality(DOMAIN f.parts)
           end == Ends(f)
           kept == {i \in 1 .. count : \A j \in i + 1 .. count : end[j] # end[i]}
           Kept(n) == CHOOSE i \in kept : Cardinality({j \in kept : j <= i}) = n
           entries == [n \in 1 .. Cardinality(kept) |-> [end |-> end[Kept(n)], part |-> PartOf(f, Kept(n))]]
           g == Finalize(f)
<1>1. end[count] \in Nat
  <2>1. count \in Nat /\ end \in [0 .. count -> Nat]
    BY EndsOfParts
  <2> HIDE DEF end, count
  <2>2. QED
    BY <2>1
<1>2. g = [f EXCEPT !.size = end[count], !.map = entries]
  BY DEF Finalize
<1> HIDE DEF end, entries, count, g
<1>3. f = [name |-> f.name, nzb |-> f.nzb, method |-> f.method, size |-> f.size,
           parts |-> f.parts, map |-> f.map]
  BY DEF FileOK, FileFields
<1>4. g = [name |-> f.name, nzb |-> f.nzb, method |-> f.method, size |-> end[count],
           parts |-> f.parts, map |-> entries]
  BY <1>2, <1>3
<1>5. /\ FileFields(g) /\ g.nzb = f.nzb /\ g.name = f.name /\ g.size \in Nat /\ g.parts = f.parts
      /\ g.nzb \in Nat /\ g.name.num \in Nat
  BY <1>1, <1>4 DEF FileOK, FileFields
<1>6. Whole(g)
  <2>1. FileFields(f)
    BY DEF FileOK
  <2>2. Finalize(g).size = Finalize(f).size /\ Finalize(g).map = Finalize(f).map
    BY <1>5, <2>1, FinalizeSame
  <2>3. PartsOK(g) /\ Gapless(g)
    BY <1>5 DEF PartsOK, Gapless
  <2>4. QED
    BY <2>2, <2>3 DEF Whole, g
<1>7. Made(g)
  <2>1. FileOf(g)
    BY <1>5, <1>6 DEF FileOf
  <2>2. \A k \in DOMAIN g.parts : Made(g.parts[k].file)
    BY <1>5
  <2>3. QED
    BY <2>1, <2>2, MadeOfParts
<1>8. AllThere(g)
  <2>1. DOMAIN f.parts = Min(DOMAIN f.parts) .. Max(DOMAIN f.parts)
    BY NoGap DEF PartsOK, Gapless
  <2>2. QED
    BY <1>5, <2>1 DEF AllThere, Ended
<1>9. QED
  BY <1>5, <1>7, <1>8 DEF FileOK, g

\* A part more leaves a file one, without a size unless SetFilePart says that it is there.
LEMMA SetFilePartOK ==
  ASSUME NEW f, FileOK(f), PartsOK(f), f.size = 0,
         NEW k \in Nat, NEW part, part.size \in Nat, part.offset \in Nat, Made(part.file)
  PROVE  LET g == SetFilePart(f, k, part) IN
         /\ FileOK(g) /\ PartsOK(g) /\ g.name = f.name /\ g.nzb = f.nzb
         /\ ~ SetFilePartReturns(f, k, part) => g.size = 0
         /\ \A i \in DOMAIN g.parts :
              (i \in DOMAIN f.parts /\ g.parts[i] = f.parts[i]) \/ (i = k /\ g.parts[i] = part)
<1> DEFINE parts == [i \in DOMAIN f.parts \cup {k} |-> IF i \in DOMAIN f.parts THEN f.parts[i] ELSE part]
           h == [f EXCEPT !.parts = parts]
           g == SetFilePart(f, k, part)
<1>1. /\ DOMAIN parts = DOMAIN f.parts \cup {k}
      /\ \A i \in DOMAIN parts : parts[i] = IF i \in DOMAIN f.parts THEN f.parts[i] ELSE part
  OBVIOUS
<1>2. /\ IsFiniteSet(DOMAIN parts) /\ DOMAIN parts \subseteq Nat /\ DOMAIN parts # {}
      /\ \A i \in DOMAIN parts : parts[i].size \in Nat /\ parts[i].offset \in Nat
  <2>1. IsFiniteSet(DOMAIN f.parts \cup {k})
    BY FS_AddElement DEF PartsOK
  <2> HIDE DEF parts
  <2>2. QED
    BY <1>1, <2>1 DEF PartsOK
<1>3. g = IF k \notin DOMAIN f.parts /\ IsComplete(h) THEN Finalize(h) ELSE h
  BY DEF SetFilePart
<1> HIDE DEF parts, g
<1>4. \A i \in DOMAIN parts : Made(parts[i].file)
  BY <1>1, MadeIs DEF FileOK
<1>5. /\ FileOK(h) /\ h.parts = parts /\ h.name = f.name /\ h.nzb = f.nzb /\ h.size = 0
  <2>1. f = [name |-> f.name, nzb |-> f.nzb, method |-> f.method, size |-> f.size,
             parts |-> f.parts, map |-> f.map]
    BY DEF FileOK, FileFields
  <2>2. h = [name |-> f.name, nzb |-> f.nzb, method |-> f.method, size |-> f.size,
             parts |-> parts, map |-> f.map]
    BY <2>1
  <2> HIDE DEF h
  <2>3. FileFields(h) /\ h.parts = parts /\ h.name = f.name /\ h.nzb = f.nzb /\ h.size = 0
    BY <2>2 DEF FileFields
  <2>4. FileOf(h)
    BY <2>3 DEF FileOK, FileOf
  <2>5. Made(h)
    BY <1>4, <2>3, <2>4, MadeOfParts
  <2>6. QED
    BY <2>3, <2>5 DEF FileOK, AllThere
<1>6. PartsOK(h)
  BY <1>2, <1>5 DEF PartsOK
<1> HIDE DEF h
<1>7. SetFilePartReturns(f, k, part) = (k \in DOMAIN f.parts \/ (IsComplete(g) /\ g.size # 0))
  BY DEF SetFilePartReturns, g
<1>8. \A i \in DOMAIN h.parts :
         (i \in DOMAIN f.parts /\ h.parts[i] = f.parts[i]) \/ (i = k /\ h.parts[i] = part)
  BY <1>1, <1>5
<1>9. CASE k \notin DOMAIN f.parts /\ IsComplete(h)
  <2>1. Gapless(h)
    BY <1>2, <1>5, <1>9 DEF IsComplete, First, Gapless
  <2>2. \A i \in DOMAIN h.parts : Made(h.parts[i].file)
    BY <1>4, <1>5
  <2>3. FileOK(Finalize(h)) /\ Finalize(h).parts = h.parts /\ Finalize(h).name = h.name /\ Finalize(h).nzb = h.nzb
    <3>1. Ended(h)
      BY <1>9 DEF IsComplete, First, Ended
    <3>2. QED
      BY <1>5, <1>6, <2>1, <2>2, <3>1, FinalizeKeeps
  <2>4. g = Finalize(h)
    BY <1>3, <1>9
  <2>5. FileOK(g) /\ PartsOK(g) /\ g.name = f.name /\ g.nzb = f.nzb
    BY <1>5, <1>6, <2>3, <2>4 DEF PartsOK
  <2>6. IsComplete(g)
    BY <1>9, <2>3, <2>4 DEF IsComplete, First
  <2>7. ~ SetFilePartReturns(f, k, part) => g.size = 0
    BY <1>7, <2>6
  <2>8. QED
    BY <1>8, <2>3, <2>4, <2>5, <2>7 DEF g
<1>10. CASE ~ (k \notin DOMAIN f.parts /\ IsComplete(h))
  <2>1. g = h
    BY <1>3, <1>10
  <2>2. QED
    BY <1>5, <1>6, <1>8, <2>1 DEF g
<1>11. QED
  BY <1>9, <1>10

LEMMA NewFilesOK ==
  /\ \A name, method : name.num \in Nat =>
       LET f == NewMultipartFile(name, method) IN
       FileOK(f) /\ PartsOK(f) /\ f.nzb = 0 /\ f.size = 0 /\ \A archive : InVolumes(f, archive)
  /\ \A name : \A i \in Nat \ {0} : \A size \in Nat :
       name.num \in Nat =>
         LET f == NZBFileOf(i, name, size) IN
         FileOK(f) /\ f.nzb = i /\ \A archive : InVolumes(f, archive)
<1>1. DOMAIN <<>> = {} /\ IsFiniteSet({})
  BY FS_EmptySet
<1>2. ASSUME NEW name, name.num \in Nat, NEW method
      PROVE  LET f == NewMultipartFile(name, method) IN
             FileOK(f) /\ PartsOK(f) /\ f.nzb = 0 /\ f.size = 0 /\ \A archive : InVolumes(f, archive)
  <2> DEFINE f == NewMultipartFile(name, method)
  <2>1. FileFields(f) /\ f.parts = <<>> /\ f.nzb = 0 /\ f.size = 0 /\ f.name = name
    BY DEF NewMultipartFile, FileFields
  <2> HIDE DEF f
  <2>2. PartsOK(f)
    BY <1>1, <2>1 DEF PartsOK
  <2>3. Made(f)
    BY <1>1, <2>1, MadeOfParts DEF FileOf
  <2>4. FileOK(f)
    BY <1>2, <2>1, <2>3 DEF FileOK, AllThere
  <2>5. \A archive : InVolumes(f, archive)
    BY <1>1, <2>1 DEF InVolumes
  <2>6. QED
    BY <2>1, <2>2, <2>4, <2>5 DEF f
<1>3. ASSUME NEW name, name.num \in Nat, NEW size \in Nat, NEW i \in Nat \ {0}
      PROVE  LET f == NZBFileOf(i, name, size) IN
             FileOK(f) /\ f.nzb = i /\ \A archive : InVolumes(f, archive)
  <2> DEFINE f == NZBFileOf(i, name, size)
  <2>1. FileFields(f) /\ f.parts = <<>> /\ f.nzb = i /\ f.size = size /\ f.name = name
    BY DEF NZBFileOf, FileFields
  <2> HIDE DEF f
  <2>2. Made(f)
    BY <1>1, <2>1, MadeOfParts DEF FileOf
  <2>3. FileOK(f)
    BY <1>3, <2>1, <2>2 DEF FileOK, AllThere
  <2>4. \A archive : InVolumes(f, archive)
    BY <1>1, <2>1 DEF InVolumes
  <2>5. QED
    BY <2>1, <2>3, <2>4 DEF f
<1>4. QED
  BY <1>2, <1>3

-----------------------------------------------------------------------------
(* Paths.                                                                  *)

IsPath(s) == s \in Seq(Range(s))

LEMMA SequencesArePaths ==
  ASSUME NEW S, NEW t \in Seq(S)
  PROVE  IsPath(t)
<1>1. DOMAIN t = 1 .. Len(t) /\ Len(t) \in Nat /\ \A i \in DOMAIN t : t[i] \in Range(t)
  BY DEF Range
<1>2. t = [i \in 1 .. Len(t) |-> t[i]]
  OBVIOUS
<1>3. t \in Seq(Range(t))
  BY <1>1, <1>2
<1>4. QED
  BY <1>3 DEF IsPath

LEMMA PathAppend ==
  ASSUME NEW s, IsPath(s), NEW x
  PROVE  LET t == Append(s, x) IN
         IsPath(t) /\ t # <<>> /\ t[Len(t)] = x /\ (s # <<>> => t[Len(t) - 1] = s[Len(s)])
<1> DEFINE S == Range(s) \cup {x}
           t == Append(s, x)
<1>1. s \in Seq(S)
  BY DEF IsPath
<1>2. t \in Seq(S) /\ Len(t) = Len(s) + 1 /\ Len(s) \in Nat
      /\ \A i \in 1 .. Len(s) : t[i] = s[i]
  BY <1>1
<1>3. IsPath(t)
  BY <1>2, SequencesArePaths
<1>4. t # <<>> /\ t[Len(t)] = x
  BY <1>1
<1>5. s # <<>> => t[Len(t) - 1] = s[Len(s)]
  <2>1. s # <<>> => Len(s) \in 1 .. Len(s)
    BY <1>1
  <2>2. QED
    BY <1>2, <2>1
<1>6. QED
  BY <1>3, <1>4, <1>5

LEMMA MountPath ==
  /\ IsPath(<<MountDir>>) /\ <<MountDir>> # <<>>
  /\ \A x : IsPath(<<MountDir, x>>) /\ <<MountDir, x>> # <<>>
<1>1. <<MountDir>> \in Seq({MountDir})
  OBVIOUS
<1>2. \A x : <<MountDir, x>> \in Seq({MountDir, x})
  OBVIOUS
<1>3. QED
  BY <1>1, <1>2, SequencesArePaths

LEMMA NumbersOfNames ==
  /\ \A base : NoExt(base).num = 0
  /\ \A q \in NZBs : \A i \in DOMAIN q : q[i].name.num \in Nat /\ q[i].size \in Nat
  /\ \A f, offset : NameAt(f, offset).num \in Nat
  /\ \A f, offset : HeaderAt(f, offset).size \in Nat
<1>1. \A base : NoExt(base).num = 0
  <2>1. \A base, ext : [base |-> base, ext |-> ext, num |-> 0].num = 0
    OBVIOUS
  <2>2. QED
    BY <2>1, Zenon DEF NoExt
<1>2. Garbage.size = 0
  <2>1. \A type, name : Block(type, name, 0, TRUE, TRUE, "stored").size = 0
    BY DEF Block
  <2>2. QED
    BY <2>1, Zenon DEF Garbage, Plain
<1>3. ASSUME NEW q \in NZBs, NEW i \in DOMAIN q PROVE q[i].name.num \in Nat /\ q[i].size \in Nat
  <2>1. q \in Seq([name : Name, size : Nat])
    BY NZBsAssumption
  <2>2. q[i] \in [name : Name, size : Nat]
    <3> DEFINE R == [name : Name, size : Nat]
    <3> HIDE DEF R
    <3>1. q \in Seq(R)
      BY <2>1 DEF R
    <3>2. q[i] \in R
      BY <3>1
    <3>3. QED
      BY <3>2 DEF R
  <2>3. QED
    BY <2>2 DEF Name
<1>4. ASSUME NEW f, NEW i \in DOMAIN BlocksOf(f)
      PROVE  BlocksOf(f)[i].name.num \in Nat /\ BlocksOf(f)[i].size \in Nat
  <2>1. CASE f.name \in DOMAIN Layout
    <3> DEFINE B == [type : STRING, name : Name, size : Nat, bof : BOOLEAN, eof : BOOLEAN,
                     method : STRING, high : BOOLEAN]
               blocks == BlocksOf(f)
    <3>1. BlocksOf(f) = Layout[f.name] /\ Layout[f.name] \in Seq(B)
      BY <2>1, LayoutAssumption DEF BlocksOf
    <3> HIDE DEF B, blocks
    <3>2. blocks \in Seq(B) /\ i \in DOMAIN blocks
      BY <3>1 DEF blocks
    <3>3. blocks[i] \in B
      BY <3>2
    <3>4. QED
      BY <3>3 DEF B, blocks, Name
  <2>2. CASE f.name \notin DOMAIN Layout
    BY <2>2 DEF BlocksOf
  <2>3. QED
    BY <2>1, <2>2
<1>5. ASSUME NEW f, NEW offset PROVE NameAt(f, offset).num \in Nat
  BY <1>1, <1>4 DEF NameAt
<1>6. ASSUME NEW f, NEW offset PROVE HeaderAt(f, offset).size \in Nat
  BY <1>2, <1>4 DEF HeaderAt
<1>7. QED
  BY <1>1, <1>3, <1>5, <1>6

-----------------------------------------------------------------------------
(* Chains.                                                                 *)

Stages == {"mark", "main", "head", "high", "name", "local", "zipname", "next"}
ReadStates == {"asked", "arrived", "failed", "junk", "read", "bad", "erased"}

ChainFields(c) ==
  c = [id |-> c.id, file |-> c.file, dir |-> c.dir, stage |-> c.stage, at |-> c.at, size |-> c.size,
       mark |-> c.mark, main |-> c.main, head |-> c.head, name |-> c.name, begin |-> c.begin,
       reads |-> c.reads]

ChainBase(c) ==
  /\ ChainFields(c)
  /\ FileOK(c.file) /\ IsPath(c.dir) /\ c.dir # <<>> /\ InVolumes(c.file, c.dir[Len(c.dir)])
  /\ c.id \in Nat /\ c.at \in Nat /\ c.begin \in Nat /\ c.head.size \in Nat /\ c.name.num \in Nat

ReadOK(r) ==
  /\ r = [nzb |-> r.nzb, offset |-> r.offset, size |-> r.size, state |-> r.state]
  /\ r.state \in ReadStates

ReadsOK(c) ==
  /\ c.reads = [j \in DOMAIN c.reads |-> c.reads[j]]
  /\ \A j \in DOMAIN c.reads : ReadOK(c.reads[j])

\* No volume is read like a ZIP archive.
OnlyZIP(stage, f) == stage \in {"local", "zipname", "next"} => ~ IsRARName(f.name)

ChainOK(c) == ChainBase(c) /\ c.stage \in Stages /\ OnlyZIP(c.stage, c.file) /\ ReadsOK(c)

\* A chain that has just asked for what it reads.
JustAsked(c) == \A j \in DOMAIN c.reads : c.reads[j].state \in {"asked", "junk"}

LEMMA NewChainOK ==
  ASSUME NEW f, FileOK(f), NEW dir, IsPath(dir), dir # <<>>, InVolumes(f, dir[Len(dir)])
  PROVE  ChainBase(NewChain(f, dir)) /\ NewChain(f, dir).id = f.nzb /\ NewChain(f, dir).file = f
<1> DEFINE C(stage, mark, head, name) ==
             [id |-> f.nzb, file |-> f, dir |-> dir, stage |-> stage, at |-> 0, size |-> 0, mark |-> mark,
              main |-> FALSE, head |-> head, name |-> name, begin |-> 0, reads |-> <<>>]
<1>1. \A stage, mark, head, name :
        head.size = 0 /\ name.num = 0 =>
          LET c == C(stage, mark, head, name) IN ChainBase(c) /\ c.id = f.nzb /\ c.file = f
  BY DEF ChainBase, ChainFields, FileOK
<1>2. Garbage.size = 0
  <2>1. \A type, name : Block(type, name, 0, TRUE, TRUE, "stored").size = 0
    BY DEF Block
  <2>2. QED
    BY <2>1, Zenon DEF Garbage, Plain
<1>3. NoExt("").num = 0
  BY NumbersOfNames, Zenon
<1>4. \E stage : NewChain(f, dir) = C(stage, "garbage", Garbage, NoExt(""))
  BY Zenon DEF NewChain
<1> HIDE DEF C
<1>5. QED
  BY <1>1, <1>2, <1>3, <1>4, Zenon

LEMMA ReadingOK ==
  ASSUME NEW c, ChainBase(c), NEW stage \in Stages, OnlyZIP(stage, c.file), NEW at \in Nat, NEW size
  PROVE  LET d == Reading(c, stage, at, size) IN ChainOK(d) /\ JustAsked(d) /\ d.id = c.id
<1> DEFINE r == NZBReads(c.file, Len(c.dir), at, size)
           reads == [j \in DOMAIN r |->
                      [nzb |-> r[j].file.nzb, offset |-> r[j].offset, size |-> r[j].size,
                       state |-> IF r[j].offset >= r[j].file.size THEN "junk" ELSE "asked"]]
           d == Reading(c, stage, at, size)
<1>1. d = [c EXCEPT !.stage = stage, !.at = at, !.size = size, !.reads = reads]
  BY DEF Reading
<1>2. /\ reads = [j \in DOMAIN reads |-> reads[j]]
      /\ \A j \in DOMAIN reads : ReadOK(reads[j]) /\ reads[j].state \in {"asked", "junk"}
  <2> HIDE DEF r
  <2>1. QED
    BY DEF ReadOK, ReadStates
<1> HIDE DEF reads, r, d
<1>3. c = [id |-> c.id, file |-> c.file, dir |-> c.dir, stage |-> c.stage, at |-> c.at, size |-> c.size,
           mark |-> c.mark, main |-> c.main, head |-> c.head, name |-> c.name,
           begin |-> c.begin, reads |-> c.reads]
  BY DEF ChainBase, ChainFields
<1>4. d = [id |-> c.id, file |-> c.file, dir |-> c.dir, stage |-> stage, at |-> at, size |-> size,
           mark |-> c.mark, main |-> c.main, head |-> c.head, name |-> c.name,
           begin |-> c.begin, reads |-> reads]
  BY <1>1, <1>3
<1>5. ChainOK(d) /\ JustAsked(d) /\ d.id = c.id
  BY <1>2, <1>4 DEF JustAsked, ChainOK, ChainBase, ChainFields, ReadsOK
<1>6. QED
  BY <1>5 DEF d

SameChain(c, d) == ChainBase(d) /\ d.id = c.id /\ d.file = c.file

\* What is in a header is remembered.
LEMMA ChainChanged ==
  ASSUME NEW c, ChainBase(c)
  PROVE  /\ \A mark : SameChain(c, [c EXCEPT !.mark = mark])
         /\ \A main : SameChain(c, [c EXCEPT !.main = main])
         /\ \A head : head.size \in Nat => SameChain(c, [c EXCEPT !.head = head])
         /\ \A name : name.num \in Nat => SameChain(c, [c EXCEPT !.name = name])
         /\ \A begin \in Nat : SameChain(c, [c EXCEPT !.begin = begin])
<1>1. c = [id |-> c.id, file |-> c.file, dir |-> c.dir, stage |-> c.stage, at |-> c.at, size |-> c.size,
           mark |-> c.mark, main |-> c.main, head |-> c.head, name |-> c.name,
           begin |-> c.begin, reads |-> c.reads]
  BY DEF ChainBase, ChainFields
<1>2. ASSUME NEW mark PROVE SameChain(c, [c EXCEPT !.mark = mark])
  <2>1. [c EXCEPT !.mark = mark] =
          [id |-> c.id, file |-> c.file, dir |-> c.dir, stage |-> c.stage, at |-> c.at, size |-> c.size,
           mark |-> mark, main |-> c.main, head |-> c.head, name |-> c.name,
           begin |-> c.begin, reads |-> c.reads]
    BY <1>1
  <2>2. QED
    BY <2>1 DEF SameChain, ChainBase, ChainFields
<1>3. ASSUME NEW main PROVE SameChain(c, [c EXCEPT !.main = main])
  <2>1. [c EXCEPT !.main = main] =
          [id |-> c.id, file |-> c.file, dir |-> c.dir, stage |-> c.stage, at |-> c.at, size |-> c.size,
           mark |-> c.mark, main |-> main, head |-> c.head, name |-> c.name,
           begin |-> c.begin, reads |-> c.reads]
    BY <1>1
  <2>2. QED
    BY <2>1 DEF SameChain, ChainBase, ChainFields
<1>4. ASSUME NEW head, head.size \in Nat PROVE SameChain(c, [c EXCEPT !.head = head])
  <2>1. [c EXCEPT !.head = head] =
          [id |-> c.id, file |-> c.file, dir |-> c.dir, stage |-> c.stage, at |-> c.at, size |-> c.size,
           mark |-> c.mark, main |-> c.main, head |-> head, name |-> c.name,
           begin |-> c.begin, reads |-> c.reads]
    BY <1>1
  <2>2. QED
    BY <1>4, <2>1 DEF SameChain, ChainBase, ChainFields
<1>5. ASSUME NEW name, name.num \in Nat PROVE SameChain(c, [c EXCEPT !.name = name])
  <2>1. [c EXCEPT !.name = name] =
          [id |-> c.id, file |-> c.file, dir |-> c.dir, stage |-> c.stage, at |-> c.at, size |-> c.size,
           mark |-> c.mark, main |-> c.main, head |-> c.head, name |-> name,
           begin |-> c.begin, reads |-> c.reads]
    BY <1>1
  <2>2. QED
    BY <1>5, <2>1 DEF SameChain, ChainBase, ChainFields
<1>6. ASSUME NEW begin \in Nat PROVE SameChain(c, [c EXCEPT !.begin = begin])
  <2>1. [c EXCEPT !.begin = begin] =
          [id |-> c.id, file |-> c.file, dir |-> c.dir, stage |-> c.stage, at |-> c.at, size |-> c.size,
           mark |-> c.mark, main |-> c.main, head |-> c.head, name |-> c.name,
           begin |-> begin, reads |-> c.reads]
    BY <1>1
  <2>2. QED
    BY <2>1 DEF SameChain, ChainBase, ChainFields
<1>7. QED
  BY <1>2, <1>3, <1>4, <1>5, <1>6

-----------------------------------------------------------------------------
(* What a handler passes on.                                               *)

EntryOK(e) ==
  IsPath(e.path) /\ e.path # <<>> /\ FileOK(e.file) /\ InVolumes(e.file, e.path[Len(e.path) - 1])

PartOK(p) ==
  /\ p = [dir |-> p.dir, base |-> p.base, part |-> p.part, file |-> p.file]
  /\ IsPath(p.dir) /\ p.part \in Nat /\ FileOK(p.file) /\ IsSplitName(p.file.name)

RarOK(r) ==
  /\ r = [dir |-> r.dir, file |-> r.file]
  /\ IsPath(r.dir) /\ r.dir # <<>> /\ InVolumes(r.file, r.dir[Len(r.dir)])
  /\ FileOK(r.file) /\ PartsOK(r.file) /\ r.file.nzb = 0 /\ r.file.size = 0

ChainsOK(S) == IsFiniteSet(S) /\ \A d \in S : ChainOK(d)

\* None or one, to start with this id.
StartOK(id, S) ==
  /\ S = {} \/ \E d : S = {d}
  /\ \A d \in S : ChainOK(d) /\ JustAsked(d) /\ d.id = id

EntriesOK(entries) == (\A e \in entries : EntryOK(e)) /\ \A d, e \in entries : d = e
SplitPartsOK(parts) == IsFiniteSet(parts) /\ \A p \in parts : PartOK(p)
RarFilesOK(rars) == \A r \in rars : RarOK(r)

LEMMA AddFileOK ==
  ASSUME NEW f, FileOK(f), NEW dir, IsPath(dir), dir # <<>>, InVolumes(f, dir[Len(dir)])
  PROVE  StartOK(f.nzb, AddFile(f, dir))
<1> DEFINE c == GetMarkHead(NewChain(f, dir), 0)
           d == GetZIPLocalFileHeader(NewChain(f, dir), 0)
<1>1. /\ ChainOK(c) /\ JustAsked(c) /\ c.id = f.nzb
      /\ IsZIPName(f.name) => ChainOK(d) /\ JustAsked(d) /\ d.id = f.nzb
  BY NewChainOK, ReadingOK DEF GetMarkHead, GetZIPLocalFileHeader, Stages, OnlyZIP, IsZIPName, IsRARName
<1>2. AddFile(f, dir) \in {{c}, {}} \/ (IsZIPName(f.name) /\ AddFile(f, dir) = {d})
  BY Zenon DEF AddFile
<1> HIDE DEF c, d
<1>3. QED
  BY <1>1, <1>2 DEF StartOK

LEMMA StartInsertFileOK ==
  ASSUME NEW f, FileOK(f), NEW dir, IsPath(dir), dir # <<>>, InVolumes(f, dir[Len(dir)])
  PROVE  /\ StartOK(f.nzb, ChainsOf(f, dir)) /\ EntriesOK(EntriesOf(f, dir))
         /\ SplitPartsOK(PartsOf(f, dir))
<1>1. IsFiniteSet({}) /\ \A x : IsFiniteSet({x})
  BY FS_EmptySet, FS_Singleton
<1>2. StartOK(f.nzb, {})
  BY DEF StartOK
<1>3. StartOK(f.nzb, ChainsOf(f, dir))
  BY <1>2, AddFileOK DEF ChainsOf
<1>4. EntriesOK(EntriesOf(f, dir))
  <2>1. \A x : LET t == Append(dir, x) IN IsPath(t) /\ t # <<>> /\ t[Len(t) - 1] = dir[Len(dir)]
    BY PathAppend
  <2>2. LET t == PathOf(f, dir) IN IsPath(t) /\ t # <<>> /\ t[Len(t) - 1] = dir[Len(dir)]
    BY <2>1 DEF PathOf
  <2>3. QED
    BY <2>2 DEF EntriesOf, EntriesOK, EntryOK
<1>5. SplitPartsOK(PartsOf(f, dir))
  <2> DEFINE p == [dir |-> dir, base |-> f.name.base, part |-> f.name.num, file |-> f]
  <2>1. f.name.num \in Nat
    BY DEF FileOK
  <2>2. IsSplitName(f.name) => PartOK(p)
    BY <2>1 DEF PartOK
  <2>3. (IsSplitName(f.name) /\ PartsOf(f, dir) = {p}) \/ PartsOf(f, dir) = {}
    BY DEF PartsOf
  <2> HIDE DEF p
  <2>4. QED
    BY <1>1, <2>2, <2>3 DEF SplitPartsOK
<1>6. QED
  BY <1>3, <1>4, <1>5

-----------------------------------------------------------------------------
(* Each callback is a Handler with what is right to pass on.               *)

\* The handler of the chain with this id goes on with it, starts new ones, or both.
HandlerRuns(id, scope) ==
  \E d, on, new, entries, parts, rars :
    /\ d.id = id /\ StartOK(id, on) /\ StartOK(0, new)
    /\ EntriesOK(entries) /\ SplitPartsOK(parts) /\ RarFilesOK(rars)
    /\ Handler(d, scope, on \cup new, entries, parts, rars)

LEMMA NothingOK == ChainsOK({}) /\ (\A id : StartOK(id, {})) /\ EntriesOK({}) /\ SplitPartsOK({})
BY FS_EmptySet DEF ChainsOK, StartOK, EntriesOK, SplitPartsOK

LEMMA OneChainOK ==
  ASSUME NEW id, NEW d, ChainOK(d), JustAsked(d), d.id = id
  PROVE  StartOK(id, {d})
BY DEF StartOK

LEMMA HandledRuns ==
  ASSUME RarFilesOK(rarFiles), NEW d, NEW scope, NEW more, StartOK(d.id, more), Handled(d, scope, more)
  PROVE  HandlerRuns(d.id, scope)
<1>1. Handler(d, scope, more \cup {}, {}, {}, rarFiles)
  <2>1. more \cup {} = more
    OBVIOUS
  <2>2. QED
    BY <2>1 DEF Handled
<1>2. QED
  BY <1>1, NothingOK DEF HandlerRuns

LEMMA HeadSizes == \A b : HeadSize(b) \in Nat
BY DEF HeadSize

LEMMA MarkHeadRuns ==
  ASSUME RarFilesOK(rarFiles), NEW c, ChainBase(c), NEW scope, MarkHeadRead(c, scope)
  PROVE  HandlerRuns(c.id, scope)
<1>1. c.at \in Nat /\ c.at + 1 \in Nat
  BY DEF ChainBase
<1>2. \A d \in {GetMarkHead(c, c.at + 1), GetMainHeader(c, c.at), GetFileHeader(c, c.at)} :
        ChainOK(d) /\ JustAsked(d) /\ d.id = c.id
  BY <1>1, ReadingOK DEF GetMarkHead, GetMainHeader, GetFileHeader, Stages, OnlyZIP
<1>3. CASE \/ Handled(c, scope, {GetMarkHead(c, c.at + 1)})
           \/ Handled(c, scope, {GetMainHeader(c, c.at)})
           \/ Handled(c, scope, {GetFileHeader(c, c.at)})
           \/ Handled(c, scope, {})
  BY <1>2, <1>3, OneChainOK, NothingOK, HandledRuns
<1>4. CASE Handler(c, scope, {}, {[path |-> Append(c.dir, c.file.name), file |-> c.file]}, {}, rarFiles)
  <2> DEFINE e == [path |-> Append(c.dir, c.file.name), file |-> c.file]
  <2>1. LET t == Append(c.dir, c.file.name) IN IsPath(t) /\ t # <<>> /\ t[Len(t) - 1] = c.dir[Len(c.dir)]
    BY PathAppend DEF ChainBase
  <2>2. EntriesOK({e})
    BY <2>1 DEF EntriesOK, EntryOK, ChainBase
  <2>3. Handler(c, scope, {} \cup {}, {e}, {}, rarFiles)
    BY <1>4
  <2> HIDE DEF e
  <2>4. QED
    BY <2>2, <2>3, NothingOK DEF HandlerRuns
<1>5. QED
  BY <1>3, <1>4 DEF MarkHeadRead

LEMMA MainHeaderRuns ==
  ASSUME RarFilesOK(rarFiles), NEW c, ChainBase(c), NEW scope, MainHeaderRead(c, scope)
  PROVE  HandlerRuns(c.id, scope)
<1>1. c.at \in Nat /\ c.at + 1 \in Nat
  BY DEF ChainBase
<1>2. LET d == GetMarkHead(c, c.at + 1) IN ChainOK(d) /\ JustAsked(d) /\ d.id = c.id
  BY <1>1, ReadingOK DEF GetMarkHead, Stages, OnlyZIP
<1> DEFINE more == IF c.main THEN {GetMarkHead(c, c.at + 1)} ELSE {}
<1>3. StartOK(c.id, more)
  BY <1>2, OneChainOK, NothingOK
<1>4. Handled(c, scope, more)
  BY DEF MainHeaderRead
<1> HIDE DEF more
<1>5. QED
  BY <1>3, <1>4, HandledRuns

LEMMA FileHeaderRuns ==
  ASSUME RarFilesOK(rarFiles), NEW c, ChainBase(c), NEW scope, FileHeaderRead(c, scope)
  PROVE  HandlerRuns(c.id, scope)
<1> DEFINE d == [c EXCEPT !.begin = c.at + HeadSize(c.head)]
           more == IF c.head.type # c.mark THEN {}
                   ELSE IF c.head.high THEN {GetHighSize(d, c.at + 2)} ELSE {GetFilename(d, c.at + 2)}
<1>1. c.at \in Nat /\ c.at + 2 \in Nat /\ c.at + HeadSize(c.head) \in Nat
  <2>1. c.at \in Nat
    BY DEF ChainBase
  <2>2. QED
    BY <2>1, HeadSizes
<1>2. SameChain(c, d)
  BY <1>1, ChainChanged
<1>3. Handled(c, scope, more)
  BY DEF FileHeaderRead
<1> HIDE DEF d
<1>4. \A e \in {GetHighSize(d, c.at + 2), GetFilename(d, c.at + 2)} :
        ChainOK(e) /\ JustAsked(e) /\ e.id = c.id
  BY <1>1, <1>2, ReadingOK DEF GetHighSize, GetFilename, Stages, OnlyZIP, SameChain
<1>5. StartOK(c.id, more)
  BY <1>4, OneChainOK, NothingOK
<1> HIDE DEF more
<1>6. QED
  BY <1>3, <1>5, HandledRuns

LEMMA AfterDataOK ==
  ASSUME NEW c, ChainBase(c)
  PROVE  StartOK(c.id, AfterData(c))
<1>1. c.begin + c.head.size \in Nat
  BY DEF ChainBase
<1>2. LET d == GetMarkHead(c, c.begin + c.head.size) IN ChainOK(d) /\ JustAsked(d) /\ d.id = c.id
  BY <1>1, ReadingOK DEF GetMarkHead, Stages, OnlyZIP
<1>3. QED
  BY <1>2, OneChainOK, NothingOK DEF AfterData

\* The volume of an archive and the file in it, as GetFilename finds them.
LEMMA FilenameRuns ==
  ASSUME RarFilesOK(rarFiles), NEW c, ChainBase(c), NEW scope, FilenameRead(c, scope)
  PROVE  HandlerRuns(c.id, scope)
<1> DEFINE dir == PathOfArchive(c)
           same == {r \in rarFiles : r.dir = dir /\ r.file.name = c.name}
           f == IF same = {} THEN NewMultipartFile(c.name, c.head.method)
                ELSE (CHOOSE r \in same : TRUE).file
           part == FilePart(c.file, c.begin, c.head.size, c.head.bof, c.head.eof)
           k == RARPart(c.file.name)
           g == SetFilePart(f, k, part)
<1>1. \/ Handled(c, scope, AfterData(c))
      \/ Handler(c, scope, AfterData(c) \cup ChainsOf(g, dir), EntriesOf(g, dir), PartsOf(g, dir),
                 rarFiles \ same)
      \/ /\ ~ SetFilePartReturns(f, k, part)
         /\ Handler(c, scope, AfterData(c), {}, {}, (rarFiles \ same) \cup {[dir |-> dir, file |-> g]})
  BY DEF FilenameRead
<1>2. StartOK(c.id, AfterData(c))
  BY AfterDataOK
<1>3. IsPath(dir) /\ dir # <<>> /\ dir[Len(dir)] = NoExt(c.file.name.base)
  BY PathAppend DEF PathOfArchive, ChainBase
<1>4. FileOK(f) /\ PartsOK(f) /\ f.nzb = 0 /\ f.size = 0 /\ InVolumes(f, dir[Len(dir)])
  <2>1. CASE same = {}
    <3>1. c.name.num \in Nat
      BY DEF ChainBase
    <3> DEFINE h == NewMultipartFile(c.name, c.head.method)
    <3>2. FileOK(h) /\ PartsOK(h) /\ h.nzb = 0 /\ h.size = 0 /\ \A archive : InVolumes(h, archive)
      BY <3>1, NewFilesOK
    <3>3. QED
      BY <2>1, <3>2
  <2>2. CASE same # {}
    <3>1. (CHOOSE r \in same : TRUE) \in same
      BY <2>2
    <3>2. (CHOOSE r \in same : TRUE) \in rarFiles
      BY <3>1
    <3>3. RarOK(CHOOSE r \in same : TRUE) /\ (CHOOSE r \in same : TRUE).dir = dir
      BY <3>1, <3>2 DEF RarFilesOK
    <3>4. QED
      BY <2>2, <3>3 DEF RarOK
  <2>3. QED
    BY <2>1, <2>2
<1>5. k \in Nat
  <2>1. c.file.name.num \in Nat
    BY DEF ChainBase, FileOK
  <2>2. QED
    BY <2>1 DEF RARPart
<1>6. part.size \in Nat /\ part.offset \in Nat /\ Made(part.file)
      /\ part.file = c.file /\ k = RARPart(c.file.name)
  BY DEF FilePart, ChainBase, FileOK
<1> HIDE DEF f, k, part
<1>7. /\ FileOK(g) /\ PartsOK(g) /\ g.nzb = 0 /\ (~ SetFilePartReturns(f, k, part) => g.size = 0)
      /\ InVolumes(g, dir[Len(dir)])
  <2>1. /\ FileOK(g) /\ PartsOK(g) /\ g.nzb = 0 /\ (~ SetFilePartReturns(f, k, part) => g.size = 0)
        /\ \A i \in DOMAIN g.parts :
             (i \in DOMAIN f.parts /\ g.parts[i] = f.parts[i]) \/ (i = k /\ g.parts[i] = part)
    BY <1>4, <1>5, <1>6, SetFilePartOK
  <2> HIDE DEF g, dir
  <2>2. QED
    BY <1>3, <1>4, <1>6, <2>1 DEF InVolumes
<1>8. RarFilesOK(rarFiles \ same)
  BY DEF RarFilesOK
<1> HIDE DEF dir, same, g
<1>9. CASE Handled(c, scope, AfterData(c))
  BY <1>2, <1>9, HandledRuns
<1>10. CASE Handler(c, scope, AfterData(c) \cup ChainsOf(g, dir), EntriesOf(g, dir), PartsOf(g, dir),
                    rarFiles \ same)
  <2>1. StartOK(0, ChainsOf(g, dir)) /\ EntriesOK(EntriesOf(g, dir)) /\ SplitPartsOK(PartsOf(g, dir))
    BY <1>3, <1>7, StartInsertFileOK
  <2>2. QED
    BY <1>2, <1>8, <1>10, <2>1 DEF HandlerRuns
<1>11. CASE /\ ~ SetFilePartReturns(f, k, part)
            /\ Handler(c, scope, AfterData(c), {}, {}, (rarFiles \ same) \cup {[dir |-> dir, file |-> g]})
  <2>1. RarOK([dir |-> dir, file |-> g])
    BY <1>3, <1>7, <1>11 DEF RarOK
  <2>2. RarFilesOK((rarFiles \ same) \cup {[dir |-> dir, file |-> g]})
    BY <1>8, <2>1 DEF RarFilesOK
  <2>3. Handler(c, scope, AfterData(c) \cup {}, {}, {}, (rarFiles \ same) \cup {[dir |-> dir, file |-> g]})
    <3>1. AfterData(c) \cup {} = AfterData(c)
      OBVIOUS
    <3>2. QED
      BY <1>11, <3>1
  <2>4. QED
    BY <1>2, <2>2, <2>3, NothingOK DEF HandlerRuns
<1>12. QED
  BY <1>1, <1>9, <1>10, <1>11

LEMMA LocalFileHeaderRuns ==
  ASSUME RarFilesOK(rarFiles), NEW c, ChainBase(c), ~ IsRARName(c.file.name), NEW scope, LocalFileHeaderRead(c, scope)
  PROVE  HandlerRuns(c.id, scope)
<1> DEFINE d == [c EXCEPT !.begin = c.at + HeadSize(c.head)]
           more == IF c.head.type # "local" THEN {} ELSE {GetZIPFilename(d, c.at + 2)}
<1>1. c.at \in Nat /\ c.at + 2 \in Nat /\ c.at + HeadSize(c.head) \in Nat
  <2>1. c.at \in Nat
    BY DEF ChainBase
  <2>2. QED
    BY <2>1, HeadSizes
<1>2. SameChain(c, d)
  BY <1>1, ChainChanged
<1>3. Handled(c, scope, more)
  BY DEF LocalFileHeaderRead
<1> HIDE DEF d
<1>4. LET e == GetZIPFilename(d, c.at + 2) IN ChainOK(e) /\ JustAsked(e) /\ e.id = c.id
  BY <1>1, <1>2, ReadingOK DEF GetZIPFilename, Stages, OnlyZIP, SameChain
<1>5. StartOK(c.id, more)
  BY <1>4, OneChainOK, NothingOK
<1> HIDE DEF more
<1>6. QED
  BY <1>3, <1>5, HandledRuns

LEMMA ZIPFilenameRuns ==
  ASSUME RarFilesOK(rarFiles), NEW c, ChainBase(c), ~ IsRARName(c.file.name), NEW scope, ZIPFilenameRead(c, scope)
  PROVE  HandlerRuns(c.id, scope)
<1> DEFINE dir == PathOfArchive(c)
           end == c.begin + c.head.size
           part == FilePart(c.file, c.begin, end, TRUE, TRUE)
           f == SetFilePart(NewMultipartFile(c.name, c.head.method), 1, part)
<1>1. Handler(c, scope, {GetZIPNextFileHeader(c, end)} \cup ChainsOf(f, dir), EntriesOf(f, dir),
              PartsOf(f, dir), rarFiles)
  BY DEF ZIPFilenameRead
<1>2. IsPath(dir) /\ dir # <<>>
  <2>1. IsPath(c.dir)
    BY DEF ChainBase
  <2>2. QED
    BY <2>1, PathAppend DEF PathOfArchive
<1>3. end \in Nat /\ c.name.num \in Nat
  BY DEF ChainBase
<1>4. part.size \in Nat /\ part.offset \in Nat /\ Made(part.file) /\ part.file = c.file
  BY <1>3 DEF FilePart, ChainBase, FileOK
<1>5. LET d == GetZIPNextFileHeader(c, end) IN ChainOK(d) /\ JustAsked(d) /\ d.id = c.id
  BY <1>3, ReadingOK DEF GetZIPNextFileHeader, Stages, OnlyZIP
<1> HIDE DEF part, end, dir
<1>6. FileOK(f) /\ f.nzb = 0 /\ InVolumes(f, dir[Len(dir)])
  <2> DEFINE h == NewMultipartFile(c.name, c.head.method)
  <2>1. FileOK(h) /\ PartsOK(h) /\ h.nzb = 0 /\ h.size = 0 /\ InVolumes(h, dir[Len(dir)])
    BY <1>3, NewFilesOK
  <2>2. 1 \in Nat
    OBVIOUS
  <2> HIDE DEF h
  <2>3. /\ FileOK(f) /\ f.nzb = 0
        /\ \A i \in DOMAIN f.parts :
             (i \in DOMAIN h.parts /\ f.parts[i] = h.parts[i]) \/ (i = 1 /\ f.parts[i] = part)
    BY <1>4, <2>1, <2>2, SetFilePartOK DEF h
  <2> HIDE DEF f
  <2>4. QED
    BY <1>4, <2>1, <2>3 DEF InVolumes
<1> HIDE DEF f
<1>7. StartOK(0, ChainsOf(f, dir)) /\ EntriesOK(EntriesOf(f, dir)) /\ SplitPartsOK(PartsOf(f, dir))
  BY <1>2, <1>6, StartInsertFileOK
<1>8. StartOK(c.id, {GetZIPNextFileHeader(c, end)})
  BY <1>5, OneChainOK
<1>9. QED
  BY <1>1, <1>7, <1>8 DEF HandlerRuns

LEMMA NextFileHeaderRuns ==
  ASSUME RarFilesOK(rarFiles), NEW c, ChainBase(c), ~ IsRARName(c.file.name), NEW scope, NextFileHeaderRead(c, scope)
  PROVE  HandlerRuns(c.id, scope)
<1> DEFINE more == IF c.mark = "local" THEN {GetZIPLocalFileHeader(c, c.at)} ELSE {}
<1>1. LET d == GetZIPLocalFileHeader(c, c.at) IN ChainOK(d) /\ JustAsked(d) /\ d.id = c.id
  BY ReadingOK DEF GetZIPLocalFileHeader, Stages, OnlyZIP, ChainBase
<1>2. StartOK(c.id, more)
  BY <1>1, OneChainOK, NothingOK
<1>3. Handled(c, scope, more)
  BY DEF NextFileHeaderRead
<1> HIDE DEF more
<1>4. QED
  BY <1>2, <1>3, HandledRuns

LEMMA CallbackRuns ==
  ASSUME RarFilesOK(rarFiles), NEW c, ChainOK(c), NEW fresh, NEW scope, Callback(c, fresh, scope)
  PROVE  HandlerRuns(c.id, scope)
<1> DEFINE header == HeaderAt(c.file, c.at)
           mark == IF fresh THEN [c EXCEPT !.mark = header.type] ELSE c
           main == IF fresh THEN [c EXCEPT !.main = header.type = "main"] ELSE c
           head == IF fresh THEN [c EXCEPT !.head = header] ELSE c
           name == IF fresh THEN [c EXCEPT !.name = NameAt(c.file, c.at)] ELSE c
<1>1. ChainBase(c) /\ c.stage \in Stages /\ OnlyZIP(c.stage, c.file)
  BY DEF ChainOK
<1>2. \A d \in {mark, main, head, name} : SameChain(c, d)
  <2>1. header.size \in Nat /\ NameAt(c.file, c.at).num \in Nat
    BY NumbersOfNames
  <2>2. SameChain(c, mark)
    BY <1>1, ChainChanged DEF SameChain
  <2>3. SameChain(c, main)
    BY <1>1, ChainChanged DEF SameChain
  <2> HIDE DEF header
  <2>4. SameChain(c, head)
    BY <1>1, <2>1, ChainChanged DEF SameChain
  <2>5. SameChain(c, name)
    BY <1>1, <2>1, ChainChanged DEF SameChain
  <2>6. QED
    BY <2>2, <2>3, <2>4, <2>5
<1>3. /\ c.stage = "mark" => MarkHeadRead(mark, scope)
      /\ c.stage = "main" => MainHeaderRead(main, scope)
      /\ c.stage = "head" => FileHeaderRead(head, scope)
      /\ c.stage = "high" => Handled(c, scope, {GetFilename(c, c.at + 1)})
      /\ c.stage = "name" => FilenameRead(name, scope)
      /\ c.stage = "local" => LocalFileHeaderRead(head, scope)
      /\ c.stage = "zipname" => ZIPFilenameRead(name, scope)
      /\ c.stage = "next" => NextFileHeaderRead(mark, scope)
  BY DEF Callback
<1>4. LET d == GetFilename(c, c.at + 1) IN ChainOK(d) /\ JustAsked(d) /\ d.id = c.id
  <2>1. c.at + 1 \in Nat
    BY <1>1 DEF ChainBase
  <2>2. QED
    BY <1>1, <2>1, ReadingOK DEF GetFilename, Stages, OnlyZIP
<1> HIDE DEF mark, main, head, name, header
<1>5. CASE c.stage = "mark"
  BY <1>2, <1>3, <1>5, MarkHeadRuns DEF SameChain
<1>6. CASE c.stage = "main"
  BY <1>2, <1>3, <1>6, MainHeaderRuns DEF SameChain
<1>7. CASE c.stage = "head"
  BY <1>2, <1>3, <1>7, FileHeaderRuns DEF SameChain
<1>8. CASE c.stage = "high"
  BY <1>3, <1>4, <1>8, OneChainOK, HandledRuns
<1>9. CASE c.stage = "name"
  BY <1>2, <1>3, <1>9, FilenameRuns DEF SameChain
<1>10. CASE c.stage = "local"
  BY <1>1, <1>2, <1>3, <1>10, LocalFileHeaderRuns DEF SameChain, OnlyZIP
<1>11. CASE c.stage = "zipname"
  BY <1>1, <1>2, <1>3, <1>11, ZIPFilenameRuns DEF SameChain, OnlyZIP
<1>12. CASE c.stage = "next"
  BY <1>1, <1>2, <1>3, <1>12, NextFileHeaderRuns DEF SameChain, OnlyZIP
<1>13. QED
  BY <1>1, <1>5, <1>6, <1>7, <1>8, <1>9, <1>10, <1>11, <1>12 DEF Stages

-----------------------------------------------------------------------------
(* What the destructor of the mounter registers.                           *)

LEMMA AppendOnce ==
  ASSUME NEW s, IsPath(s), NEW t, IsPath(t), NEW x, NEW y, Append(s, x) = Append(t, y)
  PROVE  s = t /\ x = y
<1> DEFINE S == Range(s) \cup Range(t) \cup {x, y}
           u == Append(s, x)
           v == Append(t, y)
<1>1. s \in Seq(S) /\ t \in Seq(S) /\ x \in S /\ y \in S
  BY DEF IsPath
<1> HIDE DEF S
<1>2. /\ Len(u) = Len(s) + 1 /\ u[Len(s) + 1] = x /\ \A i \in 1 .. Len(s) : u[i] = s[i]
      /\ Len(v) = Len(t) + 1 /\ v[Len(t) + 1] = y /\ \A i \in 1 .. Len(t) : v[i] = t[i]
      /\ Len(s) \in Nat /\ Len(t) \in Nat
  BY <1>1
<1>3. u = v
  OBVIOUS
<1> HIDE DEF u, v
<1>4. Len(s) = Len(t) /\ x = y
  BY <1>2, <1>3
<1>5. \A i \in 1 .. Len(s) : s[i] = t[i]
  BY <1>2, <1>3, <1>4
<1>6. s = t
  BY <1>1, <1>4, <1>5
<1>7. QED
  BY <1>4, <1>6

LEMMA BaseOfName ==
  ASSUME NEW a, NEW b, NoExt(a) = NoExt(b)
  PROVE  a = b
<1>1. \A base, ext : [base |-> base, ext |-> ext, num |-> 0].base = base
  OBVIOUS
<1>2. NoExt(a).base = a /\ NoExt(b).base = b
  BY <1>1, Zenon DEF NoExt
<1>3. QED
  BY <1>2

\* The split files have a size each and a path of their own.
LEMMA SplitFilesOK ==
  ASSUME NEW parts, SplitPartsOK(parts)
  PROVE  /\ \A e \in SplitFiles(parts) : EntryOK(e)
         /\ \A d, e \in SplitFiles(parts) : d.path = e.path => d = e
<1> DEFINE Same(p) == {q \in parts : q.dir = p.dir /\ q.base = p.base}
           Numbers(S) == {q.part : q \in S}
           PartAt(S, k) == LET q == CHOOSE q \in S : q.part = k IN
                           FilePart(q.file, 0, q.file.size, k = Min(Numbers(S)), k = Max(Numbers(S)))
           Joined(S, base) == [NewMultipartFile(NoExt(base), "stored")
                               EXCEPT !.parts = [k \in Numbers(S) |-> PartAt(S, k)]]
           Complete(p) == Max(Numbers(Same(p))) - Min(Numbers(Same(p))) = Cardinality(Numbers(Same(p))) - 1
           Entry(p) == [path |-> Append(p.dir, NoExt(p.base)), file |-> Finalize(Joined(Same(p), p.base))]
<1>1. SplitFiles(parts) = {Entry(p) : p \in {q \in parts : Complete(q)}}
  BY DEF SplitFiles
<1>2. ASSUME NEW p \in parts, Complete(p)
      PROVE  EntryOK(Entry(p))
  <2> DEFINE S == Same(p)
             N == Numbers(S)
             f == Joined(S, p.base)
  <2>1. S \subseteq parts /\ p \in S /\ IsFiniteSet(S)
    BY FS_Subset DEF SplitPartsOK
  <2>2. N \subseteq Nat /\ N # {}
    BY <2>1 DEF SplitPartsOK, PartOK
  <2>3. IsFiniteSet(N)
    <3> DEFINE g == [q \in S |-> q.part]
    <3>1. IsFiniteSet({g[q] : q \in S})
      <4> HIDE DEF S
      <4>1. QED
        BY <2>1, FiniteImage
    <3>2. N = {g[q] : q \in S}
      BY DEF g
    <3>3. QED
      BY <3>1, <3>2
  <2>4. ASSUME NEW k \in N
        PROVE  /\ PartAt(S, k).size \in Nat /\ PartAt(S, k).offset \in Nat /\ Made(PartAt(S, k).file)
               /\ ~ IsRARName(PartAt(S, k).file.name)
               /\ (k = Min(N) => PartAt(S, k).bof) /\ (k = Max(N) => PartAt(S, k).eof)
    <3>1. \E q \in S : q.part = k
      BY <2>4
    <3>2. (CHOOSE q \in S : q.part = k) \in S
      BY <3>1
    <3>3. LET q == CHOOSE q \in S : q.part = k IN
          q.file.size \in Nat /\ Made(q.file) /\ ~ IsRARName(q.file.name)
      BY <2>1, <3>2 DEF SplitPartsOK, PartOK, FileOK, IsSplitName, IsRARName
    <3> HIDE DEF S
    <3>4. QED
      BY <3>3 DEF FilePart
  <2>5. /\ FileOK(f) /\ f.parts = [k \in N |-> PartAt(S, k)]
    <3> DEFINE h == NewMultipartFile(NoExt(p.base), "stored")
    <3>1. NoExt(p.base).num \in Nat
      BY NumbersOfNames
    <3>2. FileOK(h) /\ h.size = 0
      BY <3>1, NewFilesOK
    <3> DEFINE ps == [k \in N |-> PartAt(S, k)]
    <3>3. f = [h EXCEPT !.parts = ps]
      OBVIOUS
    <3> HIDE DEF h, ps, N, S, f
    <3>4. h = [name |-> h.name, nzb |-> h.nzb, method |-> h.method, size |-> h.size,
               parts |-> h.parts, map |-> h.map]
      BY <3>2 DEF FileOK, FileFields
    <3>5. f = [name |-> h.name, nzb |-> h.nzb, method |-> h.method, size |-> h.size,
               parts |-> ps, map |-> h.map]
      BY <3>3, <3>4
    <3>6. FileFields(f) /\ f.parts = ps /\ f.nzb = h.nzb /\ f.name = h.name /\ f.size = 0
      BY <3>2, <3>5 DEF FileFields
    <3>7. \A k \in DOMAIN ps : Made(ps[k].file)
      BY <2>4 DEF ps
    <3>8. FileOf(f)
      BY <3>2, <3>6 DEF FileOf, FileOK
    <3>9. Made(f)
      BY <3>6, <3>7, <3>8, MadeOfParts
    <3>10. FileOK(f)
      BY <3>2, <3>6, <3>9 DEF FileOK, AllThere
    <3>11. QED
      BY <3>6, <3>10 DEF ps
  <2>6. PartsOK(f) /\ DOMAIN f.parts = N
    <3> HIDE DEF f, N, S, PartAt
    <3>1. DOMAIN f.parts = N /\ \A k \in N : f.parts[k] = PartAt(S, k)
      BY <2>5
    <3>2. QED
      BY <2>2, <2>3, <2>4, <3>1 DEF PartsOK
  <2>7. Max(N) - Min(N) = Cardinality(N) - 1
    BY <1>2
  <2> HIDE DEF N
  <2>8. FileOK(Finalize(f)) /\ \A archive : InVolumes(Finalize(f), archive)
    <3> HIDE DEF f, S, PartAt
    <3>1. Gapless(f)
      BY <2>2, <2>6, <2>7 DEF Gapless
    <3>2. \A k \in N : f.parts[k] = PartAt(S, k)
      BY <2>5
    <3>3. Ended(f)
      <4>1. Min(N) \in N /\ Max(N) \in N
        BY <2>2, <2>3, LeastAndGreatest
      <4>2. QED
        BY <2>4, <2>6, <3>2, <4>1 DEF Ended
    <3>4. FileOK(Finalize(f)) /\ Finalize(f).parts = f.parts
      BY <2>5, <2>6, <3>1, <3>3, MadeIs, FinalizeKeeps DEF FileOK
    <3>5. QED
      BY <2>4, <2>6, <3>2, <3>4 DEF InVolumes
  <2>9. IsPath(Append(p.dir, NoExt(p.base))) /\ Append(p.dir, NoExt(p.base)) # <<>>
    BY PathAppend DEF SplitPartsOK, PartOK
  <2> HIDE DEF f
  <2>10. Entry(p) = [path |-> Append(p.dir, NoExt(p.base)), file |-> Finalize(f)]
    BY DEF f
  <2>11. QED
    BY <2>8, <2>9, <2>10 DEF EntryOK
<1>3. ASSUME NEW p \in parts, NEW q \in parts, Entry(p).path = Entry(q).path
      PROVE  Entry(p) = Entry(q)
  <2>1. Append(p.dir, NoExt(p.base)) = Append(q.dir, NoExt(q.base))
    <3> HIDE DEF Joined
    <3>1. QED
      BY <1>3
  <2>2. IsPath(p.dir) /\ IsPath(q.dir)
    BY DEF SplitPartsOK, PartOK
  <2>3. p.dir = q.dir /\ NoExt(p.base) = NoExt(q.base)
    BY <2>1, <2>2, AppendOnce
  <2>4. p.base = q.base
    BY <2>3, BaseOfName
  <2>5. Same(p) = Same(q)
    BY <2>3, <2>4
  <2> HIDE DEF Joined, Same
  <2>6. QED
    BY <2>3, <2>4, <2>5
<1> HIDE DEF Entry, Complete
<1>4. QED
  BY <1>1, <1>2, <1>3

-----------------------------------------------------------------------------
(* The types.                                                              *)

\* No file of the tree lies behind another one.
ContentOK(tree) ==
  /\ \A e \in tree : EntryOK(e)
  /\ \A d, e \in tree : IsPrefix(d.path, e.path) => d = e

NameStates == {"none", "asked", "named", "unnamed", "over"}
MountStates == {"none", "Mounting", "Mounted", "erased", "terminated"}
ClientStates == {"up", "stopping", "restarting", "stopped", "hanging"}

\* A total that the caller of Mount has read is not greater than the total now.
MounterTypes ==
  /\ nzb \in NZBs /\ next \in 0 .. Len(nzb) + 2
  /\ names \in [File -> NameStates]
  /\ read \in Nat \cup {Nothing} /\ (read # Nothing => read <= total)
  /\ total \in Nat /\ loaded \in Nat /\ lost \in Nat
  /\ mountState \in MountStates /\ gone \in BOOLEAN
  /\ clients \in ClientStates /\ failures \in 0 .. MaxFailures
  /\ late \subseteq {"state", "mounter", "parted"}

DataTypes ==
  ChainsOK(chains) /\ RarFilesOK(rarFiles) /\ SplitPartsOK(splitParts) /\ ContentOK(content)

DriveTypes ==
  /\ state \in {"stopped", "started", "stopping"}
  /\ starts \in 0 .. MaxStarts
  /\ ioStopped \in BOOLEAN
  /\ mount \in {"no", "checked", "in", "refused"}
  /\ unmount \in {"no", "canceled", "done"}
  /\ stop \in {"no", "fuse", "clients", "join", "done"}
  /\ fuse \in {"off", "loop", "exit", "left"}
  /\ reading \in BOOLEAN /\ raced \in BOOLEAN

TypeInv == MounterTypes /\ DataTypes /\ DriveTypes

LEMMA TypesSuffice == TypeInv => TypeOKDrive
<1> SUFFICES ASSUME TypeInv PROVE TypeOKDrive
  OBVIOUS
<1>1. \A c \in chains :
        /\ c.stage \in {"mark", "main", "head", "high", "name", "local", "zipname", "next"}
        /\ \A j \in DOMAIN c.reads :
             c.reads[j].state \in {"asked", "arrived", "failed", "junk", "read", "bad", "erased"}
  BY DEF TypeInv, DataTypes, ChainsOK, ChainOK, Stages, ReadsOK, ReadOK, ReadStates
<1>2. \A r \in rarFiles : IsComplete(r.file) => r.file.size = 0
  BY DEF TypeInv, DataTypes, RarFilesOK, RarOK
<1>3. \A e \in content : e.file.size \in Nat
  BY DEF TypeInv, DataTypes, ContentOK, EntryOK, FileOK
<1>4. TypeOK
  BY <1>1, <1>2, <1>3 DEF TypeInv, MounterTypes, TypeOK, NameStates, MountStates, ClientStates
<1>5. QED
  BY <1>4 DEF TypeInv, DriveTypes, TypeOKDrive

LEMMA FileFacts ==
  ASSUME nzb \in NZBs
  PROVE  Len(nzb) \in Nat /\ File = 1 .. Len(nzb) /\ IsFiniteSet(File)
<1>1. nzb \in Seq([name : Name, size : Nat])
  BY NZBsAssumption
<1>2. Len(nzb) \in Nat /\ File = 1 .. Len(nzb)
  <2> DEFINE R == [name : Name, size : Nat]
  <2> HIDE DEF R
  <2>1. nzb \in Seq(R)
    BY <1>1 DEF R
  <2>2. QED
    BY <2>1 DEF File
<1>3. IsFiniteSet(1 .. Len(nzb))
  BY <1>2, FS_Interval
<1>4. QED
  BY <1>2, <1>3

LEMMA TypeInit == Init => TypeInv
<1> SUFFICES ASSUME Init PROVE TypeInv
  OBVIOUS
<1>1. Len(nzb) \in Nat
  BY FileFacts DEF Init, MounterInit
<1>2. MounterTypes
  <2>1. gone \in BOOLEAN
    BY Zenon DEF Init, MounterInit
  <2>2. names \in [File -> NameStates]
    BY DEF Init, MounterInit, NameStates
  <2>3. failures \in 0 .. MaxFailures
    BY MaxFailuresAssumption DEF Init, MounterInit
  <2>4. nzb \in NZBs /\ next = 0 /\ read = Nothing /\ total = 0 /\ loaded = 0 /\ lost = 0
        /\ mountState = "none" /\ clients = "up" /\ late = {}
    BY Zenon DEF Init, MounterInit
  <2>5. QED
    BY <1>1, <2>1, <2>2, <2>3, <2>4 DEF MounterTypes, MountStates, ClientStates
<1>3. DataTypes
  BY FS_EmptySet DEF Init, MounterInit, DataTypes, ChainsOK, RarFilesOK, SplitPartsOK, ContentOK
<1>4. DriveTypes
  <2>1. ioStopped \in BOOLEAN /\ reading \in BOOLEAN /\ raced \in BOOLEAN
    BY Zenon DEF Init
  <2>2. state = "stopped" /\ starts = 0 /\ mount = "no" /\ unmount = "no" /\ stop = "no" /\ fuse = "off"
    BY Zenon DEF Init
  <2>3. QED
    BY <2>1, <2>2, DriveAssumption DEF DriveTypes
<1>5. QED
  BY <1>2, <1>3, <1>4 DEF TypeInv

\* What is registered lies neither behind a file of the tree nor behind another
\* one that is registered with it.
LEMMA RegisterContent ==
  ASSUME NEW tree, ContentOK(tree), NEW entries, \A e \in entries : EntryOK(e),
         \A d, e \in entries : d.path = e.path => d = e
  PROVE  ContentOK(Register(tree, entries))
<1> DEFINE new == Fresh(tree, entries) \ Refused(tree, entries)
<1>1. /\ new \subseteq entries
      /\ \A e \in new : ~Throws(tree, e.path)
      /\ \A d, e \in new : ~IsStrictPrefix(d.path, e.path)
  BY DEF Fresh, Refused
<1> HIDE DEF new
<1>2. \A d \in tree, e \in new : ~IsPrefix(d.path, e.path) /\ ~IsPrefix(e.path, d.path)
  BY <1>1 DEF Throws
<1>3. \A d, e \in new : IsPrefix(d.path, e.path) => d = e
  BY <1>1 DEF IsStrictPrefix
<1>4. \A d, e \in tree \cup new : IsPrefix(d.path, e.path) => d = e
  BY <1>2, <1>3, Zenon DEF ContentOK
<1>5. \A e \in tree \cup new : EntryOK(e)
  BY <1>1 DEF ContentOK
<1>6. ContentOK(tree \cup new)
  BY <1>4, <1>5, Zenon DEF ContentOK
<1>7. QED
  BY <1>6, Zenon DEF Register, new

LEMMA SettleTypes ==
  ASSUME SplitPartsOK(splitParts), ContentOK(content), gone \in BOOLEAN, mountState \in MountStates,
         NEW entries, EntriesOK(entries), NEW parts, SplitPartsOK(parts), NEW rars, RarFilesOK(rars),
         Settle(entries, parts, rars)
  PROVE  /\ ContentOK(content') /\ SplitPartsOK(splitParts') /\ RarFilesOK(rarFiles')
         /\ gone' \in BOOLEAN /\ mountState' \in MountStates
<1> DEFINE kept == {p \in splitParts : ~ \E q \in parts : <<q.dir, q.base, q.part>> = <<p.dir, p.base, p.part>>}
           all == kept \cup parts
           over == ~ gone /\ ~ IsHeld(next', names', chains')
           tree == Register(content, entries)
           joined == IF over THEN SplitFiles(all) ELSE {}
<1>1. /\ content' = Register(tree, joined)
      /\ splitParts' = IF over THEN {} ELSE all
      /\ rarFiles' = IF over THEN {} ELSE rars
      /\ gone' = (gone \/ over)
      /\ mountState' = IF Refused(content, entries) \cup Refused(tree, joined) # {} THEN "terminated"
                       ELSE IF over /\ mountState = "Mounting" THEN "Mounted" ELSE mountState
  BY DEF Settle
<1>2. SplitPartsOK(all)
  <2>1. kept \subseteq splitParts /\ IsFiniteSet(kept)
    BY FS_Subset DEF SplitPartsOK
  <2>2. IsFiniteSet(kept \cup parts)
    BY <2>1, FS_Union DEF SplitPartsOK
  <2>3. QED
    BY <2>1, <2>2 DEF SplitPartsOK
<1>3. /\ \A e \in joined : EntryOK(e)
      /\ \A d, e \in joined : d.path = e.path => d = e
  BY <1>2, SplitFilesOK
<1>4. ContentOK(tree)
  BY RegisterContent DEF EntriesOK
<1> HIDE DEF all, tree, joined, over
<1>5. ContentOK(content')
  BY <1>1, <1>3, <1>4, RegisterContent
<1>6. SplitPartsOK(splitParts')
  <2>1. SplitPartsOK({})
    BY NothingOK
  <2>2. QED
    BY <1>1, <1>2, <2>1
<1>7. RarFilesOK(rarFiles')
  <2>1. RarFilesOK({})
    BY DEF RarFilesOK
  <2>2. QED
    BY <1>1, <2>1
<1>8. gone' \in BOOLEAN
  BY <1>1 DEF over
<1>9. mountState' \in MountStates
  BY <1>1 DEF MountStates
<1>10. QED
  BY <1>5, <1>6, <1>7, <1>8, <1>9

LEMMA UsesTypes ==
  ASSUME late \subseteq {"state", "mounter", "parted"}, NEW connects, UsesState(connects)
  PROVE  late' \subseteq {"state", "mounter", "parted"}
BY DEF UsesState

\* Settle with nothing to register.
LEMMA SettleNothing ==
  ASSUME DataTypes, gone \in BOOLEAN, mountState \in MountStates, Settle({}, {}, rarFiles)
  PROVE  /\ ContentOK(content') /\ SplitPartsOK(splitParts') /\ RarFilesOK(rarFiles')
         /\ gone' \in BOOLEAN /\ mountState' \in MountStates
BY NothingOK, SettleTypes DEF DataTypes

\* The free id, and what starts with it.
LEMMA FreeIDFacts ==
  ASSUME MounterTypes, ChainsOK(chains)
  PROVE  FreeID \in Nat /\ Len(nzb) < FreeID /\ \A d \in chains : d.id # FreeID
<1> DEFINE n == Cardinality(chains)
           ids == Len(nzb) + 1 .. Len(nzb) + n + 1
           used == {d.id : d \in chains}
<1>1. Len(nzb) \in Nat /\ n \in Nat
  BY FileFacts, FS_CardinalityType DEF MounterTypes, ChainsOK
<1>2. IsFiniteSet(ids) /\ Cardinality(ids) = n + 1
  <2> DEFINE first == Len(nzb) + 1
             last == Len(nzb) + n + 1
  <2>1. first \in Int /\ last \in Int /\ first <= last /\ last - first + 1 = n + 1
    BY <1>1
  <2> HIDE DEF first, last, n
  <2>2. IsFiniteSet(first .. last) /\ Cardinality(first .. last) = IF first > last THEN 0 ELSE last - first + 1
    BY ONLY <2>1, FS_Interval
  <2>3. IsFiniteSet(first .. last) /\ Cardinality(first .. last) = n + 1
    BY <2>1, <2>2
  <2>4. QED
    BY <2>3 DEF first, last
<1>3. IsFiniteSet(used) /\ Cardinality(used) <= n
  <2> DEFINE idOf == [d \in chains |-> d.id]
  <2>1. idOf \in Surjection(chains, used)
    BY DEF Surjection
  <2>2. QED
    BY <2>1, FS_Surjection DEF ChainsOK
<1>4. \E m \in ids : m \notin used
  <2> SUFFICES ASSUME ids \subseteq used PROVE FALSE
    OBVIOUS
  <2> HIDE DEF ids, used, n
  <2>1. Cardinality(ids) <= Cardinality(used)
    BY <1>3, FS_Subset
  <2>2. Cardinality(used) \in Nat
    BY <1>3, FS_CardinalityType
  <2>3. QED
    BY <1>1, <1>2, <1>3, <2>1, <2>2
<1>5. \E m \in ids : \A d \in chains : d.id # m
  BY <1>4
<1>6. FreeID \in ids /\ \A d \in chains : d.id # FreeID
  BY <1>5 DEF FreeID
<1>7. QED
  BY <1>1, <1>6

LEMMA StartsFinite ==
  ASSUME NEW id, NEW S, StartOK(id, S)
  PROVE  IsFiniteSet(S)
BY FS_EmptySet, FS_Singleton DEF StartOK

LEMMA Renumbered ==
  ASSUME NEW c, ChainOK(c), NEW id \in Nat
  PROVE  LET d == [c EXCEPT !.id = id] IN ChainOK(d) /\ d.id = id /\ d.reads = c.reads
<1> DEFINE d == [c EXCEPT !.id = id]
<1>1. c = [id |-> c.id, file |-> c.file, dir |-> c.dir, stage |-> c.stage, at |-> c.at,
           size |-> c.size, mark |-> c.mark, main |-> c.main, head |-> c.head, name |-> c.name,
           begin |-> c.begin, reads |-> c.reads]
  BY DEF ChainOK, ChainBase, ChainFields
<1>2. d = [id |-> id, file |-> c.file, dir |-> c.dir, stage |-> c.stage, at |-> c.at,
           size |-> c.size, mark |-> c.mark, main |-> c.main, head |-> c.head, name |-> c.name,
           begin |-> c.begin, reads |-> c.reads]
  BY <1>1
<1> HIDE DEF d
<1>3. QED
  BY <1>2 DEF ChainOK, ChainBase, ChainFields, ReadsOK, d

LEMMA StartedOK ==
  ASSUME MounterTypes, ChainsOK(chains), NEW id, NEW on, NEW new, StartOK(id, on), StartOK(0, new)
  PROVE  /\ IsFiniteSet(on \cup new) /\ IsFiniteSet(Busy(on \cup new))
         /\ ChainsOK(Started(on \cup new))
<1> DEFINE more == on \cup new
           ID(d) == IF d.id = 0 THEN FreeID ELSE d.id
           start == [d \in Busy(more) |-> [d EXCEPT !.id = ID(d)]]
<1>1. IsFiniteSet(more) /\ \A d \in more : ChainOK(d)
  BY StartsFinite, FS_Union DEF StartOK
<1>2. IsFiniteSet(Busy(more)) /\ Busy(more) \subseteq more
  BY <1>1, FS_Subset DEF Busy
<1>3. Started(more) = {start[d] : d \in Busy(more)}
  BY DEF Started
<1>4. IsFiniteSet(Started(more))
  <2>1. DOMAIN start = Busy(more)
    OBVIOUS
  <2> HIDE DEF start, more
  <2>2. QED
    BY <1>2, <1>3, <2>1, FiniteImage
<1>5. \A d \in more : ID(d) \in Nat
  BY <1>1, FreeIDFacts DEF ChainOK, ChainBase
<1>6. \A d \in Busy(more) : ChainOK(start[d])
  <2> HIDE DEF more, ID
  <2>1. QED
    BY <1>1, <1>2, <1>5, Renumbered
<1> HIDE DEF start, more
<1>7. QED
  BY <1>1, <1>2, <1>3, <1>4, <1>6 DEF ChainsOK, more

\* A handler keeps the types.
LEMMA HandlerTypes ==
  ASSUME MounterTypes, DataTypes, NEW id, NEW scope, HandlerRuns(id, scope)
  PROVE  MounterTypes' /\ DataTypes'
<1>1. PICK d, on, new, entries, parts, rars :
        /\ d.id = id /\ StartOK(id, on) /\ StartOK(0, new)
        /\ EntriesOK(entries) /\ SplitPartsOK(parts) /\ RarFilesOK(rars)
        /\ Handler(d, scope, on \cup new, entries, parts, rars)
  BY DEF HandlerRuns
<1> DEFINE more == on \cup new
           stay == {e \in chains : e.id # d.id}
<1>2. /\ chains' = stay \cup Started(more)
      /\ total' = total + Cardinality(more)
      /\ loaded' = loaded + Cardinality(more \ Busy(more)) + IF scope THEN 1 ELSE 0
      /\ nzb' = nzb /\ next' = next /\ read' = read /\ names' = names /\ clients' = clients
      /\ failures' = failures /\ lost' = lost
      /\ Settle(entries, parts, rars) /\ UsesState(more # {})
  BY <1>1 DEF Handler
<1>3. /\ ContentOK(content') /\ SplitPartsOK(splitParts') /\ RarFilesOK(rarFiles')
      /\ gone' \in BOOLEAN /\ mountState' \in MountStates
  BY <1>1, <1>2, SettleTypes DEF MounterTypes, DataTypes
<1>4. IsFiniteSet(more) /\ ChainsOK(Started(more))
  BY <1>1, StartedOK DEF DataTypes
<1> HIDE DEF more
<1>5. ChainsOK(chains')
  <2>1. IsFiniteSet(stay)
    BY FS_Subset DEF DataTypes, ChainsOK
  <2>2. IsFiniteSet(stay \cup Started(more))
    BY <1>4, <2>1, FS_Union DEF ChainsOK
  <2>3. \A e \in stay \cup Started(more) : ChainOK(e)
    BY <1>4 DEF DataTypes, ChainsOK
  <2> HIDE DEF stay
  <2>4. QED
    BY <1>2, <2>2, <2>3 DEF ChainsOK
<1>6. total' \in Nat /\ loaded' \in Nat /\ total <= total'
  <2>1. IsFiniteSet(more \ Busy(more))
    BY <1>4, FS_Subset
  <2>2. Cardinality(more) \in Nat /\ Cardinality(more \ Busy(more)) \in Nat
    BY <1>4, <2>1, FS_CardinalityType
  <2>3. QED
    BY <1>2, <2>2 DEF MounterTypes
<1> HIDE DEF stay
<1>7. late' \subseteq {"state", "mounter", "parted"}
  BY <1>2, UsesTypes DEF MounterTypes
<1>8. names' \in [File -> NameStates]' /\ (nzb \in NZBs /\ next \in 0 .. Len(nzb) + 2)'
  BY <1>2 DEF MounterTypes, File
<1>9. (read \in Nat \cup {Nothing} /\ (read # Nothing => read <= total))'
  BY <1>2, <1>6 DEF MounterTypes, Nothing
<1>10. MounterTypes'
  BY <1>2, <1>3, <1>6, <1>7, <1>8, <1>9 DEF MounterTypes
<1>11. DataTypes'
  BY <1>3, <1>5 DEF DataTypes
<1>12. QED
  BY <1>10, <1>11

LEMMA ReadTotalTypes ==
  ASSUME MounterTypes, DataTypes, ReadTotal
  PROVE  MounterTypes' /\ DataTypes'
<1>1. MounterTypes'
  BY DEF MounterTypes, ReadTotal, File
<1>2. DataTypes'
  BY DEF DataTypes, ReadTotal
<1>3. QED
  BY <1>1, <1>2

LEMMA AsyncGetFilenameTypes ==
  ASSUME MounterTypes, DataTypes, AsyncGetFilename
  PROVE  MounterTypes' /\ DataTypes'
<1>1. /\ next \in File /\ read # Nothing
      /\ total' = read + 1 /\ read' = Nothing
      /\ lost' = lost + total - read
      /\ names' = [names EXCEPT ![next] = "asked"]
      /\ next' = next + 1
      /\ nzb' = nzb /\ chains' = chains /\ loaded' = loaded /\ clients' = clients /\ failures' = failures
      /\ Settle({}, {}, rarFiles)
      /\ UsesState(TRUE)
  BY DEF AsyncGetFilename
<1>2. /\ ContentOK(content') /\ SplitPartsOK(splitParts') /\ RarFilesOK(rarFiles')
      /\ gone' \in BOOLEAN /\ mountState' \in MountStates
  BY <1>1, SettleNothing DEF MounterTypes
<1>3. late' \subseteq {"state", "mounter", "parted"}
  BY <1>1, UsesTypes DEF MounterTypes
<1>4. (nzb \in NZBs /\ next \in 0 .. Len(nzb) + 2)'
  <2>1. nzb \in NZBs /\ Len(nzb) \in Nat /\ next \in 1 .. Len(nzb)
    BY <1>1, FileFacts DEF MounterTypes
  <2>2. next + 1 \in 0 .. Len(nzb) + 2
    BY <2>1
  <2>3. QED
    BY <1>1, <2>1, <2>2
<1>5. names' \in [File -> NameStates]'
  BY <1>1 DEF MounterTypes, NameStates, File
<1>6. total' \in Nat /\ lost' \in Nat /\ read' = Nothing
  BY <1>1 DEF MounterTypes, Nothing
<1>7. MounterTypes'
  BY <1>1, <1>2, <1>3, <1>4, <1>5, <1>6 DEF MounterTypes
<1>8. DataTypes'
  BY <1>1, <1>2 DEF DataTypes
<1>9. QED
  BY <1>7, <1>8

LEMMA MountReturnsTypes ==
  ASSUME MounterTypes, DataTypes, MountReturns
  PROVE  MounterTypes' /\ DataTypes'
<1>1. /\ next = Len(nzb) + 1 /\ next' = next + 1
      /\ nzb' = nzb /\ read' = read /\ names' = names /\ chains' = chains /\ total' = total
      /\ loaded' = loaded /\ clients' = clients /\ failures' = failures /\ lost' = lost
      /\ Settle({}, {}, rarFiles)
      /\ UsesState(FALSE)
  BY DEF MountReturns
<1>2. /\ ContentOK(content') /\ SplitPartsOK(splitParts') /\ RarFilesOK(rarFiles')
      /\ gone' \in BOOLEAN /\ mountState' \in MountStates
  BY <1>1, SettleNothing DEF MounterTypes
<1>3. late' \subseteq {"state", "mounter", "parted"}
  BY <1>1, UsesTypes DEF MounterTypes
<1>4. (nzb \in NZBs /\ next \in 0 .. Len(nzb) + 2)'
  BY <1>1, FileFacts DEF MounterTypes
<1>5. names' \in [File -> NameStates]'
  BY <1>1 DEF MounterTypes, File
<1>6. MounterTypes'
  BY <1>1, <1>2, <1>3, <1>4, <1>5 DEF MounterTypes
<1>7. DataTypes'
  BY <1>1, <1>2 DEF DataTypes
<1>8. QED
  BY <1>6, <1>7

LEMMA NameArrivesTypes ==
  ASSUME MounterTypes, DataTypes, NEW i \in File, NameArrives(i)
  PROVE  MounterTypes' /\ DataTypes'
<1>1. names' \in [File -> NameStates] /\ failures' \in 0 .. MaxFailures
  BY MaxFailuresAssumption DEF NameArrives, Succeeds, Fails, MounterTypes, NameStates
<1>2. nzb' = nzb
  BY DEF NameArrives
<1>3. (names \in [File -> NameStates])'
  BY <1>1, <1>2 DEF File
<1>4. MounterTypes'
  BY <1>1, <1>3 DEF NameArrives, MounterTypes
<1>5. DataTypes'
  BY DEF NameArrives, DataTypes
<1>6. QED
  BY <1>4, <1>5

\* The handler of AsyncGetFilename starts the chains in more.
FilenameDoes(i, more, entries, parts) ==
  /\ StartOK(i, more) /\ EntriesOK(entries) /\ SplitPartsOK(parts)
  /\ names[i] \in {"named", "unnamed"} /\ names' = [names EXCEPT ![i] = "over"]
  /\ chains' = chains \cup Started(more)
  /\ total' = total + Cardinality(more)
  /\ loaded' = loaded + Cardinality(more \ Busy(more)) + 1
  /\ nzb' = nzb /\ next' = next /\ read' = read /\ clients' = clients /\ failures' = failures
  /\ lost' = lost
  /\ Settle(entries, parts, rarFiles) /\ UsesState(more # {})

LEMMA FilenameSteps ==
  ASSUME MounterTypes, NEW i \in File, Filename(i)
  PROVE  \E more, entries, parts : FilenameDoes(i, more, entries, parts)
<1> DEFINE named == names[i] = "named"
           f == IF named THEN NZBFileOf(i, nzb[i].name, nzb[i].size)
                ELSE NZBFileOf(i, NoExt("ERROR"), 0)
           dir == IF named THEN <<MountDir>> ELSE ErrorFile
           more == ChainsOf(f, dir)
<1>1. FileOK(f) /\ f.nzb = i /\ \A archive : InVolumes(f, archive)
  <2>1. nzb[i].name.num \in Nat /\ nzb[i].size \in Nat
    BY NumbersOfNames DEF File, MounterTypes
  <2>2. NoExt("ERROR").num \in Nat
    BY NumbersOfNames
  <2>3. i \in Nat \ {0}
    BY FileFacts DEF MounterTypes
  <2>4. \A g \in {NZBFileOf(i, nzb[i].name, nzb[i].size), NZBFileOf(i, NoExt("ERROR"), 0)} :
          FileOK(g) /\ g.nzb = i /\ \A archive : InVolumes(g, archive)
    BY <2>1, <2>2, <2>3, NewFilesOK
  <2>5. QED
    BY <2>4
<1>2. IsPath(dir) /\ dir # <<>>
  <2>1. \E x : ErrorFile = <<MountDir, x>>
    BY DEF ErrorFile
  <2>2. QED
    BY <2>1, MountPath
<1>3. /\ names[i] \in {"named", "unnamed"} /\ names' = [names EXCEPT ![i] = "over"]
      /\ chains' = chains \cup Started(more)
      /\ total' = total + Cardinality(more)
      /\ loaded' = loaded + Cardinality(more \ Busy(more)) + 1
      /\ nzb' = nzb /\ next' = next /\ read' = read /\ clients' = clients /\ failures' = failures
      /\ lost' = lost
      /\ Settle(EntriesOf(f, dir), PartsOf(f, dir), rarFiles) /\ UsesState(more # {})
  BY DEF Filename
<1> HIDE DEF f, dir
<1>4. StartOK(i, more) /\ EntriesOK(EntriesOf(f, dir)) /\ SplitPartsOK(PartsOf(f, dir))
  BY <1>1, <1>2, StartInsertFileOK
<1> HIDE DEF more
<1>5. QED
  BY <1>3, <1>4 DEF FilenameDoes

LEMMA FilenameTypes ==
  ASSUME MounterTypes, DataTypes, NEW i \in File, Filename(i)
  PROVE  MounterTypes' /\ DataTypes'
<1>1. PICK more, entries, parts : FilenameDoes(i, more, entries, parts)
  BY FilenameSteps
<1>2. /\ StartOK(i, more) /\ EntriesOK(entries) /\ SplitPartsOK(parts)
      /\ names' = [names EXCEPT ![i] = "over"]
      /\ chains' = chains \cup Started(more)
      /\ total' = total + Cardinality(more)
      /\ loaded' = loaded + Cardinality(more \ Busy(more)) + 1
      /\ nzb' = nzb /\ next' = next /\ read' = read /\ clients' = clients /\ failures' = failures
      /\ lost' = lost
      /\ Settle(entries, parts, rarFiles) /\ UsesState(more # {})
  BY <1>1 DEF FilenameDoes
<1>3. /\ ContentOK(content') /\ SplitPartsOK(splitParts') /\ RarFilesOK(rarFiles')
      /\ gone' \in BOOLEAN /\ mountState' \in MountStates
  BY <1>2, SettleTypes DEF MounterTypes, DataTypes
<1>4. IsFiniteSet(more) /\ ChainsOK(Started(more))
  <2>1. StartOK(0, {}) /\ more \cup {} = more
    BY NothingOK
  <2>2. QED
    BY <1>2, <2>1, StartedOK DEF DataTypes
<1>5. ChainsOK(chains')
  <2>1. IsFiniteSet(chains \cup Started(more))
    BY <1>4, FS_Union DEF DataTypes, ChainsOK
  <2>2. QED
    BY <1>2, <1>4, <2>1 DEF DataTypes, ChainsOK
<1>6. total' \in Nat /\ loaded' \in Nat /\ total <= total'
  <2>1. IsFiniteSet(more \ Busy(more))
    BY <1>4, FS_Subset
  <2>2. Cardinality(more) \in Nat /\ Cardinality(more \ Busy(more)) \in Nat
    BY <1>4, <2>1, FS_CardinalityType
  <2>3. QED
    BY <1>2, <2>2 DEF MounterTypes
<1>7. late' \subseteq {"state", "mounter", "parted"}
  BY <1>2, UsesTypes DEF MounterTypes
<1>8. names' \in [File -> NameStates]' /\ (nzb \in NZBs /\ next \in 0 .. Len(nzb) + 2)'
  BY <1>2 DEF MounterTypes, File, NameStates
<1>9. (read \in Nat \cup {Nothing} /\ (read # Nothing => read <= total))'
  BY <1>2, <1>6 DEF MounterTypes, Nothing
<1>10. MounterTypes'
  BY <1>2, <1>3, <1>6, <1>7, <1>8, <1>9 DEF MounterTypes
<1>11. DataTypes'
  BY <1>3, <1>5 DEF DataTypes
<1>12. QED
  BY <1>10, <1>11

\* One read of a chain comes to another state, the other reads stay.
LEMMA ReadChanged ==
  ASSUME NEW c, ChainOK(c), NEW j \in DOMAIN c.reads, NEW s \in ReadStates
  PROVE  LET d == [c EXCEPT !.reads[j].state = s] IN
         /\ ChainOK(d) /\ d.id = c.id /\ DOMAIN d.reads = DOMAIN c.reads /\ d.reads[j].state = s
         /\ \A k \in DOMAIN c.reads : k # j => d.reads[k] = c.reads[k]
<1> DEFINE r == c.reads
           q == [r EXCEPT ![j].state = s]
           d == [c EXCEPT !.reads[j].state = s]
<1>1. c = [id |-> c.id, file |-> c.file, dir |-> c.dir, stage |-> c.stage, at |-> c.at, size |-> c.size,
           mark |-> c.mark, main |-> c.main, head |-> c.head, name |-> c.name,
           begin |-> c.begin, reads |-> r]
  BY DEF ChainOK, ChainBase, ChainFields
<1>2. r = [k \in DOMAIN r |-> r[k]] /\ \A k \in DOMAIN r : ReadOK(r[k])
  BY DEF ChainOK, ReadsOK
<1>3. d = [c EXCEPT !.reads = q]
  OBVIOUS
<1> HIDE DEF r
<1>4. /\ DOMAIN q = DOMAIN r /\ q = [k \in DOMAIN q |-> q[k]]
      /\ \A k \in DOMAIN r : k # j => q[k] = r[k]
      /\ q[j] = [r[j] EXCEPT !.state = s]
  BY <1>2 DEF r
<1>5. ReadOK(q[j]) /\ q[j].state = s
  <2>1. ReadOK(r[j])
    BY <1>2 DEF r
  <2>2. q[j] = [nzb |-> r[j].nzb, offset |-> r[j].offset, size |-> r[j].size, state |-> s]
    <3> HIDE DEF q
    <3>1. QED
      BY <1>4, <2>1 DEF ReadOK
  <2> HIDE DEF q
  <2>3. QED
    BY <2>2 DEF ReadOK
<1> HIDE DEF q, d
<1>6. d = [id |-> c.id, file |-> c.file, dir |-> c.dir, stage |-> c.stage, at |-> c.at, size |-> c.size,
           mark |-> c.mark, main |-> c.main, head |-> c.head, name |-> c.name,
           begin |-> c.begin, reads |-> q]
  BY <1>1, <1>3
<1>7. \A k \in DOMAIN q : ReadOK(q[k])
  BY <1>2, <1>4, <1>5
<1>8. ChainOK(d) /\ d.id = c.id /\ d.reads = q
  BY <1>4, <1>6, <1>7 DEF ChainOK, ChainBase, ChainFields, ReadsOK
<1>9. QED
  BY <1>4, <1>5, <1>8 DEF d, r

LEMMA ChainReplaced ==
  ASSUME ChainsOK(chains), NEW c, NEW d, ChainOK(d)
  PROVE  ChainsOK(chains \ {c}) /\ ChainsOK((chains \ {c}) \cup {d})
<1>1. IsFiniteSet(chains \ {c})
  BY FS_Subset DEF ChainsOK
<1>2. IsFiniteSet((chains \ {c}) \cup {d})
  BY <1>1, FS_Singleton, FS_Union
<1>3. QED
  BY <1>1, <1>2 DEF ChainsOK

LEMMA DataArrivesTypes ==
  ASSUME MounterTypes, DataTypes, NEW c \in chains, NEW j \in DOMAIN c.reads, DataArrives(c, j)
  PROVE  MounterTypes' /\ DataTypes'
<1> DEFINE d(s) == [c EXCEPT !.reads[j].state = s]
<1>1. ChainOK(c) /\ ChainsOK(chains)
  BY DEF DataTypes, ChainsOK
<1>2. ChainOK(d("arrived")) /\ ChainOK(d("failed"))
  BY <1>1, ReadChanged DEF ReadStates
<1>3. /\ chains' = (chains \ {c}) \cup {d("arrived")} \/ chains' = (chains \ {c}) \cup {d("failed")}
      /\ failures' \in 0 .. MaxFailures
  BY MaxFailuresAssumption DEF DataArrives, Succeeds, Fails, MounterTypes
<1>4. /\ nzb' = nzb /\ next' = next /\ read' = read /\ names' = names /\ rarFiles' = rarFiles
      /\ splitParts' = splitParts /\ content' = content /\ total' = total /\ loaded' = loaded
      /\ mountState' = mountState /\ gone' = gone /\ clients' = clients /\ lost' = lost /\ late' = late
  BY DEF DataArrives
<1> HIDE DEF d
<1>5. ChainsOK(chains')
  BY <1>1, <1>2, <1>3, ChainReplaced
<1>6. MounterTypes'
  BY <1>3, <1>4 DEF MounterTypes, File
<1>7. DataTypes'
  BY <1>4, <1>5 DEF DataTypes
<1>8. QED
  BY <1>6, <1>7

LEMMA FileReadRuns ==
  ASSUME DataTypes, NEW c \in chains, FileRead(c)
  PROVE  HandlerRuns(c.id, TRUE) /\ HasScope(c)
<1>1. ChainOK(c) /\ RarFilesOK(rarFiles)
  BY DEF DataTypes, ChainsOK
<1>2. ASSUME NEW fresh, Callback(c, fresh, TRUE) PROVE HandlerRuns(c.id, TRUE)
  BY <1>1, <1>2, CallbackRuns
<1>3. ASSUME Handled(c, TRUE, {}) PROVE HandlerRuns(c.id, TRUE)
  BY <1>1, <1>3, NothingOK, HandledRuns
<1>4. Callback(c, TRUE, TRUE) \/ Callback(c, FALSE, TRUE) \/ Handled(c, TRUE, {})
  BY DEF FileRead
<1>5. HasScope(c)
  BY DEF FileRead, IsReady, HasScope
<1>6. QED
  BY <1>2, <1>3, <1>4, <1>5

\* The handler of a part calls back, finds the mounter gone, or leaves the other
\* parts to be read.
PartCallsBack(c, j) == ~gone /\ (HasScope(c) <=> j = 1) /\ HandlerRuns(c.id, j = 1)

PartIsLate(c, j) ==
  /\ gone /\ (HasScope(c) <=> j = 1)
  /\ late' = late \cup {IF DOMAIN c.reads = {1} THEN "mounter" ELSE "parted"}
  /\ chains' = chains \ {c}
  /\ UNCHANGED <<nzb, next, read, names, rarFiles, splitParts, content, total, loaded,
                 mountState, gone, clients, failures, lost>>

PartIsOne(c, j) ==
  \E d, rest :
    /\ ChainOK(d) /\ d.id = c.id /\ (HasScope(d) <=> HasScope(c) /\ j # 1)
    /\ rest = {d} \/ (rest = {} /\ ~HasScope(d))
    /\ chains' = (chains \ {c}) \cup rest
    /\ loaded' = loaded + IF j = 1 THEN 1 ELSE 0
    /\ UNCHANGED <<nzb, next, read, names, total, clients, failures, lost>>
    /\ Settle({}, {}, rarFiles)
    /\ IF j = 1 THEN UsesState(FALSE) ELSE UNCHANGED late

LEMMA PartReadSteps ==
  ASSUME MounterTypes, DataTypes, NEW c \in chains, NEW j \in DOMAIN c.reads, PartRead(c, j)
  PROVE  /\ j = 1 => HasScope(c)
         /\ PartCallsBack(c, j) \/ PartIsLate(c, j) \/ PartIsOne(c, j)
<1> DEFINE s == IF c.reads[j].state = "arrived" THEN "read" ELSE "bad"
           d == [c EXCEPT !.reads[j].state = IF @ = "arrived" THEN "read" ELSE "bad"]
           done == \A k \in DOMAIN d.reads : d.reads[k].state \in {"read", "bad"}
           fresh == \A k \in DOMAIN d.reads : d.reads[k].state = "read"
           size == SumSeq([k \in DOMAIN d.reads |-> d.reads[k].size])
           hopeless == ~HasScope(d) /\ \E k \in DOMAIN d.reads : d.reads[k].state = "erased"
           rest == IF hopeless THEN {} ELSE {d}
<1>1. ChainOK(c) /\ RarFilesOK(rarFiles)
  BY DEF DataTypes, ChainsOK
<1>2. d = [c EXCEPT !.reads[j].state = s]
  OBVIOUS
<1>3. /\ c.file.nzb = 0 /\ IsReady(c, j)
      /\ \/ /\ done /\ gone
            /\ late' = late \cup {IF DOMAIN c.reads = {1} THEN "mounter" ELSE "parted"}
            /\ chains' = chains \ {c}
            /\ UNCHANGED <<nzb, next, read, names, rarFiles, splitParts, content, total, loaded,
                           mountState, gone, clients, failures, lost>>
         \/ /\ done /\ ~gone
            /\ IF size = c.size THEN Callback(c, fresh, j = 1) ELSE Handled(c, j = 1, {})
         \/ /\ ~done
            /\ chains' = (chains \ {c}) \cup rest
            /\ loaded' = loaded + IF j = 1 THEN 1 ELSE 0
            /\ UNCHANGED <<nzb, next, read, names, total, clients, failures, lost>>
            /\ Settle({}, {}, rarFiles)
            /\ IF j = 1 THEN UsesState(FALSE) ELSE UNCHANGED late
  BY DEF PartRead
<1> HIDE DEF d, done, fresh, size, hopeless
<1>4. s \in ReadStates /\ s \notin {"asked", "arrived", "failed", "junk"}
  BY DEF ReadStates
<1> HIDE DEF s
<1>5. /\ ChainOK(d) /\ d.id = c.id /\ DOMAIN d.reads = DOMAIN c.reads /\ d.reads[j].state = s
      /\ \A k \in DOMAIN c.reads : k # j => d.reads[k] = c.reads[k]
  BY <1>1, <1>2, <1>4, ReadChanged
<1>6. HasScope(d) <=> HasScope(c) /\ j # 1
  BY <1>4, <1>5 DEF HasScope
<1>7. j = 1 => HasScope(c)
  BY <1>3 DEF IsReady, HasScope
<1>8. done => (HasScope(c) <=> j = 1)
  BY <1>5, <1>7 DEF HasScope, done
<1>9. ASSUME done, ~gone, Callback(c, fresh, j = 1) PROVE PartCallsBack(c, j)
  <2>1. HandlerRuns(c.id, j = 1)
    BY <1>1, <1>9, CallbackRuns
  <2>2. QED
    BY <1>8, <1>9, <2>1, Zenon DEF PartCallsBack
<1>10. ASSUME done, ~gone, Handled(c, j = 1, {}) PROVE PartCallsBack(c, j)
  <2>1. HandlerRuns(c.id, j = 1)
    BY <1>1, <1>10, NothingOK, HandledRuns
  <2>2. QED
    BY <1>8, <1>10, <2>1, Zenon DEF PartCallsBack
<1>11. rest = {d} \/ (rest = {} /\ ~HasScope(d))
  BY DEF hopeless
<1> HIDE DEF rest
<1>12. ASSUME done, gone, PartRead(c, j) PROVE PartIsLate(c, j)
  BY <1>3, <1>8, <1>12, Zenon DEF PartIsLate
<1>13. ASSUME ~done PROVE PartIsOne(c, j)
  BY <1>3, <1>5, <1>6, <1>11, <1>13, Zenon DEF PartIsOne
<1>14. PartCallsBack(c, j) \/ PartIsLate(c, j) \/ PartIsOne(c, j)
  BY <1>3, <1>9, <1>10, <1>12, <1>13, Zenon
<1>15. QED
  BY <1>7, <1>14

LEMMA PartIsOneTypes ==
  ASSUME MounterTypes, DataTypes, NEW c \in chains, NEW j, PartIsOne(c, j)
  PROVE  MounterTypes' /\ DataTypes'
<1>1. PICK d, rest :
        /\ ChainOK(d) /\ (rest = {d} \/ rest = {})
        /\ chains' = (chains \ {c}) \cup rest
        /\ loaded' = loaded + IF j = 1 THEN 1 ELSE 0
        /\ UNCHANGED <<nzb, next, read, names, total, clients, failures, lost>>
        /\ Settle({}, {}, rarFiles)
        /\ IF j = 1 THEN UsesState(FALSE) ELSE UNCHANGED late
  BY DEF PartIsOne
<1>2. /\ ContentOK(content') /\ SplitPartsOK(splitParts') /\ RarFilesOK(rarFiles')
      /\ gone' \in BOOLEAN /\ mountState' \in MountStates
  BY <1>1, SettleNothing DEF MounterTypes
<1>3. late' \subseteq {"state", "mounter", "parted"}
  <2>1. UsesState(FALSE) \/ late' = late
    BY <1>1
  <2>2. QED
    BY <2>1, UsesTypes DEF MounterTypes
<1>4. ChainsOK(chains')
  <2>1. rest = {} \/ rest = {d}
    BY <1>1
  <2>2. ChainsOK(chains \ {c}) /\ ChainsOK((chains \ {c}) \cup {d})
    BY <1>1, ChainReplaced DEF DataTypes
  <2>3. chains' = chains \ {c} \/ chains' = (chains \ {c}) \cup {d}
    BY <1>1, <2>1
  <2>4. QED
    BY <2>2, <2>3
<1>5. loaded' \in Nat
  BY <1>1 DEF MounterTypes
<1>6. MounterTypes'
  BY <1>1, <1>2, <1>3, <1>5 DEF MounterTypes, File
<1>7. DataTypes'
  BY <1>2, <1>4 DEF DataTypes
<1>8. QED
  BY <1>6, <1>7

LEMMA PartReadTypes ==
  ASSUME MounterTypes, DataTypes, NEW c \in chains, NEW j \in DOMAIN c.reads, PartRead(c, j)
  PROVE  MounterTypes' /\ DataTypes'
<1>1. PartCallsBack(c, j) \/ PartIsLate(c, j) \/ PartIsOne(c, j)
  BY PartReadSteps
<1>2. ASSUME PartCallsBack(c, j) PROVE MounterTypes' /\ DataTypes'
  BY <1>2, HandlerTypes DEF PartCallsBack
<1>3. ASSUME PartIsLate(c, j) PROVE MounterTypes' /\ DataTypes'
  <2>1. ChainsOK(chains')
    <3>1. IsFiniteSet(chains \ {c})
      BY FS_Subset DEF DataTypes, ChainsOK
    <3>2. QED
      BY <1>3, <3>1 DEF PartIsLate, DataTypes, ChainsOK
  <2>2. late' \subseteq {"state", "mounter", "parted"}
    BY <1>3 DEF PartIsLate, MounterTypes
  <2>3. MounterTypes'
    BY <1>3, <2>2 DEF PartIsLate, MounterTypes, File
  <2>4. DataTypes'
    BY <1>3, <2>1 DEF PartIsLate, DataTypes
  <2>5. QED
    BY <2>3, <2>4
<1>4. ASSUME PartIsOne(c, j) PROVE MounterTypes' /\ DataTypes'
  BY <1>4, PartIsOneTypes
<1>5. QED
  BY <1>1, <1>2, <1>3, <1>4

\* The reads of a chain that wait are erased.
Erased(c) ==
  [c EXCEPT !.reads = [j \in DOMAIN @ |->
     IF @[j].state = "asked" THEN [@[j] EXCEPT !.state = "erased"] ELSE @[j]]]

LEMMA ErasedOK ==
  ASSUME NEW c, ChainOK(c)
  PROVE  ChainOK(Erased(c)) /\ Erased(c).id = c.id /\ (HasScope(Erased(c)) => HasScope(c) /\ c.reads[1].state # "asked")
<1> DEFINE r == c.reads
           q == [j \in DOMAIN r |->
                  IF r[j].state = "asked" THEN [r[j] EXCEPT !.state = "erased"] ELSE r[j]]
           d == Erased(c)
<1>1. c = [id |-> c.id, file |-> c.file, dir |-> c.dir, stage |-> c.stage, at |-> c.at, size |-> c.size,
           mark |-> c.mark, main |-> c.main, head |-> c.head, name |-> c.name,
           begin |-> c.begin, reads |-> r]
  BY DEF ChainOK, ChainBase, ChainFields
<1>2. \A k \in DOMAIN r : ReadOK(r[k])
  BY DEF ChainOK, ReadsOK
<1>3. d = [c EXCEPT !.reads = q]
  BY DEF Erased
<1> HIDE DEF r
<1>4. /\ DOMAIN q = DOMAIN r /\ q = [k \in DOMAIN q |-> q[k]]
      /\ \A k \in DOMAIN r : IF r[k].state = "asked" THEN q[k] = [r[k] EXCEPT !.state = "erased"]
                             ELSE q[k] = r[k]
  OBVIOUS
<1> HIDE DEF q, d
<1>5. \A k \in DOMAIN q : ReadOK(q[k]) /\ (r[k].state = "asked" => q[k].state = "erased")
  <2> SUFFICES ASSUME NEW k \in DOMAIN r
               PROVE  ReadOK(q[k]) /\ (r[k].state = "asked" => q[k].state = "erased")
    BY <1>4
  <2>1. ReadOK(r[k])
    BY <1>2
  <2>2. CASE r[k].state = "asked"
    <3>1. q[k] = [nzb |-> r[k].nzb, offset |-> r[k].offset, size |-> r[k].size, state |-> "erased"]
      BY <1>4, <2>1, <2>2 DEF ReadOK
    <3>2. QED
      BY <3>1 DEF ReadOK, ReadStates
  <2>3. CASE r[k].state # "asked"
    BY <1>4, <2>1, <2>3
  <2>4. QED
    BY <2>2, <2>3
<1>6. d = [id |-> c.id, file |-> c.file, dir |-> c.dir, stage |-> c.stage, at |-> c.at, size |-> c.size,
           mark |-> c.mark, main |-> c.main, head |-> c.head, name |-> c.name,
           begin |-> c.begin, reads |-> q]
  BY <1>1, <1>3
<1>7. ChainOK(d) /\ d.id = c.id /\ d.reads = q
  BY <1>4, <1>5, <1>6 DEF ChainOK, ChainBase, ChainFields, ReadsOK
<1>8. HasScope(d) => HasScope(c) /\ c.reads[1].state # "asked"
  <2>1. ASSUME HasScope(d) PROVE 1 \in DOMAIN r /\ q[1].state # "erased" /\ q[1].state \in {"asked", "arrived", "failed", "junk"}
    BY <1>4, <1>7, <2>1 DEF HasScope
  <2>2. ASSUME HasScope(d) PROVE r[1].state # "asked" /\ q[1] = r[1]
    BY <1>4, <1>5, <2>1, <2>2
  <2>3. QED
    BY <2>1, <2>2 DEF HasScope, r
<1>9. QED
  BY <1>7, <1>8 DEF d

\* The requests for names, and the scopes, that a Cancel takes.
Asked == {i \in File : names[i] = "asked"}
Unscoped == {c \in chains : HasScope(c) /\ ~HasScope(Erased(c))}

CancelDoes ==
  /\ names' = [i \in File |-> IF names[i] = "asked" THEN "over" ELSE names[i]]
  /\ chains' \subseteq {Erased(c) : c \in chains}
  /\ \A c \in chains : HasScope(Erased(c)) => Erased(c) \in chains'
  /\ Cardinality(Unscoped) \in Nat /\ Cardinality(Asked) \in Nat
  /\ loaded' = loaded + Cardinality(Unscoped) + Cardinality(Asked)
  /\ UNCHANGED <<nzb, next, read, total, failures, lost, late>>
  /\ Settle({}, {}, rarFiles)

LEMMA CancelSteps ==
  ASSUME MounterTypes, DataTypes, Cancel
  PROVE  CancelDoes
<1> DEFINE Stays(c) == HasScope(c) \/ \A j \in DOMAIN c.reads : c.reads[j].state # "erased"
<1>1. /\ names' = [i \in File |-> IF names[i] = "asked" THEN "over" ELSE names[i]]
      /\ chains' = {c \in {Erased(d) : d \in chains} : Stays(c)}
      /\ loaded' = loaded + Cardinality(Unscoped) + Cardinality(Asked)
      /\ UNCHANGED <<nzb, next, read, total, failures, lost, late>>
      /\ Settle({}, {}, rarFiles)
  BY Zenon DEF Cancel, Erased, Unscoped, Asked
<1>2. Cardinality(Unscoped) \in Nat /\ Cardinality(Asked) \in Nat
  <2>1. IsFiniteSet(Unscoped)
    BY FS_Subset DEF DataTypes, ChainsOK, Unscoped
  <2>2. IsFiniteSet(Asked)
    BY FileFacts, FS_Subset DEF MounterTypes, Asked
  <2>3. QED
    BY <2>1, <2>2, FS_CardinalityType
<1>3. /\ chains' \subseteq {Erased(c) : c \in chains}
      /\ \A c \in chains : HasScope(Erased(c)) => Erased(c) \in chains'
  BY <1>1
<1>4. QED
  BY <1>1, <1>2, <1>3, Zenon DEF CancelDoes

LEMMA CancelTypes ==
  ASSUME MounterTypes, DataTypes, CancelDoes, clients' \in ClientStates
  PROVE  MounterTypes' /\ DataTypes'
<1>1. /\ ContentOK(content') /\ SplitPartsOK(splitParts') /\ RarFilesOK(rarFiles')
      /\ gone' \in BOOLEAN /\ mountState' \in MountStates
  BY SettleNothing DEF MounterTypes, CancelDoes
<1>2. ChainsOK(chains')
  <2>1. IsFiniteSet({Erased(c) : c \in chains})
    <3> DEFINE erased == [c \in chains |-> Erased(c)]
    <3>1. DOMAIN erased = chains /\ \A c \in chains : erased[c] = Erased(c)
      OBVIOUS
    <3> HIDE DEF erased
    <3>2. IsFiniteSet({erased[c] : c \in chains})
      BY <3>1, FiniteImage DEF DataTypes, ChainsOK
    <3>3. QED
      BY <3>1, <3>2
  <2>2. IsFiniteSet(chains')
    BY <2>1, FS_Subset DEF CancelDoes
  <2>3. \A d \in chains' : ChainOK(d)
    BY ErasedOK DEF CancelDoes, DataTypes, ChainsOK
  <2>4. QED
    BY <2>2, <2>3 DEF ChainsOK
<1>3. names' \in [File -> NameStates]
  BY DEF CancelDoes, MounterTypes, NameStates
<1>4. (names \in [File -> NameStates])'
  BY <1>3 DEF CancelDoes, File
<1>5. loaded' \in Nat
  BY DEF CancelDoes, MounterTypes
<1>6. MounterTypes'
  BY <1>1, <1>4, <1>5 DEF CancelDoes, MounterTypes
<1>7. DataTypes'
  BY <1>1, <1>2 DEF DataTypes
<1>8. QED
  BY <1>6, <1>7

-----------------------------------------------------------------------------
(* The steps of the drive keep the types.                                  *)

LEMMA SubtreeOK ==
  ASSUME NEW tree, ContentOK(tree), NEW rest \in SUBSET tree
  PROVE  ContentOK(rest)
BY Zenon DEF ContentOK

LEMMA UnchangedTypes ==
  ASSUME MounterTypes, DataTypes, UNCHANGED mounterVars, UNCHANGED clients
  PROVE  MounterTypes' /\ DataTypes'
BY DEF MounterTypes, DataTypes, mounterVars, File

LEMMA StartTypes == TypeInv /\ Start => TypeInv'
<1> SUFFICES ASSUME TypeInv, Start PROVE TypeInv'
  OBVIOUS
<1>1. MounterTypes'
  BY DEF TypeInv, MounterTypes, Start, File, ClientStates
<1>2. DataTypes'
  BY DEF TypeInv, DataTypes, Start
<1>3. DriveTypes'
  BY DriveAssumption DEF TypeInv, DriveTypes, Start, StartFuse
<1>4. QED
  BY <1>1, <1>2, <1>3 DEF TypeInv

LEMMA MountEntersTypes == TypeInv /\ MountEnters => TypeInv'
<1> SUFFICES ASSUME TypeInv, MountEnters PROVE TypeInv'
  OBVIOUS
<1>1. (nzb \in NZBs /\ next \in 0 .. Len(nzb) + 2)'
  BY FileFacts DEF TypeInv, MounterTypes, MountEnters
<1>2. MounterTypes'
  BY <1>1 DEF TypeInv, MounterTypes, MountEnters, File, MountStates
<1>3. DataTypes'
  BY DEF TypeInv, DataTypes, MountEnters
<1>4. DriveTypes'
  BY DEF TypeInv, DriveTypes, MountEnters
<1>5. QED
  BY <1>2, <1>3, <1>4 DEF TypeInv

LEMMA DriveUnchanged ==
  ASSUME DriveTypes, UNCHANGED driveVars
  PROVE  DriveTypes'
BY DEF DriveTypes, driveVars

LEMMA MountStepTypes == TypeInv /\ MountStep => TypeInv'
<1> SUFFICES ASSUME TypeInv, MountStep PROVE TypeInv'
  OBVIOUS
<1>1. MounterTypes' /\ DataTypes'
  BY ReadTotalTypes, AsyncGetFilenameTypes, MountReturnsTypes DEF TypeInv, MountStep
<1>2. DriveTypes'
  BY DriveUnchanged DEF TypeInv, MountStep
<1>3. QED
  BY <1>1, <1>2 DEF TypeInv

LEMMA UnmountCancelsTypes == TypeInv /\ UnmountCancels => TypeInv'
<1> SUFFICES ASSUME TypeInv, UnmountCancels PROVE TypeInv'
  OBVIOUS
<1>1. /\ unmount' = "canceled"
      /\ raced' = (mountState = "Mounting" /\ (Ready \/ next <= Len(nzb) + 1))
      /\ Cancel \/ UNCHANGED mounterVars
      /\ clients' = clients
      /\ UNCHANGED <<state, starts, ioStopped, mount, stop, fuse, reading>>
  BY DEF UnmountCancels
<1>2. MounterTypes' /\ DataTypes'
  <2>1. CASE Cancel
    BY <1>1, <2>1, CancelSteps, CancelTypes DEF TypeInv, MounterTypes
  <2>2. CASE UNCHANGED mounterVars
    BY <1>1, <2>2, UnchangedTypes DEF TypeInv
  <2>3. QED
    BY <1>1, <2>1, <2>2
<1>3. raced' \in BOOLEAN
  BY <1>1
<1>4. DriveTypes'
  BY <1>1, <1>3 DEF TypeInv, DriveTypes
<1>5. QED
  BY <1>2, <1>4 DEF TypeInv

LEMMA UnmountErasesTypes == TypeInv /\ UnmountErases => TypeInv'
<1> SUFFICES ASSUME TypeInv, UnmountErases PROVE TypeInv'
  OBVIOUS
<1>1. content' \in SUBSET content
  <2>1. Unmount(content, <<MountDir>>) \subseteq content
    BY DEF Unmount
  <2>2. QED
    BY <2>1 DEF UnmountErases
<1>2. ContentOK(content')
  BY <1>1, SubtreeOK DEF TypeInv, DataTypes
<1>3. MounterTypes'
  BY DEF TypeInv, MounterTypes, UnmountErases, File, MountStates
<1>4. DataTypes'
  BY <1>2 DEF TypeInv, DataTypes, UnmountErases
<1>5. DriveTypes'
  BY DEF TypeInv, DriveTypes, UnmountErases
<1>6. QED
  BY <1>3, <1>4, <1>5 DEF TypeInv

LEMMA StopStepTypes == TypeInv /\ StopStep => TypeInv'
<1> SUFFICES ASSUME TypeInv, StopStep PROVE TypeInv'
  OBVIOUS
<1>1. CASE StopCancels
  <2>1. /\ stop' = "clients" /\ state' = "stopping" /\ clients' \in {"stopping", "restarting"}
        /\ Cancel \/ UNCHANGED mounterVars
        /\ UNCHANGED <<starts, ioStopped, mount, unmount, fuse, reading, raced>>
    BY <1>1 DEF StopCancels
  <2>2. CASE Cancel
    <3>1. MounterTypes' /\ DataTypes'
      BY <2>1, <2>2, CancelSteps, CancelTypes DEF TypeInv, ClientStates
    <3>2. DriveTypes'
      BY <2>1 DEF TypeInv, DriveTypes
    <3>3. QED
      BY <3>1, <3>2 DEF TypeInv
  <2>3. CASE UNCHANGED mounterVars
    <3>1. MounterTypes' /\ DataTypes'
      BY <2>1, <2>3 DEF TypeInv, MounterTypes, DataTypes, mounterVars, File, ClientStates
    <3>2. DriveTypes'
      BY <2>1 DEF TypeInv, DriveTypes
    <3>3. QED
      BY <3>1, <3>2 DEF TypeInv
  <2>4. QED
    BY <2>1, <2>2, <2>3
<1>2. CASE StopClears
  <2>1. ContentOK({})
    BY DEF ContentOK
  <2>2. MounterTypes'
    BY <1>2 DEF TypeInv, MounterTypes, StopClears, File
  <2>3. DataTypes'
    BY <1>2, <2>1 DEF TypeInv, DataTypes, StopClears
  <2>4. DriveTypes'
    BY <1>2 DEF TypeInv, DriveTypes, StopClears
  <2>5. QED
    BY <2>2, <2>3, <2>4 DEF TypeInv
<1>3. CASE StopJoins
  <2>1. MounterTypes' /\ DataTypes'
    BY <1>3, UnchangedTypes DEF TypeInv, StopJoins
  <2>2. DriveTypes'
    BY <1>3 DEF TypeInv, DriveTypes, StopJoins
  <2>3. QED
    BY <2>1, <2>2 DEF TypeInv
<1>4. QED
  BY <1>1, <1>2, <1>3 DEF StopStep

\* The steps of the drive that leave the mounter alone.
LEMMA QuietTypes ==
  ASSUME TypeInv, MountChecks \/ StopFuse \/ FuseReads \/ FuseReadEnds \/ FuseLeaves
  PROVE  TypeInv'
<1>1. UNCHANGED mounterVars /\ UNCHANGED clients
  BY Zenon DEF MountChecks, StopFuse, FuseReads, FuseReadEnds, FuseLeaves
<1>2. MounterTypes' /\ DataTypes'
  BY <1>1, UnchangedTypes DEF TypeInv
<1>3. DriveTypes'
  BY DEF TypeInv, DriveTypes, MountChecks, StopFuse, FuseReads, FuseReadEnds, FuseLeaves
<1>4. QED
  BY <1>2, <1>3 DEF TypeInv

LEMMA ClientsStopTypes == TypeInv /\ ClientsStop => TypeInv'
<1> SUFFICES ASSUME TypeInv, ClientsStop PROVE TypeInv'
  OBVIOUS
<1>1. MounterTypes'
  BY DEF TypeInv, MounterTypes, ClientsStop, File, ClientStates
<1>2. DataTypes'
  BY DEF TypeInv, DataTypes, ClientsStop
<1>3. DriveTypes'
  BY DriveUnchanged DEF TypeInv, ClientsStop
<1>4. QED
  BY <1>1, <1>2, <1>3 DEF TypeInv

LEMMA IoTypes == TypeInv /\ (Arrival \/ IoHandler) => TypeInv'
<1> SUFFICES ASSUME TypeInv, Arrival \/ IoHandler PROVE TypeInv'
  OBVIOUS
<1>1. /\ UNCHANGED driveVars
      /\ \/ \E i \in File : NameArrives(i) \/ Filename(i)
         \/ \E c \in chains : \E j \in DOMAIN c.reads : DataArrives(c, j) \/ PartRead(c, j)
         \/ \E c \in chains : FileRead(c)
  BY Zenon DEF Arrival, IoHandler
<1>2. DriveTypes'
  BY <1>1, DriveUnchanged DEF TypeInv
<1>3. MounterTypes' /\ DataTypes'
  <2>1. CASE \E i \in File : NameArrives(i) \/ Filename(i)
    BY <2>1, NameArrivesTypes, FilenameTypes DEF TypeInv
  <2>2. CASE \E c \in chains : \E j \in DOMAIN c.reads : DataArrives(c, j) \/ PartRead(c, j)
    BY <2>2, DataArrivesTypes, PartReadTypes DEF TypeInv
  <2>3. CASE \E c \in chains : FileRead(c)
    BY <2>3, FileReadRuns, HandlerTypes DEF TypeInv
  <2>4. QED
    BY <1>1, <2>1, <2>2, <2>3
<1>4. QED
  BY <1>2, <1>3 DEF TypeInv

LEMMA TypeNext == TypeInv /\ [Next]_vars => TypeInv'
<1> SUFFICES ASSUME TypeInv, [Next]_vars PROVE TypeInv'
  OBVIOUS
<1>1. CASE UNCHANGED vars
  <2>1. UNCHANGED mounterVars /\ UNCHANGED clients /\ UNCHANGED driveVars
    BY <1>1 DEF vars
  <2>2. QED
    BY <2>1, UnchangedTypes, DriveUnchanged DEF TypeInv
<1>2. CASE Next
  BY <1>2, StartTypes, MountEntersTypes, MountStepTypes, UnmountCancelsTypes, UnmountErasesTypes,
     StopStepTypes, QuietTypes, ClientsStopTypes, IoTypes, Zenon DEF Next
<1>3. QED
  BY <1>1, <1>2

\* What the callers and the io thread pass on stays what it should be.
THEOREM TypesAlways == Spec => []TypeInv
BY TypeInit, TypeNext, PTL DEF Spec

\* The drive keeps its types; in particular a RARFile that waits for parts is
\* never one that is complete, unless it has no data (RARFile.cpp:60-76).
THEOREM TypeCorrect == Spec => []TypeOKDrive
BY TypesAlways, TypesSuffice, PTL

-----------------------------------------------------------------------------
(* What is in several volumes.                                             *)

\* A file of the tree that has bytes has all its parts from the beginning to the end,
\* each in the volume with its number, for any archives, in whatever order their
\* volumes arrive, however often, and whatever fails (MultipartFile::SetFilePart).
THEOREM VolumesInOrderAlways == Spec => []VolumesInOrder
<1>1. TypeInv => VolumesInOrder
  <2> SUFFICES ASSUME TypeInv, NEW e \in content, e.file.nzb = 0, e.file.size # 0
               PROVE  LET numbers == DOMAIN e.file.parts IN
                      /\ numbers = Min(numbers) .. Max(numbers)
                      /\ e.file.parts[Min(numbers)].bof /\ e.file.parts[Max(numbers)].eof
                      /\ \A k \in numbers :
                           LET volume == e.file.parts[k].file.name IN
                           IsRARName(volume) =>
                             RARPart(volume) = k /\ e.path[Len(e.path) - 1] = NoExt(volume.base)
    BY DEF VolumesInOrder
  <2>1. EntryOK(e)
    BY DEF TypeInv, DataTypes, ContentOK
  <2>2. AllThere(e.file) /\ InVolumes(e.file, e.path[Len(e.path) - 1])
    BY <2>1 DEF EntryOK, FileOK
  <2>3. QED
    BY <2>2 DEF AllThere, Ended, InVolumes
<1>2. QED
  BY <1>1, TypesAlways, PTL

-----------------------------------------------------------------------------
(* Who uses the mounter and its state.                                     *)

\* The mounter is destroyed when nobody holds it any more; a mount that is over
\* has no mounter; and an Unmount that did not find the loop of Mount or a posted
\* handler going has destroyed it.
Unheld == gone => ~IsHeld(next, names, chains)
NotEntered == mount # "in" => next = 0 /\ mountState = "none" /\ unmount = "no"
NotCalled == next = 0 => chains = {} /\ \A i \in File : names[i] = "none"
Unmounts ==
  /\ mountState = "erased" => unmount = "done"
  /\ unmount = "no" => ~raced
  /\ unmount # "no" /\ ~raced => gone

LifeInv ==
  Unheld /\ NotEntered /\ NotCalled /\ Unmounts /\ (mountState = "Mounted" => gone) /\ NoLateUse

LEMMA LifeInit == Init => LifeInv
<1> SUFFICES ASSUME Init PROVE LifeInv
  OBVIOUS
<1>1. gone = FALSE /\ raced = FALSE
  BY Zenon DEF Init, MounterInit
<1>2. /\ next = 0 /\ mountState = "none" /\ unmount = "no" /\ chains = {} /\ late = {}
      /\ names = [i \in File |-> "none"]
  BY Zenon DEF Init, MounterInit
<1>3. QED
  BY <1>1, <1>2 DEF LifeInv, Unheld, NotEntered, NotCalled, Unmounts, NoLateUse

LEMMA HeldThen ==
  ASSUME nzb' = nzb
  PROVE  IsHeld(next, names, chains)' <=> IsHeld(next', names', chains')
BY DEF IsHeld, File

\* A step of Mount or of the io thread that ends with Settle.
LEMMA SettleLife ==
  ASSUME LifeInv, nzb' = nzb, UNCHANGED <<mount, unmount, raced>>, next # 0, next' # 0,
         gone \in BOOLEAN, gone => ~IsHeld(next', names', chains'),
         NEW entries, NEW parts, NEW rars, Settle(entries, parts, rars),
         late' = late \/ (~gone /\ \E connects : UsesState(connects))
  PROVE  LifeInv'
<1> DEFINE over == ~gone /\ ~IsHeld(next', names', chains')
<1>1. /\ gone' = (gone \/ over)
      /\ mountState' = "Mounted" => over \/ mountState = "Mounted"
      /\ mountState' = "erased" => mountState = "erased"
  BY DEF Settle
<1>2. Unheld'
  <2>1. gone' => ~IsHeld(next', names', chains')
    BY <1>1
  <2>2. QED
    BY <2>1, HeldThen, Zenon DEF Unheld
<1> HIDE DEF over
<1>3. NotEntered' /\ NotCalled'
  BY DEF LifeInv, NotEntered, NotCalled
<1>4. Unmounts'
  BY <1>1 DEF LifeInv, Unmounts
<1>5. mountState' = "Mounted" => gone'
  BY <1>1 DEF LifeInv
<1>6. NoLateUse'
  <2>1. CASE late' = late
    BY <2>1 DEF LifeInv, NoLateUse
  <2>2. CASE ~gone /\ \E connects : UsesState(connects)
    <3>1. late' \subseteq late \cup (IF mountState = "erased" THEN {"state"} ELSE {})
      BY <2>2 DEF UsesState
    <3>2. mountState = "erased" => raced
      BY <2>2 DEF LifeInv, Unmounts
    <3>3. QED
      BY <3>1, <3>2 DEF LifeInv, NoLateUse
  <2>3. QED
    BY <2>1, <2>2
<1>7. QED
  BY <1>2, <1>3, <1>4, <1>5, <1>6 DEF LifeInv

\* A step that leaves the mounter and the state of the mount as they are.
LEMMA SameLife ==
  ASSUME LifeInv, UNCHANGED <<nzb, next, mountState, gone, late, mount, unmount, raced>>, next # 0,
         IsHeld(next', names', chains') => IsHeld(next, names, chains)
  PROVE  LifeInv'
<1>1. Unheld'
  BY HeldThen, Zenon DEF LifeInv, Unheld
<1>2. NotEntered' /\ NotCalled' /\ Unmounts'
  BY DEF LifeInv, NotEntered, NotCalled, Unmounts
<1>3. NoLateUse' /\ (mountState' = "Mounted" => gone')
  BY DEF LifeInv, NoLateUse
<1>4. QED
  BY <1>1, <1>2, <1>3 DEF LifeInv

LEMMA HeldByLoop ==
  ASSUME MounterTypes, LifeInv, next \in File \/ next = Len(nzb) + 1
  PROVE  ~gone /\ next # 0 /\ next + 1 # 0
<1>1. next \in 0 .. Len(nzb) + 1 /\ next # 0 /\ next + 1 # 0
  BY FileFacts DEF MounterTypes
<1>2. IsHeld(next, names, chains)
  BY <1>1, Zenon DEF IsHeld
<1>3. ~gone
  BY <1>2, Zenon DEF LifeInv, Unheld
<1>4. QED
  BY <1>1, <1>3

LEMMA HeldByName ==
  ASSUME MounterTypes, LifeInv, NEW i \in File, names[i] \in {"asked", "named", "unnamed"}
  PROVE  ~gone /\ next # 0
<1>1. IsHeld(next, names, chains)
  BY Zenon DEF IsHeld
<1>2. ~gone
  BY <1>1, Zenon DEF LifeInv, Unheld
<1>3. next # 0
  BY DEF LifeInv, NotCalled
<1>4. QED
  BY <1>2, <1>3

LEMMA HeldByChain ==
  ASSUME LifeInv, NEW c \in chains
  PROVE  next # 0 /\ (HasScope(c) => ~gone)
<1>1. HasScope(c) => IsHeld(next, names, chains)
  BY Zenon DEF IsHeld
<1>2. HasScope(c) => ~gone
  BY <1>1, Zenon DEF LifeInv, Unheld
<1>3. next # 0
  BY DEF LifeInv, NotCalled
<1>4. QED
  BY <1>2, <1>3

LEMMA MountStepLife == TypeInv /\ LifeInv /\ MountStep => LifeInv'
<1> SUFFICES ASSUME TypeInv, LifeInv, MountStep PROVE LifeInv'
  OBVIOUS
<1>1. MounterTypes /\ UNCHANGED <<mount, unmount, raced>> /\ gone \in BOOLEAN
  BY DEF TypeInv, MounterTypes, MountStep, driveVars
<1>2. CASE ReadTotal
  <2>1. next # 0
    BY <1>1, <1>2, HeldByLoop DEF ReadTotal
  <2>2. UNCHANGED <<nzb, next, names, chains, mountState, gone, late>>
    BY <1>2 DEF ReadTotal
  <2>3. QED
    BY <1>1, <2>1, <2>2, SameLife
<1>3. CASE AsyncGetFilename
  <2>1. ~gone /\ next # 0 /\ next + 1 # 0
    BY <1>1, <1>3, HeldByLoop DEF AsyncGetFilename
  <2>2. nzb' = nzb /\ next' = next + 1 /\ Settle({}, {}, rarFiles) /\ UsesState(TRUE)
    BY <1>3 DEF AsyncGetFilename
  <2>3. QED
    BY <1>1, <2>1, <2>2, SettleLife
<1>4. CASE MountReturns
  <2>1. ~gone /\ next # 0 /\ next + 1 # 0
    BY <1>1, <1>4, HeldByLoop DEF MountReturns
  <2>2. nzb' = nzb /\ next' = next + 1 /\ Settle({}, {}, rarFiles) /\ UsesState(FALSE)
    BY <1>4 DEF MountReturns
  <2>3. QED
    BY <1>1, <2>1, <2>2, SettleLife
<1>5. QED
  BY <1>2, <1>3, <1>4 DEF MountStep

LEMMA NameArrivesLife ==
  ASSUME TypeInv, LifeInv, UNCHANGED driveVars, NEW i \in File, NameArrives(i)
  PROVE  LifeInv'
<1>1. /\ names[i] = "asked"
      /\ UNCHANGED <<nzb, next, chains, mountState, gone, late, mount, unmount, raced>>
  BY DEF NameArrives, driveVars
<1>2. next # 0 /\ IsHeld(next, names, chains)
  <2>1. next # 0
    BY <1>1, HeldByName DEF TypeInv
  <2>2. IsHeld(next, names, chains)
    BY <1>1 DEF IsHeld
  <2>3. QED
    BY <2>1, <2>2
<1>3. QED
  BY <1>1, <1>2, SameLife

LEMMA FilenameLife ==
  ASSUME TypeInv, LifeInv, UNCHANGED driveVars, NEW i \in File, Filename(i)
  PROVE  LifeInv'
<1>1. MounterTypes /\ UNCHANGED <<mount, unmount, raced>> /\ gone \in BOOLEAN
  BY DEF TypeInv, MounterTypes, driveVars
<1>2. PICK more, entries, parts : FilenameDoes(i, more, entries, parts)
  BY <1>1, FilenameSteps
<1>3. /\ names[i] \in {"named", "unnamed"} /\ nzb' = nzb /\ next' = next
      /\ Settle(entries, parts, rarFiles) /\ UsesState(more # {})
  BY <1>2 DEF FilenameDoes
<1>4. ~gone /\ next # 0
  BY <1>1, <1>3, HeldByName
<1>5. QED
  BY <1>1, <1>3, <1>4, SettleLife

LEMMA DataArrivesLife ==
  ASSUME TypeInv, LifeInv, UNCHANGED driveVars,
         NEW c \in chains, NEW j \in DOMAIN c.reads, DataArrives(c, j)
  PROVE  LifeInv'
<1> DEFINE d(s) == [c EXCEPT !.reads[j].state = s]
<1>1. /\ c.reads[j].state = "asked"
      /\ chains' = (chains \ {c}) \cup {d("arrived")} \/ chains' = (chains \ {c}) \cup {d("failed")}
      /\ UNCHANGED <<nzb, next, names, mountState, gone, late, mount, unmount, raced>>
  BY DEF DataArrives, driveVars
<1>2. ChainOK(c)
  BY DEF TypeInv, DataTypes, ChainsOK
<1>3. \A s \in {"arrived", "failed"} : HasScope(d(s)) => HasScope(c)
  <2> SUFFICES ASSUME NEW s \in {"arrived", "failed"}, HasScope(d(s)) PROVE HasScope(c)
    OBVIOUS
  <2>1. /\ DOMAIN d(s).reads = DOMAIN c.reads
        /\ \A k \in DOMAIN c.reads : k # j => d(s).reads[k] = c.reads[k]
    BY <1>2, ReadChanged DEF ReadStates
  <2> HIDE DEF d
  <2>2. QED
    BY <1>1, <2>1 DEF HasScope
<1> HIDE DEF d
<1>4. \A e \in chains' : HasScope(e) => \E b \in chains : HasScope(b)
  BY <1>1, <1>3
<1>5. IsHeld(next', names', chains') => IsHeld(next, names, chains)
  BY <1>1, <1>4, Zenon DEF IsHeld
<1>6. QED
  BY <1>1, <1>5, HeldByChain, SameLife

LEMMA HandlerLife ==
  ASSUME TypeInv, LifeInv, UNCHANGED driveVars, ~gone, next # 0, NEW id, NEW scope, HandlerRuns(id, scope)
  PROVE  LifeInv'
<1>1. PICK d, on, new, entries, parts, rars : Handler(d, scope, on \cup new, entries, parts, rars)
  BY DEF HandlerRuns
<1>2. /\ nzb' = nzb /\ next' = next /\ UNCHANGED <<mount, unmount, raced>>
      /\ Settle(entries, parts, rars) /\ UsesState(on \cup new # {})
  BY <1>1 DEF Handler, driveVars
<1>3. gone \in BOOLEAN
  BY DEF TypeInv, MounterTypes
<1>4. QED
  BY <1>2, <1>3, SettleLife

LEMMA PartReadLife ==
  ASSUME TypeInv, LifeInv, UNCHANGED driveVars,
         NEW c \in chains, NEW j \in DOMAIN c.reads, PartRead(c, j)
  PROVE  LifeInv'
<1>1. /\ MounterTypes /\ DataTypes /\ UNCHANGED <<mount, unmount, raced>> /\ gone \in BOOLEAN
      /\ next # 0 /\ (HasScope(c) => ~gone)
  BY HeldByChain DEF TypeInv, MounterTypes, driveVars
<1>2. /\ j = 1 => HasScope(c)
      /\ PartCallsBack(c, j) \/ PartIsLate(c, j) \/ PartIsOne(c, j)
  BY <1>1, PartReadSteps
<1>3. ASSUME PartCallsBack(c, j) PROVE LifeInv'
  BY <1>1, <1>3, HandlerLife DEF PartCallsBack
<1>4. ASSUME PartIsLate(c, j) PROVE LifeInv'
  <2>1. /\ gone /\ chains' = chains \ {c}
        /\ UNCHANGED <<nzb, next, names, mountState, gone, mount, unmount, raced>>
        /\ late' = late \cup {IF DOMAIN c.reads = {1} THEN "mounter" ELSE "parted"}
    BY <1>1, <1>4 DEF PartIsLate
  <2>2. j # 1 /\ DOMAIN c.reads # {1}
    BY <1>1, <1>2, <2>1
  <2>3. Unheld'
    <3>1. IsHeld(next', names', chains') => IsHeld(next, names, chains)
      BY <2>1, Zenon DEF IsHeld
    <3>2. QED
      BY <2>1, <3>1, HeldThen, Zenon DEF LifeInv, Unheld
  <2>4. NotEntered' /\ NotCalled' /\ Unmounts' /\ (mountState' = "Mounted" => gone')
    BY <1>1, <2>1 DEF LifeInv, NotEntered, NotCalled, Unmounts
  <2>5. NoLateUse'
    BY <2>1, <2>2 DEF LifeInv, NoLateUse
  <2>6. QED
    BY <2>3, <2>4, <2>5 DEF LifeInv
<1>5. ASSUME PartIsOne(c, j) PROVE LifeInv'
  <2>1. PICK d, rest :
          /\ (HasScope(d) => HasScope(c)) /\ (rest = {d} \/ rest = {})
          /\ chains' = (chains \ {c}) \cup rest
          /\ nzb' = nzb /\ next' = next /\ names' = names
          /\ Settle({}, {}, rarFiles)
          /\ IF j = 1 THEN UsesState(FALSE) ELSE UNCHANGED late
    BY <1>5 DEF PartIsOne
  <2>2. gone => ~IsHeld(next', names', chains')
    <3>1. \A e \in chains' : HasScope(e) => \E b \in chains : HasScope(b)
      BY <2>1
    <3>2. IsHeld(next', names', chains') => IsHeld(next, names, chains)
      BY <2>1, <3>1, Zenon DEF IsHeld
    <3>3. QED
      BY <3>2, Zenon DEF LifeInv, Unheld
  <2>3. late' = late \/ (~gone /\ \E connects : UsesState(connects))
    BY <1>1, <1>2, <2>1
  <2>4. QED
    BY <1>1, <2>1, <2>2, <2>3, SettleLife
<1>6. QED
  BY <1>2, <1>3, <1>4, <1>5

LEMMA IoLife == TypeInv /\ LifeInv /\ (Arrival \/ IoHandler) => LifeInv'
<1> SUFFICES ASSUME TypeInv, LifeInv, Arrival \/ IoHandler PROVE LifeInv'
  OBVIOUS
<1>1. /\ UNCHANGED driveVars
      /\ \/ \E i \in File : NameArrives(i) \/ Filename(i)
         \/ \E c \in chains : \E j \in DOMAIN c.reads : DataArrives(c, j) \/ PartRead(c, j)
         \/ \E c \in chains : FileRead(c)
  BY Zenon DEF Arrival, IoHandler
<1>2. CASE \E i \in File : NameArrives(i) \/ Filename(i)
  BY <1>1, <1>2, NameArrivesLife, FilenameLife
<1>3. CASE \E c \in chains : \E j \in DOMAIN c.reads : DataArrives(c, j) \/ PartRead(c, j)
  <2>1. PICK c \in chains : \E j \in DOMAIN c.reads : DataArrives(c, j) \/ PartRead(c, j)
    BY <1>3
  <2>2. PICK j \in DOMAIN c.reads : DataArrives(c, j) \/ PartRead(c, j)
    BY <2>1
  <2>3. QED
    BY <1>1, <2>2, DataArrivesLife, PartReadLife
<1>4. CASE \E c \in chains : FileRead(c)
  BY <1>1, <1>4, FileReadRuns, HeldByChain, HandlerLife DEF TypeInv
<1>5. QED
  BY <1>1, <1>2, <1>3, <1>4

\* The steps of the drive that leave the mounter alone.
LEMMA QuietLife ==
  ASSUME LifeInv,
         Start \/ MountChecks \/ UnmountErases \/ StopFuse \/ StopClears \/ StopJoins \/ ClientsStop
           \/ FuseReads \/ FuseReadEnds \/ FuseLeaves
  PROVE  LifeInv'
<1>1. CASE UnmountErases
  <2>1. /\ unmount = "canceled" /\ unmount' = "done" /\ mountState' = "erased"
        /\ UNCHANGED <<nzb, next, names, chains, gone, late, mount, raced>>
    BY <1>1 DEF UnmountErases
  <2>2. Unheld'
    BY <2>1, HeldThen, Zenon DEF LifeInv, Unheld
  <2>3. NotEntered' /\ NotCalled' /\ Unmounts' /\ (mountState' = "Mounted" => gone')
    BY <2>1 DEF LifeInv, NotEntered, NotCalled, Unmounts, File
  <2>4. NoLateUse'
    BY <2>1 DEF LifeInv, NoLateUse
  <2>5. QED
    BY <2>2, <2>3, <2>4 DEF LifeInv
<1>2. CASE ~UnmountErases
  <2>1. /\ UNCHANGED <<nzb, next, names, chains, mountState, gone, late, unmount, raced>>
        /\ mount' # "in" => mount # "in"
    BY <1>2 DEF Start, MountChecks, StopFuse, StopClears, StopJoins, ClientsStop, FuseReads,
                FuseReadEnds, FuseLeaves, mounterVars, driveVars
  <2>2. Unheld'
    BY <2>1, HeldThen, Zenon DEF LifeInv, Unheld
  <2>3. NotEntered' /\ NotCalled' /\ Unmounts' /\ (mountState' = "Mounted" => gone')
    BY <2>1 DEF LifeInv, NotEntered, NotCalled, Unmounts, File
  <2>4. NoLateUse'
    BY <2>1 DEF LifeInv, NoLateUse
  <2>5. QED
    BY <2>2, <2>3, <2>4 DEF LifeInv
<1>3. QED
  BY <1>1, <1>2

LEMMA MountEntersLife == TypeInv /\ LifeInv /\ MountEnters => LifeInv'
<1> SUFFICES ASSUME TypeInv, LifeInv, MountEnters PROVE LifeInv'
  OBVIOUS
<1>1. /\ mount = "checked" /\ mount' = "in" /\ mountState' = "Mounting" /\ next' = 1
      /\ UNCHANGED <<nzb, names, chains, gone, late, unmount, raced>>
  BY DEF MountEnters
<1>2. next = 0 /\ unmount = "no"
  BY <1>1 DEF LifeInv, NotEntered
<1>3. ~gone
  <2>1. next \in 0 .. Len(nzb) + 1
    BY <1>2, FileFacts DEF TypeInv, MounterTypes
  <2>2. IsHeld(next, names, chains)
    BY <2>1, Zenon DEF IsHeld
  <2>3. QED
    BY <2>2, Zenon DEF LifeInv, Unheld
<1>4. Unheld' /\ NotEntered' /\ NotCalled' /\ (mountState' = "Mounted" => gone')
  BY <1>1, <1>3 DEF Unheld, NotEntered, NotCalled
<1>5. Unmounts' /\ NoLateUse'
  BY <1>1, <1>2 DEF LifeInv, Unmounts, NoLateUse
<1>6. QED
  BY <1>4, <1>5 DEF LifeInv

\* A Cancel takes scopes and gives none.
LEMMA CancelHeld ==
  ASSUME MounterTypes, DataTypes, CancelDoes
  PROVE  /\ IsHeld(next', names', chains') => IsHeld(next, names, chains)
         /\ IsHeld(next', names', chains') => Ready \/ next <= Len(nzb) + 1
<1>1. /\ nzb' = nzb /\ next' = next
      /\ names' = [i \in File |-> IF names[i] = "asked" THEN "over" ELSE names[i]]
      /\ chains' \subseteq {Erased(c) : c \in chains}
  BY DEF CancelDoes
<1>2. \A c \in chains : HasScope(Erased(c)) => HasScope(c) /\ IsReady(c, 1) /\ 1 \in DOMAIN c.reads
  <2> SUFFICES ASSUME NEW c \in chains, HasScope(Erased(c))
               PROVE  HasScope(c) /\ IsReady(c, 1) /\ 1 \in DOMAIN c.reads
    OBVIOUS
  <2>1. HasScope(c) /\ c.reads[1].state # "asked"
    BY ErasedOK DEF DataTypes, ChainsOK
  <2>2. QED
    BY <2>1 DEF HasScope, IsReady
<1>3. ASSUME NEW e \in chains', HasScope(e)
      PROVE  (\E c \in chains : HasScope(c)) /\ Ready
  <2>1. PICK c \in chains : e = Erased(c)
    BY <1>1
  <2>2. HasScope(c) /\ IsReady(c, 1) /\ 1 \in DOMAIN c.reads
    BY <1>2, <1>3, <2>1
  <2>3. QED
    BY <2>2, Zenon DEF Ready
<1>4. ASSUME NEW i \in File, names'[i] \in {"asked", "named", "unnamed"}
      PROVE  names[i] \in {"asked", "named", "unnamed"} /\ Ready
  <2>1. names[i] \in {"named", "unnamed"}
    BY <1>1, <1>4
  <2>2. QED
    BY <2>1 DEF Ready
<1>5. next \in 0 .. Len(nzb) + 1 => next <= Len(nzb) + 1
  BY FileFacts DEF MounterTypes
<1>6. QED
  BY <1>1, <1>3, <1>4, <1>5, Zenon DEF IsHeld

LEMMA UnmountCancelsLife == TypeInv /\ LifeInv /\ UnmountCancels => LifeInv'
<1> SUFFICES ASSUME TypeInv, LifeInv, UnmountCancels PROVE LifeInv'
  OBVIOUS
<1>1. /\ unmount = "no" /\ mountState \in {"Mounting", "Mounted"} /\ unmount' = "canceled"
      /\ raced' = (mountState = "Mounting" /\ (Ready \/ next <= Len(nzb) + 1))
      /\ IF mountState = "Mounting" THEN Cancel ELSE UNCHANGED mounterVars
      /\ mount' = mount
  BY DEF UnmountCancels
<1>2. MounterTypes /\ DataTypes /\ gone \in BOOLEAN /\ mount = "in" /\ "state" \notin late
      /\ "mounter" \notin late
  BY <1>1 DEF TypeInv, MounterTypes, LifeInv, NotEntered, Unmounts, NoLateUse
<1>3. CASE mountState = "Mounted"
  <2>1. gone /\ UNCHANGED <<nzb, next, names, chains, mountState, gone, late>>
    BY <1>1, <1>3 DEF LifeInv, mounterVars
  <2>2. Unheld'
    BY <2>1, HeldThen, Zenon DEF LifeInv, Unheld
  <2>3. NotEntered' /\ NotCalled' /\ Unmounts' /\ (mountState' = "Mounted" => gone') /\ NoLateUse'
    BY <1>1, <1>2, <1>3, <2>1 DEF LifeInv, NotEntered, NotCalled, Unmounts, NoLateUse, File
  <2>4. QED
    BY <2>2, <2>3 DEF LifeInv
<1>4. CASE mountState = "Mounting"
  <2>1. CancelDoes
    BY <1>1, <1>2, <1>4, CancelSteps
  <2>2. /\ nzb' = nzb /\ next' = next /\ late' = late /\ Settle({}, {}, rarFiles)
        /\ chains' \subseteq {Erased(c) : c \in chains}
        /\ names' = [i \in File |-> IF names[i] = "asked" THEN "over" ELSE names[i]]
    BY <2>1 DEF CancelDoes
  <2>3. /\ gone' = (gone \/ ~IsHeld(next', names', chains'))
        /\ mountState' = "Mounted" => gone'
        /\ mountState' # "erased"
    BY <1>2, <1>4, <2>2 DEF Settle
  <2>4. Unheld'
    <3>1. gone => ~IsHeld(next', names', chains')
      BY <1>2, <2>1, CancelHeld, Zenon DEF LifeInv, Unheld
    <3>2. QED
      BY <2>2, <2>3, <3>1, HeldThen, Zenon DEF Unheld
  <2>5. NotEntered' /\ NotCalled'
    BY <1>1, <1>2, <2>2 DEF LifeInv, NotEntered, NotCalled, File
  <2>6. Unmounts'
    <3>1. ~raced' => gone'
      BY <1>1, <1>2, <1>4, <2>1, <2>3, CancelHeld, Zenon
    <3>2. QED
      BY <1>1, <2>3, <3>1 DEF Unmounts
  <2>7. NoLateUse'
    BY <1>2, <2>2 DEF NoLateUse
  <2>8. QED
    BY <2>3, <2>4, <2>5, <2>6, <2>7 DEF LifeInv
<1>5. QED
  BY <1>1, <1>3, <1>4

LEMMA StopCancelsLife == TypeInv /\ LifeInv /\ StopCancels => LifeInv'
<1> SUFFICES ASSUME TypeInv, LifeInv, StopCancels PROVE LifeInv'
  OBVIOUS
<1>1. /\ IF mountState \in {"Mounting", "Mounted"} THEN Cancel ELSE UNCHANGED mounterVars
      /\ UNCHANGED <<mount, unmount, raced>>
  BY DEF StopCancels
<1>2. MounterTypes /\ DataTypes /\ gone \in BOOLEAN
  BY DEF TypeInv, MounterTypes
<1>3. CASE mountState \in {"Mounting", "Mounted"}
  <2>1. CancelDoes
    BY <1>1, <1>2, <1>3, CancelSteps
  <2>2. nzb' = nzb /\ next' = next /\ late' = late /\ Settle({}, {}, rarFiles)
        /\ chains' \subseteq {Erased(c) : c \in chains}
        /\ names' = [i \in File |-> IF names[i] = "asked" THEN "over" ELSE names[i]]
    BY <2>1 DEF CancelDoes
  <2>3. gone => ~IsHeld(next', names', chains')
    BY <1>2, <2>1, CancelHeld, Zenon DEF LifeInv, Unheld
  <2>4. CASE next # 0
    BY <1>1, <1>2, <2>2, <2>3, <2>4, SettleLife
  <2>5. CASE next = 0
    <3>1. /\ gone' = (gone \/ ~IsHeld(next', names', chains'))
          /\ mountState' = "Mounted" => gone' \/ mountState = "Mounted"
          /\ mountState' # "erased"
      BY <1>2, <1>3, <2>2 DEF Settle
    <3>2. Unheld'
      BY <2>2, <2>3, <3>1, HeldThen, Zenon DEF Unheld
    <3>3. mount = "in"
      BY <1>3 DEF LifeInv, NotEntered
    <3>4. NotEntered' /\ NotCalled'
      BY <1>1, <2>2, <2>5, <3>3 DEF LifeInv, NotEntered, NotCalled, File
    <3>5. Unmounts' /\ NoLateUse' /\ (mountState' = "Mounted" => gone')
      BY <1>1, <1>2, <2>2, <3>1 DEF LifeInv, Unmounts, NoLateUse
    <3>6. QED
      BY <3>2, <3>4, <3>5 DEF LifeInv
  <2>6. QED
    BY <2>4, <2>5
<1>4. CASE mountState \notin {"Mounting", "Mounted"}
  <2>1. UNCHANGED <<nzb, next, names, chains, mountState, gone, late>>
    BY <1>1, <1>4 DEF mounterVars
  <2>2. Unheld'
    BY <2>1, HeldThen, Zenon DEF LifeInv, Unheld
  <2>3. NotEntered' /\ NotCalled' /\ Unmounts' /\ (mountState' = "Mounted" => gone') /\ NoLateUse'
    BY <1>1, <2>1 DEF LifeInv, NotEntered, NotCalled, Unmounts, NoLateUse, File
  <2>4. QED
    BY <2>2, <2>3 DEF LifeInv
<1>5. QED
  BY <1>3, <1>4

LEMMA LifeNext == TypeInv /\ LifeInv /\ [Next]_vars => LifeInv'
<1> SUFFICES ASSUME TypeInv, LifeInv, [Next]_vars PROVE LifeInv'
  OBVIOUS
<1>1. CASE UNCHANGED vars
  <2>1. UNCHANGED <<nzb, next, names, chains, mountState, gone, late, mount, unmount, raced>>
    BY <1>1 DEF vars, mounterVars, driveVars
  <2>2. Unheld'
    BY <2>1, HeldThen, Zenon DEF LifeInv, Unheld
  <2>3. NotEntered' /\ NotCalled' /\ Unmounts' /\ (mountState' = "Mounted" => gone') /\ NoLateUse'
    BY <2>1 DEF LifeInv, NotEntered, NotCalled, Unmounts, NoLateUse, File
  <2>4. QED
    BY <2>2, <2>3 DEF LifeInv
<1>2. CASE Next
  BY <1>2, QuietLife, MountEntersLife, MountStepLife, UnmountCancelsLife, StopCancelsLife, IoLife,
     Zenon DEF Next, StopStep
<1>3. QED
  BY <1>1, <1>2

\* The mounter and the state of a mount are used after they were destroyed only in
\* the races with Unmount and with a header in two parts (NZBDriveIMPL.cpp:324-347,
\* NZBDriveMounter.cpp:52-67).
THEOREM NoLateUseAlways == Spec => []NoLateUse
<1>1. Spec => []LifeInv
  BY LifeInit, LifeNext, TypesAlways, PTL DEF Spec
<1>2. LifeInv => NoLateUse
  BY Zenon DEF LifeInv
<1>3. QED
  BY <1>1, <1>2, PTL

-----------------------------------------------------------------------------
(* Browsing.                                                               *)

\* A prefix of a path in the tree is a directory that lists the next name.
LEMMA PrefixOfPath ==
  ASSUME NEW s, IsPath(s), NEW k \in 0 .. Len(s) - 1
  PROVE  LET p == SubSeq(s, 1, k) IN
         Len(p) = k /\ IsPrefix(p, s) /\ p # s /\ Len(p) + 1 = k + 1
<1> DEFINE S == Range(s)
<1>1. s \in Seq(S)
  BY DEF IsPath
<1> HIDE DEF S
<1> DEFINE p == SubSeq(s, 1, k)
<1>2. Len(s) \in Nat /\ k \in Nat /\ k < Len(s)
  BY <1>1
<1>3. p \in Seq(S) /\ Len(p) = k /\ \A i \in 1 .. k : p[i] = s[i]
  BY <1>1, <1>2
<1>4. SubSeq(p, 1, k) = SubSeq(s, 1, k)
  BY <1>1, <1>2, <1>3
<1>5. IsPrefix(p, s)
  BY <1>2, <1>3, <1>4 DEF IsPrefix
<1>6. p # s
  BY <1>2, <1>3
<1>7. QED
  BY <1>3, <1>5, <1>6

LEMMA ContentBrowsable ==
  ASSUME ContentOK(content)
  PROVE  Browsable
<1> SUFFICES ASSUME NEW e \in content
             PROVE  /\ Attributes(content, e.path) = "File"
                    /\ \A k \in 0 .. Len(e.path) - 1 :
                         LET dir == SubSeq(e.path, 1, k) IN
                         Attributes(content, dir) = "Directory" /\ e.path[k + 1] \in Readdir(content, dir)
  BY DEF Browsable
<1>1. IsPath(e.path) /\ e.path # <<>>
  BY DEF ContentOK, EntryOK
<1>2. Attributes(content, e.path) = "File"
  <2>1. e.file \in GetFile(content, e.path)
    BY DEF GetFile
  <2>2. GetFile(content, e.path) # {}
    BY <2>1
  <2>3. QED
    BY <1>1, <2>2, Zenon DEF Attributes
<1>3. ASSUME NEW k \in 0 .. Len(e.path) - 1
      PROVE  LET dir == SubSeq(e.path, 1, k) IN
             Attributes(content, dir) = "Directory" /\ e.path[k + 1] \in Readdir(content, dir)
  <2> DEFINE dir == SubSeq(e.path, 1, k)
  <2>1. Len(dir) = k /\ IsPrefix(dir, e.path) /\ dir # e.path
    BY <1>1, PrefixOfPath
  <2> HIDE DEF dir
  <2>2. IsStrictPrefix(dir, e.path)
    BY <2>1 DEF IsStrictPrefix
  <2>3. GetFile(content, dir) = {}
    <3>1. ASSUME NEW d \in content, d.path = dir PROVE FALSE
      <4>1. d = e
        BY <2>1, <3>1 DEF ContentOK
      <4>2. QED
        BY <2>1, <3>1, <4>1
    <3>2. QED
      BY <3>1 DEF GetFile
  <2>4. Attributes(content, dir) = "Directory"
    BY <2>2, <2>3, Zenon DEF Attributes, IsDirectory
  <2>5. e.path[k + 1] \in Readdir(content, dir)
    <3> DEFINE below == {d \in content : IsStrictPrefix(dir, d.path)}
               names0 == {d.path[Len(dir) + 1] : d \in below}
    <3>1. e \in below
      BY <2>2
    <3>2. e.path[k + 1] \in names0
      BY <2>1, <3>1
    <3>3. Readdir(content, dir) = names0
      BY DEF Readdir, GetContent
    <3>4. QED
      BY <3>2, <3>3
  <2>6. QED
    BY <2>4, <2>5 DEF dir
<1>4. QED
  BY <1>2, <1>3

\* FUSE can browse to every file of the tree, in whatever order the files of the
\* NZB, of its archives and of split files were registered (NZBDirectory.cpp:21-41).
THEOREM BrowsableAlways == Spec => []Browsable
<1>1. TypeInv => Browsable
  BY ContentBrowsable DEF TypeInv, DataTypes
<1>2. QED
  BY <1>1, TypesAlways, PTL

-----------------------------------------------------------------------------
(* Reads.  A file is made of parts, and these of parts; each read is        *)
(* replaced by reads of the parts until all are of files of the NZB.  The   *)
(* reads cover the same bytes after every step (Covers), because a step     *)
(* takes a byte of a part (Place) and a read of a range the pieces of it    *)
(* that lie in the parts (Pieces).                                          *)

\* Numbers that grow from each to the next.
Grows(E, c) == c \in Nat /\ E \in [0 .. c -> Nat] /\ \A i \in 1 .. c : E[i - 1] < E[i]

\* They grow from any to a later one.
LEMMA Growing ==
  ASSUME NEW E, NEW c, Grows(E, c)
  PROVE  \A i, j \in 0 .. c : i < j => E[i] < E[j]
<1> DEFINE Bad == {j \in 0 .. c : \E i \in 0 .. c : i < j /\ ~ (E[i] < E[j])}
<1>1. Bad = {}
  <2> SUFFICES ASSUME Bad # {} PROVE FALSE
    OBVIOUS
  <2>1. PICK j \in Bad : \A m \in Bad : j <= m
    <3>1. Bad \subseteq Nat
      BY DEF Grows
    <3> HIDE DEF Bad
    <3>2. QED
      BY <3>1, Least
  <2>2. PICK i \in 0 .. c : i < j /\ ~ (E[i] < E[j])
    BY <2>1
  <2>3. j \in 1 .. c /\ j - 1 \in 0 .. c /\ j - 1 \notin Bad
    BY <2>1, <2>2 DEF Grows
  <2>4. E[j - 1] < E[j] /\ E[i] \in Nat /\ E[j] \in Nat /\ E[j - 1] \in Nat
    BY <2>2, <2>3 DEF Grows
  <2>5. i = j - 1 \/ E[i] < E[j - 1]
    BY <2>2, <2>3 DEF Grows
  <2>6. QED
    BY <2>2, <2>4, <2>5
<1>2. QED
  BY <1>1

\* Between which of them a number lies.
LEMMA Between ==
  ASSUME NEW E, NEW c, Grows(E, c), NEW x \in Nat, E[0] <= x, x < E[c]
  PROVE  \E i \in 1 .. c : E[i - 1] <= x /\ x < E[i]
<1> DEFINE T == {i \in 0 .. c : x < E[i]}
<1>1. PICK i \in T : \A m \in T : i <= m
  <2>1. T \subseteq Nat /\ c \in T
    BY DEF Grows
  <2> HIDE DEF T
  <2>2. QED
    BY <2>1, Least
<1>2. E[0] \in Nat /\ c \in Nat
  BY DEF Grows
<1>3. i # 0
  BY <1>1, <1>2
<1>4. i \in 1 .. c /\ i - 1 \in 0 .. c /\ i - 1 \notin T
  BY <1>1, <1>2, <1>3
<1>5. E[i - 1] <= x
  BY <1>4 DEF Grows
<1>6. QED
  BY <1>1, <1>4, <1>5

\* How many of them a number has reached.
LEMMA CountReached ==
  ASSUME NEW E, NEW c, Grows(E, c), NEW i \in 1 .. c, NEW x \in Nat, E[i - 1] <= x, x < E[i],
         NEW S, \A k : k \in S <=> k \in 1 .. c /\ E[k] <= x
  PROVE  Cardinality(S) = i - 1
<1>1. \A j, k \in 0 .. c : j < k => E[j] < E[k]
  BY Growing
<1>2. c \in Nat /\ i - 1 \in 0 .. c /\ i \in Nat /\ \A k \in 0 .. c : E[k] \in Nat
  BY DEF Grows
<1>3. \A k \in 1 .. c : E[k] <= x <=> k <= i - 1
  <2> TAKE k \in 1 .. c
  <2>1. k \in 0 .. c /\ k \in Nat
    BY <1>2
  <2>2. CASE k <= i - 1
    <3>1. k = i - 1 \/ k < i - 1
      BY <1>2, <2>1, <2>2
    <3>2. E[k] <= E[i - 1]
      BY <1>1, <1>2, <2>1, <3>1
    <3>3. QED
      BY <1>2, <2>1, <2>2, <3>2
  <2>3. CASE ~ (k <= i - 1)
    <3>1. k = i \/ i < k
      BY <1>2, <2>1, <2>3
    <3>2. E[i] <= E[k]
      BY <1>1, <1>2, <2>1, <3>1
    <3>3. QED
      BY <1>2, <2>1, <2>3, <3>2
  <2>4. QED
    BY <2>2, <2>3
<1>4. \A k : k \in 1 .. i - 1 <=> k \in 1 .. c /\ k <= i - 1
  BY <1>2
<1>5. \A k : k \in S <=> k \in 1 .. i - 1
  BY <1>3, <1>4
<1>6. S = 1 .. i - 1
  BY <1>5
<1>7. Cardinality(1 .. i - 1) = i - 1
  BY <1>2, FS_Interval
<1>8. QED
  BY <1>6, <1>7

\* The parts P lie one behind the other, at the addresses E, in the map of the file.
Laid(f, P, E, c) ==
  /\ Grows(E, c) /\ E[0] = 0
  /\ c = Cardinality(DOMAIN f.parts) /\ E = Ends(f)
  /\ \A i \in 1 .. c : P[i] = PartOf(f, i) /\ First(f) + i - 1 \in DOMAIN f.parts
  /\ \A i \in 1 .. c : P[i].size \in Nat /\ P[i].offset \in Nat /\ E[i] = E[i - 1] + P[i].size
  /\ f.size = E[c]
  /\ f.map = [n \in 1 .. c |-> [end |-> E[n], part |-> P[n]]]

\* Finalize keeps the entries of all parts if each has bytes.
LEMMA FinalizeLays ==
  ASSUME NEW f, PartsOK(f), Gapless(f), f.size = Finalize(f).size, f.map = Finalize(f).map, FileFields(f),
         \A k \in DOMAIN f.parts : f.parts[k].size # 0
  PROVE  \E P, E, c : Laid(f, P, E, c)
<1> DEFINE c == Cardinality(DOMAIN f.parts)
           E == Ends(f)
           P == [i \in 1 .. c |-> PartOf(f, i)]
           kept == {i \in 1 .. c : \A j \in i + 1 .. c : E[j] # E[i]}
           Kept(n) == CHOOSE i \in kept : Cardinality({j \in kept : j <= i}) = n
<1>1. /\ c \in Nat /\ E \in [0 .. c -> Nat] /\ E[0] = 0
      /\ \A i \in 1 .. c : First(f) + i - 1 \in DOMAIN f.parts /\ E[i] = E[i - 1] + PartOf(f, i).size
  BY EndsOfParts
<1>2. \A i \in 1 .. c : PartOf(f, i).size \in Nat /\ PartOf(f, i).size # 0 /\ PartOf(f, i).offset \in Nat
  BY <1>1 DEF PartsOK, PartOf
<1>3. f.size = E[c] /\ f.map = [n \in 1 .. Cardinality(kept) |-> [end |-> E[Kept(n)], part |-> PartOf(f, Kept(n))]]
  <2> DEFINE map == [n \in 1 .. Cardinality(kept) |-> [end |-> E[Kept(n)], part |-> PartOf(f, Kept(n))]]
  <2>1. Finalize(f) = [f EXCEPT !.size = E[c], !.map = map]
    BY DEF Finalize
  <2> HIDE DEF map, E, c
  <2>2. Finalize(f).size = E[c] /\ Finalize(f).map = map
    BY <2>1 DEF FileFields
  <2>3. QED
    BY <2>2 DEF map
<1> HIDE DEF E, c
<1>4. Grows(E, c)
  <2>1. \A i \in 1 .. c : i - 1 \in 0 .. c /\ i \in 0 .. c
    BY <1>1
  <2>2. ASSUME NEW i \in 1 .. c PROVE E[i - 1] < E[i]
    <3>1. E[i] = E[i - 1] + PartOf(f, i).size /\ E[i - 1] \in Nat
      BY <1>1, <2>1
    <3>2. PartOf(f, i).size \in Nat /\ PartOf(f, i).size # 0
      BY <1>2
    <3>3. QED
      BY <3>1, <3>2
  <2>3. QED
    BY <1>1, <2>2 DEF Grows
<1>5. kept = 1 .. c
  <2>1. \A i, j \in 0 .. c : i < j => E[i] < E[j]
    BY <1>4, Growing
  <2>2. ASSUME NEW i \in 1 .. c, NEW j \in i + 1 .. c PROVE E[j] # E[i]
    <3>1. i \in 0 .. c /\ j \in 0 .. c /\ i < j
      BY <1>1
    <3>2. E[i] \in Nat /\ E[j] \in Nat /\ E[i] < E[j]
      BY <1>1, <2>1, <3>1
    <3>3. QED
      BY <3>2
  <2>3. QED
    BY <2>2
<1>6. \A i \in 1 .. c : Cardinality({j \in kept : j <= i}) = i
  <2> TAKE i \in 1 .. c
  <2>1. {j \in kept : j <= i} = 1 .. i
    <3> HIDE DEF kept
    <3>1. i \in Nat /\ i <= c /\ c \in Nat
      BY <1>1
    <3>2. \A j : j \in kept /\ j <= i <=> j \in 1 .. i
      BY <1>5, <3>1
    <3>3. QED
      BY <3>2
  <2>2. Cardinality(1 .. i) = i
    <3>1. i \in Nat /\ i - 1 + 1 = i /\ ~ (1 > i)
      BY <1>1
    <3>2. QED
      BY <3>1, FS_Interval
  <2>3. QED
    BY <2>1, <2>2
<1>7. \A n \in 1 .. c : Kept(n) = n
  <2> HIDE DEF kept
  <2>1. QED
    BY <1>5, <1>6
<1>8. Cardinality(kept) = c
  <2>1. Cardinality(1 .. c) = c
    <3>1. c \in Nat /\ 1 \in Int /\ c \in Int
      BY <1>1
    <3>2. Cardinality(1 .. c) = IF 1 > c THEN 0 ELSE c - 1 + 1
      BY <3>1, FS_Interval
    <3>3. QED
      BY <3>1, <3>2
  <2> HIDE DEF kept
  <2>2. QED
    BY <1>5, <2>1
<1>9. f.map = [n \in 1 .. c |-> [end |-> E[n], part |-> P[n]]]
  <2> HIDE DEF Kept, kept
  <2>1. QED
    BY <1>3, <1>7, <1>8
<1>10. Laid(f, P, E, c)
  BY <1>1, <1>2, <1>3, <1>4, <1>9 DEF Laid, E, c
<1>11. QED
  BY <1>10

\* The byte at an offset is one of the part there.
LEMMA PlaceInPart ==
  ASSUME NEW f, NEW P, NEW E, NEW c, Laid(f, P, E, c),
         NEW i \in 1 .. c, NEW x \in Nat, E[i - 1] <= x, x < E[i]
  PROVE  Place(f, x) = [file |-> P[i].file, at |-> P[i].offset + x - E[i - 1]]
<1>1. ASSUME NEW j \in 1 .. c, E[j - 1] <= x, x < E[j] PROVE j = i
  <2>1. \A k, l \in 0 .. c : k < l => E[k] < E[l]
    BY Growing DEF Laid
  <2>2. c \in Nat /\ \A k \in 0 .. c : E[k] \in Nat
    BY DEF Laid, Grows
  <2>3. ~ (j < i)
    <3> SUFFICES ASSUME j < i PROVE FALSE
      OBVIOUS
    <3>1. j = i - 1 \/ j < i - 1
      BY <2>2
    <3>2. j \in 0 .. c /\ i - 1 \in 0 .. c
      BY <2>2
    <3>3. E[j] <= E[i - 1]
      BY <2>1, <2>2, <3>1, <3>2
    <3>4. QED
      BY <1>1, <2>2, <3>2, <3>3
  <2>4. ~ (i < j)
    <3> SUFFICES ASSUME i < j PROVE FALSE
      OBVIOUS
    <3>1. i = j - 1 \/ i < j - 1
      BY <2>2
    <3>2. i \in 0 .. c /\ j - 1 \in 0 .. c
      BY <2>2
    <3>3. E[i] <= E[j - 1]
      BY <2>1, <2>2, <3>1, <3>2
    <3>4. QED
      BY <1>1, <2>2, <3>2, <3>3
  <2>5. QED
    BY <2>2, <2>3, <2>4
<1>2. i = CHOOSE j \in 1 .. c : E[j - 1] <= x /\ x < E[j]
  <2> DEFINE There(j) == j \in 1 .. c /\ E[j - 1] <= x /\ x < E[j]
  <2>1. There(i)
    OBVIOUS
  <2>2. \A j : There(j) => j = i
    BY <1>1
  <2>3. QED
    BY <2>1, <2>2
<1>3. E = Ends(f) /\ c = Cardinality(DOMAIN f.parts) /\ P[i] = PartOf(f, i)
  BY DEF Laid
<1> DEFINE k == CHOOSE j \in 1 .. Cardinality(DOMAIN f.parts) : Ends(f)[j - 1] <= x /\ x < Ends(f)[j]
<1>4. k = i
  BY <1>2, <1>3
<1>5. Place(f, x) = [file |-> PartOf(f, k).file, at |-> PartOf(f, k).offset + x - Ends(f)[k - 1]]
  BY DEF Place
<1> HIDE DEF k
<1>6. QED
  BY <1>3, <1>4, <1>5

\* The first and the last part that the range [a, to) meets, as the code finds
\* them in the map.
Met(f, E, c, a, to, first, last) ==
  /\ E[first - 1] <= a /\ a < E[first] /\ E[last - 1] < to /\ to <= E[last] /\ first <= last
  /\ UpperBound(f, a) = first
  /\ Cardinality({i \in DOMAIN f.map : f.map[i].end < to}) = last - 1
  /\ \A i \in first .. c : (i = first \/ E[i - 1] < to) <=> i <= last
  /\ \A i \in first + 1 .. last : E[i - 1] \in Nat /\ a < E[i - 1] /\ E[i - 1] < to

\* A range within the file meets such parts.
LEMMA PartsMet ==
  ASSUME NEW f, NEW P, NEW E, NEW c, Laid(f, P, E, c),
         NEW a \in Nat, NEW to \in Nat, a < to, to <= f.size
  PROVE  \E first, last \in 1 .. c : Met(f, E, c, a, to, first, last)
<1>1. Grows(E, c) /\ E[0] = 0 /\ c \in Nat /\ f.size = E[c] /\ \A i \in 0 .. c : E[i] \in Nat
  BY DEF Laid, Grows
<1>2. \A i, j \in 0 .. c : i < j => E[i] < E[j]
  BY <1>1, Growing
<1>3. PICK first \in 1 .. c : E[first - 1] <= a /\ a < E[first]
  BY <1>1, Between
<1>4. PICK last \in 1 .. c : E[last - 1] <= to - 1 /\ to - 1 < E[last]
  <2>1. to - 1 \in Nat /\ E[0] <= to - 1 /\ to - 1 < E[c]
    BY <1>1
  <2>2. QED
    BY <1>1, <2>1, Between
<1>5. first - 1 \in 0 .. c /\ last - 1 \in 0 .. c /\ first \in 0 .. c /\ last \in 0 .. c
  BY <1>1
<1>6. E[last - 1] < to /\ to <= E[last]
  BY <1>1, <1>4, <1>5
<1>7. first <= last
  <2> SUFFICES ASSUME last < first PROVE FALSE
    BY <1>1
  <2>1. last = first - 1 \/ last < first - 1
    BY <1>1
  <2>2. E[last] <= E[first - 1]
    BY <1>1, <1>2, <1>5, <2>1
  <2>3. QED
    BY <1>1, <1>3, <1>5, <1>6, <2>2
<1>8. DOMAIN f.map = 1 .. c /\ \A i \in 1 .. c : f.map[i].end = E[i]
  BY DEF Laid
<1>9. UpperBound(f, a) = first
  <2> DEFINE S == {i \in DOMAIN f.map : f.map[i].end <= a}
  <2>1. \A k : k \in S <=> k \in 1 .. c /\ E[k] <= a
    BY <1>8
  <2>2. UpperBound(f, a) = 1 + Cardinality(S)
    BY DEF UpperBound
  <2> HIDE DEF S
  <2>3. Cardinality(S) = first - 1
    BY <1>1, <1>3, <2>1, CountReached
  <2>4. QED
    BY <1>1, <2>2, <2>3
<1>10. Cardinality({i \in DOMAIN f.map : f.map[i].end < to}) = last - 1
  <2> DEFINE S == {i \in DOMAIN f.map : f.map[i].end < to}
  <2>1. \A k : k \in S <=> k \in 1 .. c /\ E[k] < to
    BY <1>8
  <2>2. \A k \in 1 .. c : E[k] < to <=> E[k] <= to - 1
    BY <1>1
  <2>3. to - 1 \in Nat
    BY <1>1
  <2> HIDE DEF S
  <2>4. \A k : k \in S <=> k \in 1 .. c /\ E[k] <= to - 1
    BY <2>1, <2>2
  <2>5. Cardinality(S) = last - 1
    BY <1>1, <1>4, <2>3, <2>4, CountReached
  <2>6. QED
    BY <2>5 DEF S
<1>11. \A i \in first .. c : (i = first \/ E[i - 1] < to) <=> i <= last
  <2> TAKE i \in first .. c
  <2>1. i \in Nat /\ i - 1 \in 0 .. c
    BY <1>1
  <2>2. CASE i <= last
    <3>1. i - 1 = last - 1 \/ i - 1 < last - 1
      BY <1>1, <2>1, <2>2
    <3>2. E[i - 1] <= E[last - 1]
      BY <1>1, <1>2, <1>5, <2>1, <3>1
    <3>3. QED
      BY <1>1, <1>5, <1>6, <2>1, <2>2, <3>2
  <2>3. CASE ~ (i <= last)
    <3>1. i - 1 = last \/ last < i - 1
      BY <1>1, <2>1, <2>3
    <3>2. E[last] <= E[i - 1]
      BY <1>1, <1>2, <1>5, <2>1, <3>1
    <3>3. QED
      BY <1>1, <1>5, <1>6, <1>7, <2>1, <2>3, <3>2
  <2>4. QED
    BY <2>2, <2>3
<1>12. \A i \in first + 1 .. last : E[i - 1] \in Nat /\ a < E[i - 1] /\ E[i - 1] < to
  <2> TAKE i \in first + 1 .. last
  <2>1. i - 1 \in 0 .. c /\ i \in first .. c /\ i <= last
    BY <1>1
  <2>2. i - 1 = first \/ first < i - 1
    BY <1>1
  <2>3. E[first] <= E[i - 1]
    BY <1>1, <1>2, <1>5, <2>1, <2>2
  <2>4. E[i - 1] < to
    BY <1>11, <2>1, <1>1
  <2>5. QED
    BY <1>1, <1>3, <1>5, <2>1, <2>3, <2>4
<1>13. Met(f, E, c, a, to, first, last)
  BY <1>3, <1>6, <1>7, <1>9, <1>10, <1>11, <1>12 DEF Met
<1>14. QED
  BY <1>13

\* Reads of files of T.
ReadOf(T) == [file : T, offset : Nat, size : Nat \ {0}]

\* The reads get the bytes at the places B[from] .. B[to - 1], one behind the other.
Cut(R, B, S) ==
  /\ S \in [0 .. Len(R) -> Nat]
  /\ \A j \in 1 .. Len(R) :
       /\ S[j] = S[j - 1] + R[j].size
       /\ \A k \in 0 .. R[j].size - 1 : B[S[j - 1] + k] = [file |-> R[j].file, at |-> R[j].offset + k]

Covers(R, B, from, to) ==
  \E S : /\ Cut(R, B, S) /\ S[0] = from /\ S[Len(R)] = to
         /\ \A j \in 0 .. Len(R) : from <= S[j] /\ S[j] <= to

\* A sequence that is given by its elements.
LEMMA IsSequence ==
  ASSUME NEW n \in Nat, NEW T, NEW s \in [1 .. n -> T]
  PROVE  s \in Seq(T) /\ Len(s) = n
<1>1. s \in Seq(T)
  BY SeqDef
<1>2. Len(s) \in Nat /\ DOMAIN s = 1 .. Len(s)
  BY <1>1, LenProperties
<1>3. DOMAIN s = 1 .. n
  OBVIOUS
<1>4. QED
  BY <1>1, <1>2, <1>3

\* The piece of the range [a, to) in part i, when the first part it meets is first.
From(E, a, first, i) == IF i = first THEN a ELSE E[i - 1]
To(E, to, i) == IF E[i] < to THEN E[i] ELSE to
Piece(P, E, a, to, first, i) ==
  [file |-> P[i].file, offset |-> From(E, a, first, i) - E[i - 1] + P[i].offset,
   size |-> To(E, to, i) - From(E, a, first, i)]
Pieces(P, E, a, to, first, last) ==
  [j \in 1 .. last - first + 1 |-> Piece(P, E, a, to, first, first + j - 1)]

\* What is laid out are numbers.
LEMMA LaidNumbers ==
  ASSUME NEW f, NEW P, NEW E, NEW c, Laid(f, P, E, c)
  PROVE  /\ Grows(E, c) /\ c \in Nat /\ f.size = E[c] /\ f.size \in Nat /\ \A i \in 0 .. c : E[i] \in Nat
         /\ \A i \in 1 .. c : P[i].size \in Nat /\ P[i].offset \in Nat /\ E[i] = E[i - 1] + P[i].size
         /\ Len(f.map) = c /\ \A i \in 1 .. c : f.map[i].end = E[i] /\ f.map[i].part = P[i]
<1>1. /\ Grows(E, c) /\ c \in Nat /\ f.size = E[c] /\ \A i \in 0 .. c : E[i] \in Nat
      /\ \A i \in 1 .. c : P[i].size \in Nat /\ P[i].offset \in Nat /\ E[i] = E[i - 1] + P[i].size
  BY DEF Laid, Grows
<1> DEFINE U == {f.map[i] : i \in 1 .. c}
<1>2. f.map = [n \in 1 .. c |-> [end |-> E[n], part |-> P[n]]]
  BY DEF Laid
<1>3. f.map \in [1 .. c -> U]
  BY <1>2
<1> HIDE DEF U
<1>4. Len(f.map) = c
  BY <1>1, <1>3, IsSequence
<1>5. \A i \in 1 .. c : f.map[i].end = E[i] /\ f.map[i].part = P[i]
  BY <1>2
<1>6. f.size \in Nat
  BY <1>1
<1>7. QED
  BY <1>1, <1>4, <1>5, <1>6

\* A piece is not empty, lies in its part and ends where the next begins.
LEMMA PieceNumbers ==
  ASSUME NEW f, NEW P, NEW E, NEW c, Laid(f, P, E, c),
         NEW a \in Nat, NEW to \in Nat, a < to, to <= f.size,
         NEW first \in 1 .. c, NEW last \in 1 .. c, Met(f, E, c, a, to, first, last),
         NEW i \in first .. last
  PROVE  /\ i \in 1 .. c /\ i - 1 \in 0 .. c
         /\ From(E, a, first, i) \in Nat /\ To(E, to, i) \in Nat
         /\ From(E, a, first, i) < To(E, to, i) /\ a <= From(E, a, first, i) /\ To(E, to, i) <= to
         /\ E[i - 1] \in Nat /\ E[i] \in Nat /\ P[i].size \in Nat /\ P[i].offset \in Nat
         /\ E[i - 1] <= From(E, a, first, i) /\ To(E, to, i) <= E[i] /\ E[i] - P[i].size = E[i - 1]
         /\ (i # last => To(E, to, i) = E[i]) /\ (i = last => To(E, to, i) = to)
<1>1. /\ Grows(E, c) /\ c \in Nat /\ \A k \in 0 .. c : E[k] \in Nat
      /\ \A k \in 1 .. c : P[k].size \in Nat /\ P[k].offset \in Nat /\ E[k] = E[k - 1] + P[k].size
  <2>1. Grows(E, c) /\ c \in Nat /\ \A k \in 0 .. c : E[k] \in Nat
    BY LaidNumbers
  <2>2. \A k \in 1 .. c : P[k].size \in Nat /\ P[k].offset \in Nat /\ E[k] = E[k - 1] + P[k].size
    BY LaidNumbers
  <2>3. QED
    BY <2>1, <2>2
<1>2. /\ E[first - 1] <= a /\ a < E[first] /\ E[last - 1] < to /\ to <= E[last] /\ first <= last
      /\ \A k \in first + 1 .. last : E[k - 1] \in Nat /\ a < E[k - 1] /\ E[k - 1] < to
  BY DEF Met
<1>3. i \in 1 .. c /\ i - 1 \in 0 .. c /\ i \in 0 .. c
  BY <1>1, <1>2
<1>4. E[i - 1] \in Nat /\ E[i] \in Nat /\ P[i].size \in Nat /\ P[i].offset \in Nat /\ E[i] = E[i - 1] + P[i].size /\ E[i - 1] < E[i]
  BY <1>1, <1>3 DEF Grows
<1>5. i # first => i \in first + 1 .. last
  BY <1>1
<1>6. i # first => a < E[i - 1] /\ E[i - 1] < to
  BY <1>2, <1>5
<1>7. i # last => E[i] < to
  <2> SUFFICES ASSUME i # last PROVE E[i] < to
    OBVIOUS
  <2>1. i + 1 \in first + 1 .. last /\ i + 1 - 1 = i
    BY <1>1, <1>3
  <2>2. QED
    BY <1>2, <2>1
<1>8. (i = last => to <= E[i]) /\ (i = first => E[i - 1] <= a /\ a < E[i])
  BY <1>2
<1> DEFINE x == From(E, a, first, i)
           y == To(E, to, i)
<1>9. x \in Nat /\ a <= x /\ E[i - 1] <= x /\ x < E[i] /\ x < to
  BY <1>4, <1>6, <1>8 DEF From
<1>10. (i # last => y = E[i]) /\ (i = last => y = to) /\ y \in Nat /\ y <= to /\ y <= E[i]
  BY <1>4, <1>7, <1>8 DEF To
<1>11. y = E[i] \/ y = to
  BY DEF To
<1> HIDE DEF x, y
<1>12. x < y
  BY <1>9, <1>11
<1>13. E[i] - P[i].size = E[i - 1]
  BY <1>4
<1>14. QED
  BY <1>3, <1>4, <1>9, <1>10, <1>12, <1>13 DEF x, y

\* The size of an interval.
LEMMA HowMany ==
  ASSUME NEW first \in Nat, NEW last \in Nat, first <= last
  PROVE  Cardinality(first .. last) = last - first + 1
<1>1. first \in Int /\ last \in Int
  OBVIOUS
<1>2. Cardinality(first .. last) = IF first > last THEN 0 ELSE last - first + 1
  BY <1>1, FS_Interval
<1>3. QED
  BY <1>2

\* _AsyncGetFileData asks for the pieces.
LEMMA ReadsArePieces ==
  ASSUME NEW f, NEW P, NEW E, NEW c, Laid(f, P, E, c),
         NEW a \in Nat, NEW to \in Nat, a < to, to <= f.size,
         NEW first \in 1 .. c, NEW last \in 1 .. c, Met(f, E, c, a, to, first, last)
  PROVE  Reads(f, a, to - a) = Pieces(P, E, a, to, first, last)
<1>1. c \in Nat /\ first \in Nat /\ last \in Nat /\ first <= last
  BY LaidNumbers DEF Met
<1>2. Len(f.map) = c /\ \A i \in 1 .. c : f.map[i].end = E[i] /\ f.map[i].part = P[i]
  BY LaidNumbers
<1>3. /\ UpperBound(f, a) = first
      /\ \A i \in first .. c : (i = first \/ E[i - 1] < to) <=> i <= last
  BY DEF Met
<1> DEFINE first1 == UpperBound(f, a)
           to1 == IF a + (to - a) > f.size THEN f.size ELSE a + (to - a)
           inside == {i \in first1 .. Len(f.map) : IF i = first1 THEN a < to1 ELSE f.map[i - 1].end < to1}
           From1(i) == IF i = first1 THEN a ELSE f.map[i - 1].end
           To1(i) == IF f.map[i].end < to1 THEN f.map[i].end ELSE to1
           Begin1(i) == f.map[i].end - f.map[i].part.size
           Read1(i) == [file |-> f.map[i].part.file,
                        offset |-> From1(i) - Begin1(i) + f.map[i].part.offset, size |-> To1(i) - From1(i)]
<1>4. Reads(f, a, to - a) = [j \in 1 .. Cardinality(inside) |-> Read1(first1 + j - 1)]
  BY DEF Reads
<1>5. to1 = to
  <2>1. f.size \in Nat /\ a + (to - a) = to
    BY LaidNumbers
  <2>2. QED
    BY <2>1
<1>6. inside = first .. last
  <2>1. \A i \in first .. c : i # first => f.map[i - 1].end = E[i - 1]
    BY <1>1, <1>2
  <2> HIDE DEF to1
  <2>2. \A i : i \in inside <=> i \in first .. c /\ (i = first \/ E[i - 1] < to)
    BY <1>2, <1>3, <1>5, <2>1
  <2> HIDE DEF inside
  <2>3. \A i : i \in inside <=> i \in first .. c /\ i <= last
    BY <1>3, <2>2
  <2>4. \A i : i \in first .. c /\ i <= last <=> i \in first .. last
    BY <1>1
  <2>5. QED
    BY <2>3, <2>4
<1>7. Cardinality(inside) = last - first + 1
  <2> HIDE DEF inside
  <2>1. QED
    BY <1>1, <1>6, HowMany
<1>8. \A j \in 1 .. last - first + 1 : Read1(first + j - 1) = Piece(P, E, a, to, first, first + j - 1)
  <2> TAKE j \in 1 .. last - first + 1
  <2> DEFINE i == first + j - 1
  <2>1. i \in first .. last /\ (i # first => i - 1 \in 1 .. c)
    BY <1>1
  <2> HIDE DEF i
  <2>2. i \in 1 .. c /\ E[i] - P[i].size = E[i - 1]
    <3>1. i \in first .. last
      BY <2>1
    <3> HIDE DEF to1, inside, first1, From1, To1, Begin1, Read1
    <3>2. QED
      BY <3>1, PieceNumbers
  <2>3. f.map[i].end = E[i] /\ f.map[i].part = P[i] /\ (i # first => f.map[i - 1].end = E[i - 1])
    BY <1>2, <2>1, <2>2
  <2>4. From1(i) = From(E, a, first, i)
    BY <1>3, <2>3 DEF From
  <2> HIDE DEF to1
  <2>5. To1(i) = To(E, to, i)
    BY <1>5, <2>3 DEF To
  <2>6. Begin1(i) = E[i - 1]
    BY <2>2, <2>3
  <2> HIDE DEF From1, To1, Begin1
  <2>7. QED
    BY <2>3, <2>4, <2>5, <2>6 DEF Piece, i
<1>9. first1 = first
  BY <1>3
<1> HIDE DEF Read1, first1, inside
<1>10. QED
  BY <1>4, <1>7, <1>8, <1>9 DEF Pieces

\* CountMissingBytesInRange and BufferNextSegmentInRange ask for the same.
LEMMA RangesArePieces ==
  ASSUME NEW f, NEW P, NEW E, NEW c, Laid(f, P, E, c),
         NEW a \in Nat, NEW to \in Nat, a < to, to <= f.size,
         NEW first \in 1 .. c, NEW last \in 1 .. c, Met(f, E, c, a, to, first, last)
  PROVE  Ranges(f, a, to) = Pieces(P, E, a, to, first, last)
<1>1. c \in Nat /\ first \in Nat /\ last \in Nat /\ first <= last /\ last <= c
  BY LaidNumbers DEF Met
<1>2. Len(f.map) = c /\ \A i \in 1 .. c : f.map[i].end = E[i] /\ f.map[i].part = P[i]
  BY LaidNumbers
<1> DEFINE first1 == UpperBound(f, a)
           last1 == 1 + Cardinality({i \in DOMAIN f.map : f.map[i].end < to})
           Begin1(i) == f.map[i].end - f.map[i].part.size
           SubBegin(i) == IF i = first1 THEN a - Begin1(i) + f.map[i].part.offset ELSE f.map[i].part.offset
           SubEnd(i) == IF i = last1 THEN to - Begin1(i) + f.map[i].part.offset
                        ELSE f.map[i].part.offset + f.map[i].part.size
           asked == first1 .. (IF last1 > Len(f.map) THEN Len(f.map) ELSE last1)
           Range1(i) == [file |-> f.map[i].part.file, offset |-> SubBegin(i), size |-> SubEnd(i) - SubBegin(i)]
<1>3. Ranges(f, a, to) = [j \in 1 .. Cardinality(asked) |-> Range1(first1 + j - 1)]
  BY DEF Ranges
<1>4. first1 = first /\ last1 = last
  <2>1. UpperBound(f, a) = first /\ Cardinality({i \in DOMAIN f.map : f.map[i].end < to}) = last - 1
    BY DEF Met
  <2> DEFINE n == Cardinality({i \in DOMAIN f.map : f.map[i].end < to})
  <2>2. n = last - 1 /\ last1 = 1 + n
    BY <2>1
  <2> HIDE DEF n, last1
  <2>3. last1 = last
    BY <1>1, <2>2
  <2>4. QED
    BY <2>1, <2>3
<1> HIDE DEF first1, last1
<1>5. asked = first .. last
  BY <1>1, <1>2, <1>4
<1>6. Cardinality(asked) = last - first + 1
  <2> HIDE DEF asked
  <2>1. QED
    BY <1>1, <1>5, HowMany
<1>7. \A j \in 1 .. last - first + 1 : Range1(first + j - 1) = Piece(P, E, a, to, first, first + j - 1)
  <2> TAKE j \in 1 .. last - first + 1
  <2> DEFINE i == first + j - 1
             x == From(E, a, first, i)
             y == To(E, to, i)
  <2>1. i \in first .. last
    BY <1>1
  <2> HIDE DEF i
  <2>2. /\ i \in 1 .. c /\ E[i] - P[i].size = E[i - 1] /\ E[i - 1] \in Nat /\ E[i] \in Nat
        /\ P[i].size \in Nat /\ P[i].offset \in Nat /\ x \in Nat /\ y \in Nat
        /\ (i # last => y = E[i]) /\ (i = last => y = to)
    BY <2>1, PieceNumbers
  <2>3. (i = first => x = a) /\ (i # first => x = E[i - 1])
    BY DEF From
  <2>4. f.map[i].end = E[i] /\ f.map[i].part = P[i]
    BY <1>2, <2>2
  <2> HIDE DEF x, y
  <2>5. Begin1(i) = E[i - 1]
    BY <2>2, <2>4
  <2> HIDE DEF Begin1
  <2>6. SubBegin(i) = x - E[i - 1] + P[i].offset
    BY <1>4, <2>2, <2>3, <2>4, <2>5
  <2>7. SubEnd(i) = y - E[i - 1] + P[i].offset
    BY <1>4, <2>2, <2>4, <2>5
  <2>8. SubEnd(i) - SubBegin(i) = y - x
    <3>1. E[i - 1] \in Nat /\ P[i].offset \in Nat /\ x \in Nat /\ y \in Nat
      BY <2>2
    <3> HIDE DEF SubBegin, SubEnd
    <3>2. QED
      BY <2>6, <2>7, <3>1
  <2> HIDE DEF SubBegin, SubEnd
  <2>9. QED
    BY <2>4, <2>6, <2>8 DEF Piece, x, y, i
<1> HIDE DEF Range1, asked
<1>8. QED
  BY <1>3, <1>4, <1>6, <1>7 DEF Pieces

\* A read of a file becomes the reads of its parts that hold the bytes.
LEMMA ReadsCover ==
  ASSUME NEW f, NEW P, NEW E, NEW c, Laid(f, P, E, c), NEW T, \A i \in 1 .. c : P[i].file \in T,
         NEW a \in Nat, NEW size \in Nat \ {0}, a + size <= f.size,
         NEW base \in Nat, NEW B, \A k \in 0 .. size - 1 : B[base + k] = Place(f, a + k)
  PROVE  Reads(f, a, size) \in Seq(ReadOf(T)) /\ Covers(Reads(f, a, size), B, base, base + size)
<1> DEFINE to == a + size
           R == Reads(f, a, size)
<1>1. c \in Nat /\ to \in Nat /\ a < to /\ to <= f.size /\ to - a = size
  BY LaidNumbers
<1> HIDE DEF to
<1>2. PICK first, last \in 1 .. c : Met(f, E, c, a, to, first, last)
  BY <1>1, PartsMet
<1>3. first \in Nat /\ last \in Nat /\ first <= last
  BY <1>1, <1>2 DEF Met
<1> DEFINE n == last - first + 1
           x(i) == From(E, a, first, i)
           y(i) == To(E, to, i)
<1>4. n \in Nat /\ R = [j \in 1 .. n |-> Piece(P, E, a, to, first, first + j - 1)]
  <2>1. Reads(f, a, to - a) = Pieces(P, E, a, to, first, last)
    BY <1>1, <1>2, ReadsArePieces
  <2>2. QED
    BY <1>1, <1>3, <2>1 DEF Pieces
<1>5. \A j \in 1 .. n : first + j - 1 \in first .. last
  BY <1>3
<1>6. \A i \in first .. last :
        /\ i \in 1 .. c /\ x(i) \in Nat /\ y(i) \in Nat /\ x(i) < y(i) /\ a <= x(i) /\ y(i) <= to
        /\ E[i - 1] \in Nat /\ E[i] \in Nat /\ E[i - 1] <= x(i) /\ y(i) <= E[i] /\ P[i].offset \in Nat
        /\ (i # last => y(i) = E[i]) /\ (i = last => y(i) = to)
  BY <1>1, <1>2, PieceNumbers
<1>7. x(first) = a /\ \A i \in first .. last : i # first => x(i) = E[i - 1]
  BY DEF From
<1>8. \A i : Piece(P, E, a, to, first, i) = [file |-> P[i].file, offset |-> x(i) - E[i - 1] + P[i].offset, size |-> y(i) - x(i)]
  BY DEF Piece
<1> HIDE DEF x, y, n
<1>9. \A i \in first .. last : Piece(P, E, a, to, first, i) \in ReadOf(T)
  <2> TAKE i \in first .. last
  <2>1. P[i].file \in T
    BY <1>6
  <2>2. x(i) - E[i - 1] + P[i].offset \in Nat /\ y(i) - x(i) \in Nat \ {0}
    BY <1>6
  <2>3. QED
    BY <1>8, <2>1, <2>2 DEF ReadOf
<1>10. R \in Seq(ReadOf(T)) /\ Len(R) = n
  <2> HIDE DEF R
  <2>1. R \in [1 .. n -> ReadOf(T)]
    BY <1>4, <1>5, <1>9
  <2>2. QED
    BY <1>4, <2>1, IsSequence
<1> DEFINE S == [j \in 0 .. n |-> IF j = 0 THEN base ELSE base + (y(first + j - 1) - a)]
<1>11. \A j \in 1 .. n : S[j - 1] = base + (x(first + j - 1) - a) /\ S[j] = base + (y(first + j - 1) - a)
  <2> TAKE j \in 1 .. n
  <2>1. j \in 0 .. n /\ j - 1 \in 0 .. n /\ j # 0 /\ j \in Int
    BY <1>4
  <2>2. S[j] = base + (y(first + j - 1) - a)
    BY <2>1
  <2>3. CASE j = 1
    <3>1. S[j - 1] = base /\ first + j - 1 = first
      BY <1>3, <2>1, <2>3
    <3>2. a \in Int /\ base \in Int
      OBVIOUS
    <3> HIDE DEF S
    <3>3. QED
      BY <1>7, <2>2, <3>1, <3>2
  <2>4. CASE j # 1
    <3>1. first + (j - 1) - 1 = (first + j - 1) - 1
      BY <1>3, <2>1
    <3>2. S[j - 1] = base + (y((first + j - 1) - 1) - a)
      <4>1. S[j - 1] = base + (y(first + (j - 1) - 1) - a)
        BY <2>1, <2>4
      <4> HIDE DEF S
      <4>2. QED
        BY <3>1, <4>1
    <3>3. (first + j - 1) - 1 \in first .. last /\ (first + j - 1) - 1 # last /\ first + j - 1 # first
      BY <1>3, <1>5, <2>1, <2>4 DEF n
    <3>4. y((first + j - 1) - 1) = E[(first + j - 1) - 1]
      BY <1>6, <3>3
    <3>5. x(first + j - 1) = E[(first + j - 1) - 1]
      BY <1>5, <1>7, <3>3
    <3> HIDE DEF S
    <3>6. QED
      BY <2>2, <3>2, <3>4, <3>5
  <2>5. QED
    BY <2>3, <2>4
<1>12. S \in [0 .. n -> Nat]
  <2>1. \A j \in 0 .. n : j # 0 => j \in 1 .. n
    BY <1>4
  <2>2. \A j \in 1 .. n : base + (y(first + j - 1) - a) \in Nat
    <3> TAKE j \in 1 .. n
    <3>1. y(first + j - 1) \in Nat /\ a <= y(first + j - 1)
      BY <1>5, <1>6
    <3>2. QED
      BY <3>1
  <2>3. \A j \in 0 .. n : S[j] \in Nat
    BY <2>1, <2>2
  <2>4. QED
    BY <2>3
<1>13. S[0] = base
  BY <1>4
<1> HIDE DEF S
<1>14. S[n] = base + size
  <2>1. n \in 1 .. n /\ first + n - 1 = last /\ last \in first .. last
    BY <1>3 DEF n
  <2>2. S[n] = base + (y(last) - a) /\ y(last) = to
    BY <1>6, <1>11, <2>1
  <2>3. QED
    BY <1>1, <2>2
<1>15. ASSUME NEW j \in 1 .. n
       PROVE  /\ S[j] = S[j - 1] + R[j].size
              /\ \A k \in 0 .. R[j].size - 1 : B[S[j - 1] + k] = [file |-> R[j].file, at |-> R[j].offset + k]
  <2> DEFINE i == first + j - 1
  <2>1. R[j] = Piece(P, E, a, to, first, i)
    BY <1>4
  <2>2. i \in first .. last /\ i \in 1 .. c
    BY <1>5, <1>6
  <2>3. S[j - 1] = base + (x(i) - a) /\ S[j] = base + (y(i) - a)
    BY <1>11
  <2> HIDE DEF i, R
  <2>4. R[j].size = y(i) - x(i) /\ R[j].file = P[i].file /\ R[j].offset = x(i) - E[i - 1] + P[i].offset
    BY <1>8, <2>1
  <2>5. /\ x(i) \in Nat /\ y(i) \in Nat /\ x(i) < y(i) /\ a <= x(i) /\ y(i) <= to
        /\ E[i - 1] \in Nat /\ E[i - 1] <= x(i) /\ y(i) <= E[i] /\ E[i] \in Nat /\ P[i].offset \in Nat
    BY <1>6, <2>2
  <2>6. S[j] = S[j - 1] + R[j].size
    BY <2>3, <2>4, <2>5
  <2>7. ASSUME NEW k \in 0 .. R[j].size - 1
        PROVE  B[S[j - 1] + k] = [file |-> R[j].file, at |-> R[j].offset + k]
    <3> DEFINE z == x(i) + k
    <3>1. k \in Nat /\ k < y(i) - x(i)
      BY <2>4, <2>5
    <3>2. z \in Nat /\ E[i - 1] <= z /\ z < E[i] /\ z < to
      BY <1>1, <2>5, <3>1
    <3>3. Place(f, z) = [file |-> P[i].file, at |-> P[i].offset + z - E[i - 1]]
      BY <2>2, <3>2, PlaceInPart
    <3>4. z - a \in 0 .. size - 1 /\ base + (z - a) = S[j - 1] + k /\ a + (z - a) = z
      BY <1>1, <2>3, <2>5, <3>1, <3>2
    <3>5. B[S[j - 1] + k] = Place(f, z)
      BY <3>4
    <3>6. P[i].offset + z - E[i - 1] = R[j].offset + k
      BY <2>4, <2>5, <3>1
    <3>7. QED
      BY <2>4, <3>3, <3>5, <3>6
  <2>8. QED
    BY <2>6, <2>7
<1> HIDE DEF R
<1>16. Cut(R, B, S)
  BY <1>10, <1>12, <1>15 DEF Cut
<1>17. \A j \in 0 .. n : base <= S[j] /\ S[j] <= base + size
  <2> TAKE j \in 0 .. n
  <2>1. CASE j = 0
    BY <1>13, <2>1
  <2>2. CASE j # 0
    <3>1. j \in 1 .. n
      BY <1>4, <2>2
    <3> DEFINE i == first + j - 1
    <3>2. S[j] = base + (y(i) - a) /\ i \in first .. last
      BY <1>5, <1>11, <3>1
    <3> HIDE DEF i
    <3>3. y(i) \in Nat /\ x(i) \in Nat /\ a <= x(i) /\ x(i) < y(i) /\ y(i) <= to
      BY <1>6, <3>2
    <3>4. QED
      BY <1>1, <3>2, <3>3
  <2>3. QED
    BY <2>1, <2>2
<1>18. QED
  BY <1>10, <1>13, <1>14, <1>16, <1>17 DEF Covers, R

\* Reads of one range and then of the one behind it.
LEMMA CoversJoined ==
  ASSUME NEW T, NEW R1 \in Seq(ReadOf(T)), NEW R2 \in Seq(ReadOf(T)), NEW B,
         NEW a \in Nat, NEW b \in Nat, NEW c \in Nat, Covers(R1, B, a, b), Covers(R2, B, b, c)
  PROVE  R1 \o R2 \in Seq(ReadOf(T)) /\ Covers(R1 \o R2, B, a, c)
<1> DEFINE n1 == Len(R1)
           n2 == Len(R2)
           R == R1 \o R2
<1>1. /\ n1 \in Nat /\ n2 \in Nat /\ R \in Seq(ReadOf(T)) /\ Len(R) = n1 + n2
      /\ (\A j \in 1 .. n1 : R[j] = R1[j]) /\ \A j \in n1 + 1 .. n1 + n2 : R[j] = R2[j - n1]
  BY ConcatProperties, LenProperties
<1>2. PICK S1 : /\ Cut(R1, B, S1) /\ S1[0] = a /\ S1[n1] = b
               /\ \A j \in 0 .. n1 : a <= S1[j] /\ S1[j] <= b
  BY DEF Covers
<1>3. PICK S2 : /\ Cut(R2, B, S2) /\ S2[0] = b /\ S2[n2] = c
               /\ \A j \in 0 .. n2 : b <= S2[j] /\ S2[j] <= c
  BY DEF Covers
<1>4. /\ S1 \in [0 .. n1 -> Nat] /\ S2 \in [0 .. n2 -> Nat]
      /\ \A j \in 1 .. n1 :
           /\ S1[j] = S1[j - 1] + R1[j].size
           /\ \A k \in 0 .. R1[j].size - 1 : B[S1[j - 1] + k] = [file |-> R1[j].file, at |-> R1[j].offset + k]
      /\ \A j \in 1 .. n2 :
           /\ S2[j] = S2[j - 1] + R2[j].size
           /\ \A k \in 0 .. R2[j].size - 1 : B[S2[j - 1] + k] = [file |-> R2[j].file, at |-> R2[j].offset + k]
  BY <1>2, <1>3 DEF Cut
<1> DEFINE S == [j \in 0 .. n1 + n2 |-> IF j <= n1 THEN S1[j] ELSE S2[j - n1]]
<1> HIDE DEF n1, n2, R
<1>5. /\ \A j \in 0 .. n1 : j \in 0 .. n1 + n2 /\ S[j] = S1[j]
      /\ \A j \in 0 .. n2 : j + n1 \in 0 .. n1 + n2 /\ S[j + n1] = S2[j]
  <2>1. \A j \in 0 .. n1 : j \in 0 .. n1 + n2 /\ S[j] = S1[j]
    BY <1>1
  <2>2. ASSUME NEW j \in 0 .. n2 PROVE j + n1 \in 0 .. n1 + n2 /\ S[j + n1] = S2[j]
    <3>1. j + n1 \in 0 .. n1 + n2 /\ (j + n1) - n1 = j /\ (j + n1 <= n1 <=> j = 0)
      BY <1>1
    <3>2. CASE j = 0
      <4>1. j + n1 = n1 /\ n1 \in 0 .. n1
        BY <1>1, <3>2
      <4> HIDE DEF S
      <4>2. QED
        BY <1>2, <1>3, <2>1, <3>1, <3>2, <4>1
    <3>3. CASE j # 0
      BY <3>1, <3>3
    <3>4. QED
      BY <3>2, <3>3
  <2>3. QED
    BY <2>1, <2>2
<1>6. S \in [0 .. n1 + n2 -> Nat] /\ \A j \in 0 .. n1 + n2 : a <= S[j] /\ S[j] <= c
  <2>1. ASSUME NEW j \in 0 .. n1 + n2 PROVE S[j] \in Nat /\ a <= S[j] /\ S[j] <= c
    <3>0. 0 \in 0 .. n2 /\ n1 \in 0 .. n1 /\ b \in Nat /\ a <= b /\ b <= c
      BY <1>1, <1>2, <1>3
    <3>1. CASE j <= n1
      <4>1. j \in 0 .. n1
        BY <1>1, <3>1
      <4>2. S[j] = S1[j] /\ S1[j] \in Nat /\ a <= S1[j] /\ S1[j] <= b
        BY <1>2, <1>4, <1>5, <4>1
      <4> HIDE DEF S
      <4>3. QED
        BY <3>0, <4>2
    <3>2. CASE ~ (j <= n1)
      <4>1. j - n1 \in 0 .. n2 /\ (j - n1) + n1 = j
        BY <1>1, <3>2
      <4>2. S[j] = S2[j - n1] /\ S2[j - n1] \in Nat /\ b <= S2[j - n1] /\ S2[j - n1] <= c
        BY <1>3, <1>4, <1>5, <4>1
      <4> HIDE DEF S
      <4>3. QED
        BY <3>0, <4>2
    <3>3. QED
      BY <3>1, <3>2
  <2>2. QED
    BY <2>1
<1> HIDE DEF S
<1>7. ASSUME NEW j \in 1 .. n1 + n2
      PROVE  /\ S[j] = S[j - 1] + R[j].size
             /\ \A k \in 0 .. R[j].size - 1 : B[S[j - 1] + k] = [file |-> R[j].file, at |-> R[j].offset + k]
  <2>1. CASE j <= n1
    <3>1. j \in 1 .. n1 /\ j \in 0 .. n1 /\ j - 1 \in 0 .. n1
      BY <1>1, <2>1
    <3>2. R[j] = R1[j] /\ S[j] = S1[j] /\ S[j - 1] = S1[j - 1]
      BY <1>1, <1>5, <3>1
    <3>3. QED
      BY <1>4, <3>1, <3>2
  <2>2. CASE ~ (j <= n1)
    <3> DEFINE i == j - n1
    <3>1. i \in 1 .. n2 /\ i \in 0 .. n2 /\ i - 1 \in 0 .. n2 /\ i + n1 = j /\ (i - 1) + n1 = j - 1 /\ j \in n1 + 1 .. n1 + n2
      BY <1>1, <2>2
    <3>2. R[j] = R2[i]
      BY <1>1, <3>1
    <3>3. S[j] = S2[i]
      BY <1>5, <3>1
    <3>4. S[j - 1] = S2[i - 1]
      BY <1>5, <3>1
    <3> HIDE DEF i
    <3>5. QED
      BY <1>4, <3>1, <3>2, <3>3, <3>4
  <2>3. QED
    BY <2>1, <2>2
<1>8. S[0] = a /\ S[n1 + n2] = c
  <2>1. 0 \in 0 .. n1 /\ n2 \in 0 .. n2 /\ n2 + n1 = n1 + n2
    BY <1>1
  <2>2. QED
    BY <1>2, <1>3, <1>5, <2>1
<1>9. Cut(R, B, S)
  BY <1>1, <1>6, <1>7 DEF Cut
<1>10. QED
  BY <1>1, <1>6, <1>8, <1>9 DEF Covers, R

\* G[i] is the concatenation of the first i sequences of Q.
Joins(G, Q, m) ==
  G[1] = Q[1] /\ (\A i \in 2 .. m : G[i] = G[i - 1] \o Q[i]) /\ FlattenSeq(Q) = G[m]

\* The concatenation of all of them is the last.
LEMMA Flattening ==
  ASSUME NEW X, NEW m \in Nat \ {0}, NEW Q \in [1 .. m -> Seq(X)]
  PROVE  \E G \in [1 .. m -> Seq(X)] : Joins(G, Q, m)
<1> DEFINE Step(g, i) == IF i = 1 THEN Q[i] ELSE g[i - 1] \o Q[i]
           Good(n) == \E g : g = [i \in 1 .. n |-> Step(g, i)]
           Bad == {n \in Nat \ {0} : ~ Good(n)}
           G == CHOOSE g : g = [i \in 1 .. m |-> Step(g, i)]
<1>1. Good(1)
  <2>1. [i \in 1 .. 1 |-> Q[i]] = [i \in 1 .. 1 |-> Step([k \in 1 .. 1 |-> Q[k]], i)]
    OBVIOUS
  <2>2. QED
    BY <2>1
<1>2. ASSUME NEW n \in Nat \ {0}, Good(n) PROVE Good(n + 1)
  <2>1. PICK g : g = [i \in 1 .. n |-> Step(g, i)]
    BY <1>2
  <2> DEFINE h == [i \in 1 .. n + 1 |-> IF i = n + 1 THEN Step(g, i) ELSE g[i]]
  <2>2. \A i \in 1 .. n + 1 : h[i] = Step(h, i)
    <3> SUFFICES ASSUME NEW i \in 1 .. n + 1 PROVE h[i] = Step(h, i)
      OBVIOUS
    <3>1. i # 1 => i - 1 \in 1 .. n
      OBVIOUS
    <3>2. i # 1 => h[i - 1] = g[i - 1]
      BY <3>1
    <3>3. CASE i = n + 1
      BY <3>2, <3>3
    <3>4. CASE i # n + 1
      <4>1. i \in 1 .. n /\ h[i] = g[i]
        BY <3>4
      <4>2. g[i] = Step(g, i)
        BY <2>1, <4>1
      <4>3. QED
        BY <3>2, <4>1, <4>2
    <3>5. QED
      BY <3>3, <3>4
  <2>3. h = [i \in 1 .. n + 1 |-> Step(h, i)]
    BY <2>2
  <2>4. QED
    BY <2>3
<1>3. Bad = {}
  <2> SUFFICES ASSUME Bad # {} PROVE FALSE
    OBVIOUS
  <2> HIDE DEF Good
  <2>1. PICK n \in Bad : \A k \in Bad : n <= k
    BY Least
  <2>2. n # 1 /\ n - 1 \in Nat \ {0}
    BY <1>1, <2>1
  <2>3. Good(n - 1)
    BY <2>1, <2>2
  <2>4. Good((n - 1) + 1)
    BY <1>2, <2>2, <2>3
  <2>5. QED
    BY <2>1, <2>4
<1>4. G = [i \in 1 .. m |-> Step(G, i)]
  <2>1. Good(m)
    <3> HIDE DEF Good
    <3>1. QED
      BY <1>3
  <2>2. QED
    BY <2>1
<1>5. FlattenSeq(Q) = G[m]
  <2>1. \A n \in 1 .. m : Q[n] \in Seq(X)
    OBVIOUS
  <2>2. Q \in Seq(Seq(X)) /\ Len(Q) = m
    BY IsSequence
  <2>3. Len(Q) # 0
    BY <2>2
  <2>4. QED
    BY <2>2, <2>3 DEF FlattenSeq
<1> HIDE DEF G
<1>6. G[1] = Q[1] /\ \A i \in 2 .. m : G[i] = G[i - 1] \o Q[i]
  <2>1. 1 \in 1 .. m /\ \A i \in 2 .. m : i \in 1 .. m /\ i # 1
    OBVIOUS
  <2>2. \A i \in 1 .. m : G[i] = Step(G, i)
    <3> HIDE DEF Step
    <3>1. QED
      BY <1>4
  <2>3. QED
    BY <2>1, <2>2
<1> DEFINE NotSeq == {n \in 1 .. m : G[n] \notin Seq(X)}
<1>7. NotSeq = {}
  <2> SUFFICES ASSUME NotSeq # {} PROVE FALSE
    OBVIOUS
  <2>1. PICK n \in NotSeq : \A k \in NotSeq : n <= k
    <3>1. NotSeq \subseteq Nat
      OBVIOUS
    <3> HIDE DEF NotSeq
    <3>2. QED
      BY <3>1, Least
  <2>2. n # 1
    BY <1>6, <2>1
  <2>3. n \in 2 .. m /\ n - 1 \in 1 .. m /\ n \in 1 .. m
    BY <2>1, <2>2
  <2>4. G[n - 1] \in Seq(X) /\ Q[n] \in Seq(X)
    BY <2>1, <2>3
  <2>5. G[n - 1] \o Q[n] \in Seq(X)
    BY <2>4, ConcatProperties
  <2>6. QED
    BY <1>6, <2>1, <2>3, <2>5
<1>8. G \in [1 .. m -> Seq(X)]
  BY <1>4, <1>7
<1>9. Joins(G, Q, m)
  BY <1>5, <1>6 DEF Joins
<1>10. QED
  BY <1>8, <1>9

\* The byte at the place p is in a file that has it and no empty part, if one made of parts.
Held(p) ==
  p.file.nzb = 0 =>
    /\ p.at < p.file.size
    /\ \A k \in DOMAIN p.file.parts : p.file.parts[k].size # 0

\* The place and the read after one more step.
Moved(p) == IF p.file.nzb # 0 THEN p ELSE Place(p.file, p.at)

StepOf(r) == IF r.file.nzb # 0 THEN <<r>> ELSE Reads(r.file, r.offset, r.size)

\* A read is replaced by reads of the same bytes.
LEMMA StepCovers ==
  ASSUME NEW T, Closed(T), NEW r \in ReadOf(T), NEW base \in Nat, NEW B, NEW C,
         \A k \in 0 .. r.size - 1 :
            LET p == [file |-> r.file, at |-> r.offset + k] IN
            B[base + k] = p /\ Held(p) /\ C[base + k] = Moved(p)
  PROVE  StepOf(r) \in Seq(ReadOf(T)) /\ Covers(StepOf(r), C, base, base + r.size)
<1>1. r.file \in T /\ r.offset \in Nat /\ r.size \in Nat \ {0}
      /\ r = [file |-> r.file, offset |-> r.offset, size |-> r.size]
  BY DEF ReadOf
<1> DEFINE p(k) == [file |-> r.file, at |-> r.offset + k]
<1>2. \A k \in 0 .. r.size - 1 : Held(p(k)) /\ C[base + k] = Moved(p(k))
  OBVIOUS
<1>3. \A k : p(k).file = r.file /\ p(k).at = r.offset + k
  OBVIOUS
<1> HIDE DEF p
<1>4. CASE r.file.nzb # 0
  <2>1. StepOf(r) = <<r>>
    BY <1>4 DEF StepOf
  <2>2. <<r>> \in Seq(ReadOf(T)) /\ Len(<<r>>) = 1 /\ <<r>>[1] = r
    OBVIOUS
  <2> DEFINE S == [j \in 0 .. 1 |-> IF j = 0 THEN base ELSE base + r.size]
  <2>3. S \in [0 .. 1 -> Nat] /\ S[0] = base /\ S[1] = base + r.size
    BY <1>1
  <2> HIDE DEF S
  <2>4. \A k \in 0 .. r.size - 1 : C[S[0] + k] = [file |-> r.file, at |-> r.offset + k]
    <3> TAKE k \in 0 .. r.size - 1
    <3>1. C[base + k] = Moved(p(k)) /\ Moved(p(k)) = p(k)
      BY <1>2, <1>3, <1>4 DEF Moved
    <3>2. QED
      BY <2>3, <3>1 DEF p
  <2>5. \A j \in 1 .. 1 : j = 1 /\ j - 1 = 0
    OBVIOUS
  <2>6. \A j \in 0 .. 1 : base <= S[j] /\ S[j] <= base + r.size
    <3>1. \A j \in 0 .. 1 : j = 0 \/ j = 1
      OBVIOUS
    <3>2. QED
      BY <1>1, <2>3, <3>1
  <2>7. Cut(<<r>>, C, S)
    <3>1. \A j \in 1 .. 1 :
            /\ S[j] = S[j - 1] + <<r>>[j].size
            /\ \A k \in 0 .. <<r>>[j].size - 1 : C[S[j - 1] + k] = [file |-> <<r>>[j].file, at |-> <<r>>[j].offset + k]
      BY <2>2, <2>3, <2>4, <2>5
    <3> DEFINE R == <<r>>
    <3>2. Len(R) = 1
      BY <2>2
    <3> HIDE DEF R
    <3>3. QED
      BY <2>3, <3>1, <3>2 DEF Cut, R
  <2>8. Covers(<<r>>, C, base, base + r.size)
    BY <2>2, <2>3, <2>6, <2>7 DEF Covers
  <2>9. QED
    BY <2>1, <2>2, <2>8
<1>5. CASE r.file.nzb = 0
  <2> DEFINE f == r.file
  <2>1. StepOf(r) = Reads(f, r.offset, r.size)
    BY <1>5 DEF StepOf
  <2>2. 0 \in 0 .. r.size - 1 /\ r.size - 1 \in 0 .. r.size - 1
    BY <1>1
  <2>3. r.offset + (r.size - 1) < f.size /\ \A k \in DOMAIN f.parts : f.parts[k].size # 0
    BY <1>2, <1>3, <1>5, <2>2 DEF Held
  <2>4. FileOf(f) /\ \A k \in DOMAIN f.parts : f.parts[k].file \in T
    BY <1>1 DEF Closed
  <2>5. f.size # 0
    BY <1>1, <2>3
  <2>6. Whole(f)
    BY <1>5, <2>4, <2>5 DEF FileOf
  <2>7. PICK P, E, c : Laid(f, P, E, c)
    BY <2>3, <2>4, <2>6, FinalizeLays DEF FileOf, Whole
  <2>8. \A i \in 1 .. c : P[i].file \in T
    BY <2>4, <2>7 DEF Laid, PartOf
  <2>9. f.size \in Nat
    BY <2>7, LaidNumbers
  <2>10. r.offset + r.size <= f.size
    BY <1>1, <2>3, <2>9
  <2>11. \A k \in 0 .. r.size - 1 : C[base + k] = Place(f, r.offset + k)
    <3> TAKE k \in 0 .. r.size - 1
    <3>1. Moved(p(k)) = Place(p(k).file, p(k).at)
      BY <1>3, <1>5 DEF Moved
    <3>2. QED
      BY <1>2, <1>3, <3>1
  <2> DEFINE from == r.offset
             size == r.size
  <2>12. from \in Nat /\ size \in Nat \ {0} /\ from + size <= f.size /\ \A k \in 0 .. size - 1 : C[base + k] = Place(f, from + k)
    BY <1>1, <2>10, <2>11
  <2> HIDE DEF f, from, size
  <2>13. Reads(f, from, size) \in Seq(ReadOf(T)) /\ Covers(Reads(f, from, size), C, base, base + size)
    BY <2>7, <2>8, <2>12, ReadsCover
  <2>14. QED
    BY <2>1, <2>13 DEF from, size
<1>6. QED
  BY <1>4, <1>5

\* So are all reads.
LEMMA StepsCover ==
  ASSUME NEW T, Closed(T), NEW R \in Seq(ReadOf(T)), NEW B, NEW C, NEW a \in Nat, NEW b \in Nat, a < b,
         Covers(R, B, a, b), \A x \in a .. b - 1 : Held(B[x]) /\ C[x] = Moved(B[x])
  PROVE  LET Q == FlattenSeq([i \in DOMAIN R |-> StepOf(R[i])]) IN
         Q \in Seq(ReadOf(T)) /\ Covers(Q, C, a, b)
<1> DEFINE m == Len(R)
           Q == [i \in DOMAIN R |-> StepOf(R[i])]
<1>1. m \in Nat /\ DOMAIN R = 1 .. m /\ \A j \in 1 .. m : R[j] \in ReadOf(T)
  BY LenProperties, ElementOfSeq
<1>2. PICK S : /\ Cut(R, B, S) /\ S[0] = a /\ S[m] = b
              /\ \A j \in 0 .. m : a <= S[j] /\ S[j] <= b
  BY DEF Covers
<1>3. /\ S \in [0 .. m -> Nat]
      /\ \A j \in 1 .. m :
           /\ S[j] = S[j - 1] + R[j].size
           /\ \A k \in 0 .. R[j].size - 1 : B[S[j - 1] + k] = [file |-> R[j].file, at |-> R[j].offset + k]
  BY <1>2 DEF Cut
<1> HIDE DEF m
<1>4. m \in Nat \ {0}
  BY <1>1, <1>2
<1>5. ASSUME NEW j \in 1 .. m
      PROVE  Q[j] \in Seq(ReadOf(T)) /\ Covers(Q[j], C, S[j - 1], S[j])
  <2> DEFINE r == R[j]
             base == S[j - 1]
  <2>1. r \in ReadOf(T) /\ Q[j] = StepOf(r) /\ r.size \in Nat
    BY <1>1 DEF ReadOf
  <2>2. j \in 0 .. m /\ j - 1 \in 0 .. m
    BY <1>1
  <2>3. base \in Nat /\ S[j] = base + r.size /\ a <= base /\ S[j] <= b
    BY <1>2, <1>3, <2>2
  <2>4. \A k \in 0 .. r.size - 1 : B[base + k] = [file |-> r.file, at |-> r.offset + k]
    BY <1>3
  <2> HIDE DEF r, base, Q
  <2>5. \A k \in 0 .. r.size - 1 : base + k \in a .. b - 1
    BY <2>1, <2>3
  <2>6. \A k \in 0 .. r.size - 1 :
           LET p == [file |-> r.file, at |-> r.offset + k] IN
           B[base + k] = p /\ Held(p) /\ C[base + k] = Moved(p)
    BY <2>4, <2>5
  <2>7. StepOf(r) \in Seq(ReadOf(T)) /\ Covers(StepOf(r), C, base, base + r.size)
    BY <2>1, <2>3, <2>6, StepCovers
  <2>8. QED
    BY <2>1, <2>3, <2>7 DEF base
<1>6. Q \in [1 .. m -> Seq(ReadOf(T))]
  <2>1. DOMAIN Q = 1 .. m /\ Q = [i \in DOMAIN Q |-> Q[i]]
    BY <1>1
  <2> HIDE DEF Q
  <2>2. QED
    BY <1>5, <2>1
<1> HIDE DEF Q
<1>7. PICK G \in [1 .. m -> Seq(ReadOf(T))] : Joins(G, Q, m)
  BY <1>4, <1>6, Flattening
<1>70. G[1] = Q[1] /\ (\A i \in 2 .. m : G[i] = G[i - 1] \o Q[i]) /\ FlattenSeq(Q) = G[m]
  BY <1>7 DEF Joins
<1> DEFINE Not == {j \in 1 .. m : ~ Covers(G[j], C, a, S[j])}
<1>8. Not = {}
  <2> SUFFICES ASSUME Not # {} PROVE FALSE
    OBVIOUS
  <2>1. PICK n \in Not : \A k \in Not : n <= k
    <3>1. Not \subseteq Nat
      BY <1>4
    <3> HIDE DEF Not
    <3>2. QED
      BY <3>1, Least
  <2>2. n \in 1 .. m /\ n \in 0 .. m /\ n - 1 \in 0 .. m
    BY <1>1, <2>1
  <2>3. Q[n] \in Seq(ReadOf(T)) /\ Covers(Q[n], C, S[n - 1], S[n])
    BY <1>5, <2>2
  <2>4. n # 1
    <3> SUFFICES ASSUME n = 1 PROVE FALSE
      OBVIOUS
    <3>1. S[n - 1] = a /\ G[n] = Q[n]
      BY <1>2, <1>70
    <3>2. QED
      BY <2>1, <2>3, <3>1
  <2>5. n \in 2 .. m /\ n - 1 \in 1 .. m
    BY <1>1, <2>2, <2>4
  <2>6. Covers(G[n - 1], C, a, S[n - 1]) /\ G[n - 1] \in Seq(ReadOf(T))
    BY <1>1, <2>1, <2>5
  <2>7. S[n - 1] \in Nat /\ S[n] \in Nat
    BY <1>3, <2>2
  <2>8. Covers(G[n - 1] \o Q[n], C, a, S[n])
    BY <2>3, <2>6, <2>7, CoversJoined
  <2>9. QED
    BY <1>70, <2>1, <2>5, <2>8
<1>9. m \in 1 .. m
  BY <1>4
<1>10. G[m] \in Seq(ReadOf(T)) /\ Covers(G[m], C, a, b)
  BY <1>2, <1>8, <1>9
<1>11. QED
  BY <1>70, <1>10 DEF Q

OneRead(f, offset, size) == <<[file |-> f, offset |-> offset, size |-> size]>>
Moves(place, depth) == \A n \in 1 .. depth : place[n] = Moved(place[n - 1])
Replaced(R) == FlattenSeq([i \in DOMAIN R |-> StepOf(R[i])])

\* Where a byte is, step by step.
LEMMA PlacesMoved ==
  ASSUME NEW f, NEW depth \in Nat, NEW o
  PROVE  /\ PlaceAfter(f, depth, o)[0] = [file |-> f, at |-> o]
         /\ Moves(PlaceAfter(f, depth, o), depth)
<1> DEFINE Step(g, n) == IF n = 0 THEN [file |-> f, at |-> o] ELSE Moved(g[n - 1])
           Good(n) == \E g : g = [i \in 0 .. n |-> Step(g, i)]
           Bad == {n \in Nat : ~ Good(n)}
           whole == PlaceAfter(f, depth, o)
<1>1. Good(0)
  <2>1. [i \in 0 .. 0 |-> Step(i, 0)] = [i \in 0 .. 0 |-> Step([k \in 0 .. 0 |-> Step(k, 0)], i)]
    OBVIOUS
  <2>2. QED
    BY <2>1
<1>2. ASSUME NEW n \in Nat, Good(n) PROVE Good(n + 1)
  <2>1. PICK g : g = [i \in 0 .. n |-> Step(g, i)]
    BY <1>2
  <2> DEFINE h == [i \in 0 .. n + 1 |-> IF i = n + 1 THEN Step(g, i) ELSE g[i]]
  <2>2. \A i \in 0 .. n + 1 : h[i] = Step(h, i)
    <3> SUFFICES ASSUME NEW i \in 0 .. n + 1 PROVE h[i] = Step(h, i)
      OBVIOUS
    <3>1. i # 0 => i - 1 \in 0 .. n
      OBVIOUS
    <3>2. i # 0 => h[i - 1] = g[i - 1]
      BY <3>1
    <3>3. CASE i = n + 1
      BY <3>2, <3>3
    <3>4. CASE i # n + 1
      <4>1. i \in 0 .. n /\ h[i] = g[i]
        BY <3>4
      <4>2. g[i] = Step(g, i)
        BY <2>1, <4>1
      <4>3. QED
        BY <3>2, <4>1, <4>2
    <3>5. QED
      BY <3>3, <3>4
  <2>3. h = [i \in 0 .. n + 1 |-> Step(h, i)]
    BY <2>2
  <2>4. QED
    BY <2>3
<1>3. Bad = {}
  <2> SUFFICES ASSUME Bad # {} PROVE FALSE
    OBVIOUS
  <2> HIDE DEF Good
  <2>1. PICK n \in Bad : \A k \in Bad : n <= k
    BY Least
  <2>2. n # 0 /\ n - 1 \in Nat
    BY <1>1, <2>1
  <2>3. Good(n - 1)
    BY <2>1, <2>2
  <2>4. Good((n - 1) + 1)
    BY <1>2, <2>2, <2>3
  <2>5. QED
    BY <2>1, <2>4
<1>4. whole = [i \in 0 .. depth |-> Step(whole, i)]
  <2>1. Good(depth)
    <3> HIDE DEF Good
    <3>1. QED
      BY <1>3
  <2>2. QED
    BY <2>1 DEF PlaceAfter, Moved
<1> HIDE DEF whole
<1>5. \A n \in 0 .. depth : whole[n] = Step(whole, n)
  BY <1>4
<1>6. 0 \in 0 .. depth /\ \A n \in 1 .. depth : n \in 0 .. depth /\ n # 0
  OBVIOUS
<1>7. QED
  BY <1>5, <1>6 DEF whole, Moves
\* The reads, step by step.
LEMMA ReadsReplaced ==
  ASSUME NEW f, NEW depth \in Nat, NEW offset, NEW size
  PROVE  LET reads == ReadsAfter(f, depth, offset, size) IN
         /\ reads[0] = OneRead(f, offset, size)
         /\ \A n \in 1 .. depth : reads[n] = Replaced(reads[n - 1])
<1> DEFINE Step(g, n) == IF n = 0 THEN OneRead(f, offset, size) ELSE Replaced(g[n - 1])
           Good(n) == \E g : g = [i \in 0 .. n |-> Step(g, i)]
           Bad == {n \in Nat : ~ Good(n)}
           whole == ReadsAfter(f, depth, offset, size)
<1>1. Good(0)
  <2>1. [i \in 0 .. 0 |-> Step(i, 0)] = [i \in 0 .. 0 |-> Step([k \in 0 .. 0 |-> Step(k, 0)], i)]
    OBVIOUS
  <2>2. QED
    BY <2>1
<1>2. ASSUME NEW n \in Nat, Good(n) PROVE Good(n + 1)
  <2>1. PICK g : g = [i \in 0 .. n |-> Step(g, i)]
    BY <1>2
  <2> DEFINE h == [i \in 0 .. n + 1 |-> IF i = n + 1 THEN Step(g, i) ELSE g[i]]
  <2>2. \A i \in 0 .. n + 1 : h[i] = Step(h, i)
    <3> SUFFICES ASSUME NEW i \in 0 .. n + 1 PROVE h[i] = Step(h, i)
      OBVIOUS
    <3>1. i # 0 => i - 1 \in 0 .. n
      OBVIOUS
    <3>2. i # 0 => h[i - 1] = g[i - 1]
      BY <3>1
    <3>3. CASE i = n + 1
      BY <3>2, <3>3
    <3>4. CASE i # n + 1
      <4>1. i \in 0 .. n /\ h[i] = g[i]
        BY <3>4
      <4>2. g[i] = Step(g, i)
        BY <2>1, <4>1
      <4>3. QED
        BY <3>2, <4>1, <4>2
    <3>5. QED
      BY <3>3, <3>4
  <2>3. h = [i \in 0 .. n + 1 |-> Step(h, i)]
    BY <2>2
  <2>4. QED
    BY <2>3
<1>3. Bad = {}
  <2> SUFFICES ASSUME Bad # {} PROVE FALSE
    OBVIOUS
  <2> HIDE DEF Good
  <2>1. PICK n \in Bad : \A k \in Bad : n <= k
    BY Least
  <2>2. n # 0 /\ n - 1 \in Nat
    BY <1>1, <2>1
  <2>3. Good(n - 1)
    BY <2>1, <2>2
  <2>4. Good((n - 1) + 1)
    BY <1>2, <2>2, <2>3
  <2>5. QED
    BY <2>1, <2>4
<1>4. whole = [i \in 0 .. depth |-> Step(whole, i)]
  <2>1. Good(depth)
    <3> HIDE DEF Good
    <3>1. QED
      BY <1>3
  <2>2. QED
    BY <2>1 DEF ReadsAfter, StepOf, OneRead, Replaced
<1> HIDE DEF whole
<1>5. \A n \in 0 .. depth : whole[n] = Step(whole, n)
  BY <1>4
<1>6. 0 \in 0 .. depth /\ \A n \in 1 .. depth : n \in 0 .. depth /\ n # 0
  OBVIOUS
<1>7. QED
  BY <1>5, <1>6 DEF whole

\* The reads after n steps get the bytes from where they are after n steps.
CoveredAfter(T, f, depth, from, to, n) ==
  LET R == ReadsAfter(f, depth, from, to - from)[n] IN
  /\ R \in Seq(ReadOf(T))
  /\ Covers(R, [x \in from .. to - 1 |-> PlaceAfter(f, depth, x)[n]], from, to)

\* So it is after every step.
LEMMA ReadsStillCover ==
  ASSUME NEW T, Closed(T), NEW f \in T, NEW depth \in Nat, NEW from \in Nat, NEW to \in Nat, from < to,
         \A x \in from .. to - 1 : \A n \in 0 .. depth - 1 : Held(PlaceAfter(f, depth, x)[n])
  PROVE  \A n \in 0 .. depth : CoveredAfter(T, f, depth, from, to, n)
<1> DEFINE reads == ReadsAfter(f, depth, from, to - from)
           B(n) == [x \in from .. to - 1 |-> PlaceAfter(f, depth, x)[n]]
           Good(n) == reads[n] \in Seq(ReadOf(T)) /\ Covers(reads[n], B(n), from, to)
           Bad == {n \in 0 .. depth : ~ Good(n)}
<1>1. Good(0)
  <2> DEFINE r == [file |-> f, offset |-> from, size |-> to - from]
             S == [j \in 0 .. 1 |-> IF j = 0 THEN from ELSE to]
  <2>1. reads[0] = <<r>>
    <3>1. reads[0] = OneRead(f, from, to - from)
      BY ReadsReplaced
    <3>2. QED
      BY <3>1 DEF OneRead
  <2>2. r \in ReadOf(T)
    BY DEF ReadOf
  <2>3. r.file = f /\ r.offset = from /\ r.size = to - from
    OBVIOUS
  <2>4. S \in [0 .. 1 -> Nat] /\ S[0] = from /\ S[1] = to
    OBVIOUS
  <2> HIDE DEF r, S
  <2>5. <<r>> \in Seq(ReadOf(T)) /\ Len(<<r>>) = 1 /\ <<r>>[1] = r
    BY <2>2
  <2>6. \A k \in 0 .. r.size - 1 : B(0)[S[0] + k] = [file |-> r.file, at |-> r.offset + k]
    <3> TAKE k \in 0 .. r.size - 1
    <3>1. from + k \in from .. to - 1
      BY <2>3
    <3>2. PlaceAfter(f, depth, from + k)[0] = [file |-> f, at |-> from + k]
      BY PlacesMoved
    <3>3. QED
      BY <2>3, <2>4, <3>1, <3>2
  <2> DEFINE R == <<r>>
             C == B(0)
  <2>7. Len(R) = 1 /\ R[1] = r /\ R \in Seq(ReadOf(T))
    BY <2>5
  <2>8. \A k \in 0 .. r.size - 1 : C[S[0] + k] = [file |-> r.file, at |-> r.offset + k]
    BY <2>6
  <2>9. reads[0] = R
    BY <2>1
  <2> HIDE DEF R, C, reads
  <2>10. \A j \in 1 .. 1 : j = 1 /\ j - 1 = 0
    OBVIOUS
  <2>11. \A j \in 0 .. 1 : j = 0 \/ j = 1
    OBVIOUS
  <2>12. S[1] = S[0] + r.size
    BY <2>3, <2>4
  <2>13. Cut(R, C, S)
    BY <2>4, <2>7, <2>8, <2>10, <2>12 DEF Cut
  <2>14. \A j \in 0 .. 1 : from <= S[j] /\ S[j] <= to
    BY <2>4, <2>11
  <2>15. Covers(R, C, from, to)
    BY <2>4, <2>7, <2>13, <2>14 DEF Covers
  <2>16. QED
    BY <2>7, <2>9, <2>15 DEF C
<1>2. ASSUME NEW n \in 1 .. depth, Good(n - 1) PROVE Good(n)
  <2>1. n - 1 \in 0 .. depth - 1
    OBVIOUS
  <2>2. reads[n] = Replaced(reads[n - 1])
    BY ReadsReplaced
  <2>3. \A x \in from .. to - 1 : Held(B(n - 1)[x]) /\ B(n)[x] = Moved(B(n - 1)[x])
    <3> TAKE x \in from .. to - 1
    <3>1. PlaceAfter(f, depth, x)[n] = Moved(PlaceAfter(f, depth, x)[n - 1])
      <4>1. Moves(PlaceAfter(f, depth, x), depth)
        BY PlacesMoved
      <4>2. QED
        BY <4>1 DEF Moves
    <3>2. B(n - 1)[x] = PlaceAfter(f, depth, x)[n - 1] /\ B(n)[x] = PlaceAfter(f, depth, x)[n]
      OBVIOUS
    <3>3. Held(PlaceAfter(f, depth, x)[n - 1])
      BY <2>1
    <3>4. QED
      BY <3>1, <3>2, <3>3
  <2> DEFINE R == reads[n - 1]
             C == B(n - 1)
             D == B(n)
             Q == Replaced(R)
  <2>4. R \in Seq(ReadOf(T)) /\ Covers(R, C, from, to)
    BY <1>2
  <2>5. \A x \in from .. to - 1 : Held(C[x]) /\ D[x] = Moved(C[x])
    BY <2>3
  <2>6. reads[n] = Q
    BY <2>2
  <2> HIDE DEF R, C, D, reads
  <2>7. Q \in Seq(ReadOf(T)) /\ Covers(Q, D, from, to)
    BY <2>4, <2>5, StepsCover DEF Replaced
  <2>8. QED
    BY <2>6, <2>7 DEF D
<1> HIDE DEF reads, B, Good
<1>3. Bad = {}
  <2> SUFFICES ASSUME Bad # {} PROVE FALSE
    OBVIOUS
  <2>1. PICK n \in Bad : \A k \in Bad : n <= k
    <3>1. Bad \subseteq Nat
      OBVIOUS
    <3> HIDE DEF Bad
    <3>2. QED
      BY <3>1, Least
  <2>2. n \in 1 .. depth /\ n - 1 \in 0 .. depth
    BY <1>1, <2>1
  <2>3. Good(n - 1)
    BY <2>1, <2>2
  <2>4. QED
    BY <1>2, <2>1, <2>2, <2>3
<1>4. \A n \in 0 .. depth : Good(n)
  BY <1>3
<1>5. QED
  BY <1>4 DEF Good, B, reads, CoveredAfter

\* The bytes at the places B[a] .. B[b - 1].
Byte(B, x) == <<B[x].file.nzb, B[x].at>>
Bytes(B, a, b) == [k \in 1 .. b - a |-> Byte(B, a + k - 1)]
BytesOf(r) == [k \in 1 .. r.size |-> <<r.file.nzb, r.offset + k - 1>>]

BytesIn(B, a, b, X) == \A x \in a .. b - 1 : Byte(B, x) \in X

\* The bytes of one range and of the one behind it.
LEMMA BytesJoined ==
  ASSUME NEW B, NEW X, NEW a \in Nat, NEW b \in Nat, NEW c \in Nat, a <= b, b <= c,
         BytesIn(B, a, c, X)
  PROVE  Bytes(B, a, b) \o Bytes(B, b, c) = Bytes(B, a, c)
<1> DEFINE U == Bytes(B, a, b)
           V == Bytes(B, b, c)
           W == Bytes(B, a, c)
<1>1. /\ b - a \in Nat /\ c - b \in Nat /\ c - a \in Nat /\ c - a = (b - a) + (c - b)
      /\ \A k \in 1 .. b - a : a + k - 1 \in a .. c - 1
      /\ \A k \in 1 .. c - b : b + k - 1 \in a .. c - 1
      /\ \A k \in 1 .. c - a : a + k - 1 \in a .. c - 1
  OBVIOUS
<1>2. U \in [1 .. b - a -> X] /\ V \in [1 .. c - b -> X] /\ W \in [1 .. c - a -> X]
  BY <1>1 DEF Bytes, BytesIn
<1>3. /\ \A k \in 1 .. b - a : U[k] = Byte(B, a + k - 1)
      /\ \A k \in 1 .. c - b : V[k] = Byte(B, b + k - 1)
      /\ \A k \in 1 .. c - a : W[k] = Byte(B, a + k - 1)
  BY DEF Bytes
<1> HIDE DEF U, V, W
<1>4. U \in Seq(X) /\ Len(U) = b - a
  BY <1>1, <1>2, IsSequence
<1>5. V \in Seq(X) /\ Len(V) = c - b
  BY <1>1, <1>2, IsSequence
<1>6. W \in Seq(X) /\ Len(W) = c - a
  BY <1>1, <1>2, IsSequence
<1>7. /\ U \o V \in Seq(X) /\ Len(U \o V) = (b - a) + (c - b)
      /\ \A k \in 1 .. (b - a) + (c - b) : (U \o V)[k] = IF k <= b - a THEN U[k] ELSE V[k - (b - a)]
  <2>1. /\ U \o V \in Seq(X) /\ Len(U \o V) = Len(U) + Len(V)
        /\ \A k \in 1 .. Len(U) + Len(V) : (U \o V)[k] = IF k <= Len(U) THEN U[k] ELSE V[k - Len(U)]
    BY <1>4, <1>5, ConcatProperties
  <2>2. QED
    BY <1>4, <1>5, <2>1
<1>8. Len(U \o V) = Len(W)
  BY <1>1, <1>6, <1>7
<1>9. \A k \in 1 .. Len(W) : (U \o V)[k] = W[k]
  <2> TAKE k \in 1 .. Len(W)
  <2>1. k \in 1 .. c - a /\ k \in 1 .. (b - a) + (c - b)
    BY <1>1, <1>6
  <2>2. CASE k <= b - a
    <3>1. k \in 1 .. b - a
      BY <1>1, <2>1, <2>2
    <3>2. QED
      BY <1>3, <1>7, <2>1, <2>2, <3>1
  <2>3. CASE ~ (k <= b - a)
    <3>1. k - (b - a) \in 1 .. c - b /\ b + (k - (b - a)) - 1 = a + k - 1
      BY <1>1, <2>1, <2>3
    <3>2. QED
      BY <1>3, <1>7, <2>1, <2>3, <3>1
  <2>4. QED
    BY <2>2, <2>3
<1>10. U \o V = W
  <2> DEFINE Y == U \o V
  <2>1. Y \in Seq(X) /\ Len(Y) = Len(W) /\ \A k \in 1 .. Len(W) : Y[k] = W[k]
    BY <1>7, <1>8, <1>9
  <2> HIDE DEF Y
  <2>2. Y = W
    BY <1>6, <2>1, SeqEqual
  <2>3. QED
    BY <2>2 DEF Y
<1>11. QED
  BY <1>10 DEF U, V, W

\* What reads of the bytes at some places get.
LEMMA BytesOfReads ==
  ASSUME NEW T, Closed(T), NEW R \in Seq(ReadOf(T)), NEW B, NEW a \in Nat, NEW b \in Nat, a < b, Covers(R, B, a, b)
  PROVE  BytesRead(R) = Bytes(B, a, b)
<1> DEFINE m == Len(R)
           Q == [i \in DOMAIN R |-> BytesOf(R[i])]
           X == Nat \X Nat
<1>0. BytesRead(R) = FlattenSeq(Q)
  BY DEF BytesRead, BytesOf
<1>1. m \in Nat /\ DOMAIN R = 1 .. m /\ \A j \in 1 .. m : R[j] \in ReadOf(T)
  BY LenProperties, ElementOfSeq
<1>2. PICK S : /\ Cut(R, B, S) /\ S[0] = a /\ S[m] = b
              /\ \A j \in 0 .. m : a <= S[j] /\ S[j] <= b
  BY DEF Covers
<1>3. /\ S \in [0 .. m -> Nat]
      /\ \A j \in 1 .. m :
           /\ S[j] = S[j - 1] + R[j].size
           /\ \A k \in 0 .. R[j].size - 1 : B[S[j - 1] + k] = [file |-> R[j].file, at |-> R[j].offset + k]
  BY <1>2 DEF Cut
<1> HIDE DEF m
<1>4. m \in Nat \ {0}
  BY <1>1, <1>2
<1>5. ASSUME NEW j \in 1 .. m
      PROVE  /\ Q[j] = Bytes(B, S[j - 1], S[j]) /\ Q[j] \in Seq(X)
             /\ \A x \in S[j - 1] .. S[j] - 1 : Byte(B, x) \in X
  <2> DEFINE r == R[j]
             base == S[j - 1]
  <2>1. r \in ReadOf(T) /\ Q[j] = BytesOf(r)
    BY <1>1
  <2>2. r.size \in Nat /\ r.offset \in Nat /\ r.file.nzb \in Nat
    BY <2>1 DEF ReadOf, Closed, FileOf
  <2>3. base \in Nat /\ S[j] = base + r.size
    <3>1. j - 1 \in 0 .. m
      BY <1>1
    <3>2. QED
      BY <1>3, <3>1
  <2>4. \A k \in 0 .. r.size - 1 : B[base + k] = [file |-> r.file, at |-> r.offset + k]
    BY <1>3
  <2> HIDE DEF r, base, Q
  <2>5. \A k \in 0 .. r.size - 1 : Byte(B, base + k) = <<r.file.nzb, r.offset + k>> /\ r.offset + k \in Nat
    <3> TAKE k \in 0 .. r.size - 1
    <3> DEFINE p == [file |-> r.file, at |-> r.offset + k]
    <3>1. B[base + k] = p /\ p.file = r.file /\ p.at = r.offset + k
      BY <2>4
    <3>2. r.offset + k \in Nat
      BY <2>2
    <3> HIDE DEF p
    <3>3. QED
      BY <3>1, <3>2 DEF Byte
  <2>6. \A k \in 1 .. r.size : k - 1 \in 0 .. r.size - 1 /\ base + (k - 1) = base + k - 1 /\ r.offset + (k - 1) = r.offset + k - 1
    BY <2>2, <2>3
  <2>7. \A k \in 1 .. r.size : Byte(B, base + k - 1) = <<r.file.nzb, r.offset + k - 1>>
    <3> TAKE k \in 1 .. r.size
    <3>1. Byte(B, base + (k - 1)) = <<r.file.nzb, r.offset + (k - 1)>>
      BY <2>5, <2>6
    <3>2. QED
      BY <2>6, <3>1
  <2>8. S[j] - base = r.size
    BY <2>2, <2>3
  <2>9. Bytes(B, base, S[j]) = BytesOf(r)
    BY <2>7, <2>8 DEF Bytes, BytesOf
  <2>10. \A x \in base .. S[j] - 1 : Byte(B, x) \in X
    <3> TAKE x \in base .. S[j] - 1
    <3>1. x - base \in 0 .. r.size - 1 /\ base + (x - base) = x
      BY <2>2, <2>3
    <3>2. Byte(B, x) = <<r.file.nzb, r.offset + (x - base)>> /\ r.offset + (x - base) \in Nat
      BY <2>5, <3>1
    <3>3. QED
      BY <2>2, <3>2
  <2>11. BytesOf(r) \in Seq(X)
    <3> DEFINE s == BytesOf(r)
    <3>1. \A k \in 1 .. r.size : <<r.file.nzb, r.offset + k - 1>> \in X
      BY <2>2
    <3>2. s \in [1 .. r.size -> X]
      BY <3>1 DEF BytesOf
    <3> HIDE DEF s, X
    <3>3. s \in Seq(X)
      BY <2>2, <3>2, IsSequence
    <3>4. QED
      BY <3>3 DEF s
  <2>12. QED
    BY <2>1, <2>9, <2>10, <2>11 DEF base
<1> HIDE DEF X
<1>6. Q \in [1 .. m -> Seq(X)]
  <2>1. DOMAIN Q = 1 .. m /\ Q = [i \in DOMAIN Q |-> Q[i]]
    BY <1>1
  <2> HIDE DEF Q
  <2>2. QED
    BY <1>5, <2>1
<1> HIDE DEF Q
<1>7. PICK G \in [1 .. m -> Seq(X)] : Joins(G, Q, m)
  BY <1>4, <1>6, Flattening
<1>8. G[1] = Q[1] /\ (\A i \in 2 .. m : G[i] = G[i - 1] \o Q[i]) /\ FlattenSeq(Q) = G[m]
  BY <1>7 DEF Joins
<1> DEFINE Good(j) == G[j] = Bytes(B, a, S[j]) /\ \A x \in a .. S[j] - 1 : Byte(B, x) \in X
           Not == {j \in 1 .. m : ~ Good(j)}
<1>9. Good(1)
  <2>1. 1 \in 1 .. m /\ S[1 - 1] = a
    BY <1>2, <1>4
  <2>2. QED
    BY <1>5, <1>8, <2>1
<1>10. ASSUME NEW j \in 2 .. m, Good(j - 1) PROVE Good(j)
  <2>1. j \in 1 .. m /\ j \in 0 .. m /\ j - 1 \in 0 .. m
    BY <1>4
  <2>2. S[j - 1] \in Nat /\ S[j] \in Nat /\ a <= S[j - 1] /\ R[j].size \in Nat /\ S[j] = S[j - 1] + R[j].size
    BY <1>1, <1>2, <1>3, <2>1 DEF ReadOf
  <2>3. S[j - 1] <= S[j]
    BY <2>2
  <2>4. \A x \in a .. S[j] - 1 : Byte(B, x) \in X
    <3> TAKE x \in a .. S[j] - 1
    <3>1. x \in a .. S[j - 1] - 1 \/ x \in S[j - 1] .. S[j] - 1
      BY <2>2
    <3>2. QED
      BY <1>5, <1>10, <2>1, <3>1
  <2>5. G[j] = Bytes(B, a, S[j - 1]) \o Bytes(B, S[j - 1], S[j])
    BY <1>5, <1>8, <1>10, <2>1
  <2>6. Bytes(B, a, S[j - 1]) \o Bytes(B, S[j - 1], S[j]) = Bytes(B, a, S[j])
    <3> DEFINE p == S[j - 1]
               q == S[j]
    <3>1. p \in Nat /\ q \in Nat /\ a <= p /\ p <= q /\ BytesIn(B, a, q, X)
      BY <2>2, <2>3, <2>4 DEF BytesIn
    <3> HIDE DEF p, q
    <3>2. Bytes(B, a, p) \o Bytes(B, p, q) = Bytes(B, a, q)
      BY <3>1, BytesJoined
    <3>3. QED
      BY <3>2 DEF p, q
  <2>7. QED
    BY <2>4, <2>5, <2>6
<1> HIDE DEF Good
<1>11. Not = {}
  <2> SUFFICES ASSUME Not # {} PROVE FALSE
    OBVIOUS
  <2>1. PICK n \in Not : \A k \in Not : n <= k
    <3>1. Not \subseteq Nat
      BY <1>4
    <3> HIDE DEF Not
    <3>2. QED
      BY <3>1, Least
  <2>2. n \in 2 .. m /\ n - 1 \in 1 .. m
    BY <1>4, <1>9, <2>1
  <2>3. Good(n - 1)
    BY <2>1, <2>2
  <2>4. QED
    BY <1>10, <2>1, <2>2, <2>3
<1>12. m \in 1 .. m
  BY <1>4
<1>13. G[m] = Bytes(B, a, b)
  BY <1>2, <1>11, <1>12 DEF Good
<1>14. QED
  BY <1>0, <1>8, <1>13

\* A read gets the bytes it asks for.
LEMMA ReadBytes ==
  ASSUME NEW T, Closed(T), NEW f \in T, NEW depth \in Nat \ {0}, NEW from \in Nat, NEW to \in Nat, from < to,
         \A o \in from .. to - 1 : HasByte(f, depth, o)
  PROVE  /\ BytesRead(NZBReads(f, depth, from, to - from)) = [k \in 1 .. to - from |-> ByteAt(f, depth, from + k - 1)]
         /\ f.nzb = 0 => Ranges(f, from, to) = Reads(f, from, to - from)
<1>1. \A x \in from .. to - 1 : \A n \in 0 .. depth - 1 : Held(PlaceAfter(f, depth, x)[n])
  BY DEF HasByte, Held
<1> DEFINE R == ReadsAfter(f, depth, from, to - from)[depth]
           B == [x \in from .. to - 1 |-> PlaceAfter(f, depth, x)[depth]]
<1>2. R \in Seq(ReadOf(T)) /\ Covers(R, B, from, to)
  <2>1. depth \in Nat /\ depth \in 0 .. depth
    OBVIOUS
  <2>2. CoveredAfter(T, f, depth, from, to, depth)
    <3> HIDE DEF R, B
    <3>1. QED
      BY <1>1, <2>1, ReadsStillCover
  <2>3. QED
    BY <2>2 DEF CoveredAfter
<1>3. R = NZBReads(f, depth, from, to - from)
  BY DEF NZBReads
<1>4. Bytes(B, from, to) = [k \in 1 .. to - from |-> ByteAt(f, depth, from + k - 1)]
  <2>1. \A k \in 1 .. to - from : from + k - 1 \in from .. to - 1
    OBVIOUS
  <2>2. \A x \in from .. to - 1 : Byte(B, x) = ByteAt(f, depth, x)
    BY DEF Byte, ByteAt
  <2> HIDE DEF B
  <2>3. QED
    BY <2>1, <2>2 DEF Bytes
<1> HIDE DEF R, B
<1>5. BytesRead(R) = Bytes(B, from, to)
  BY <1>2, BytesOfReads
<1>6. ASSUME f.nzb = 0 PROVE Ranges(f, from, to) = Reads(f, from, to - from)
  <2>1. 0 \in 0 .. depth - 1 /\ to - 1 \in from .. to - 1
    OBVIOUS
  <2>2. PlaceAfter(f, depth, to - 1)[0] = [file |-> f, at |-> to - 1]
    <3>1. depth \in Nat
      OBVIOUS
    <3>2. QED
      BY <3>1, PlacesMoved
  <2>3. Held([file |-> f, at |-> to - 1])
    BY <1>1, <2>1, <2>2
  <2>4. to - 1 < f.size /\ \A k \in DOMAIN f.parts : f.parts[k].size # 0
    BY <1>6, <2>3 DEF Held
  <2>5. FileOf(f)
    BY DEF Closed
  <2>6. Whole(f)
    <3>1. f.size # 0
      BY <2>4
    <3>2. QED
      BY <1>6, <2>5, <3>1 DEF FileOf
  <2>7. PICK P, E, c : Laid(f, P, E, c)
    BY <2>4, <2>5, <2>6, FinalizeLays DEF FileOf, Whole
  <2>8. f.size \in Nat
    BY <2>7, LaidNumbers
  <2>9. to <= f.size
    BY <2>4, <2>8
  <2>10. PICK first, last \in 1 .. c : Met(f, E, c, from, to, first, last)
    BY <2>7, <2>9, PartsMet
  <2>11. Reads(f, from, to - from) = Pieces(P, E, from, to, first, last)
    BY <2>7, <2>9, <2>10, ReadsArePieces
  <2>12. Ranges(f, from, to) = Pieces(P, E, from, to, first, last)
    BY <2>7, <2>9, <2>10, RangesArePieces
  <2>13. QED
    BY <2>11, <2>12
<1>7. QED
  BY <1>3, <1>4, <1>5, <1>6

\* A read of a file in the directory gets the bytes it asks for, whatever parts they
\* are in, and CountMissingBytesInRange and BufferNextSegmentInRange ask for the same,
\* if no file on the way to a byte is too short for it or has an empty part.
THEOREM ReadsRightAlways == Spec => []ReadsRight
<1>1. TypeInv => ReadsRight
  <2> SUFFICES ASSUME TypeInv, NEW e \in content, NEW from \in 0 .. e.file.size, NEW to \in from + 1 .. e.file.size,
                      \A o \in from .. to - 1 : HasByte(e.file, Len(e.path), o)
               PROVE  /\ BytesRead(NZBReads(e.file, Len(e.path), from, to - from))
                           = [k \in 1 .. to - from |-> ByteAt(e.file, Len(e.path), from + k - 1)]
                      /\ e.file.nzb = 0 => Ranges(e.file, from, to) = Reads(e.file, from, to - from)
    BY DEF ReadsRight
  <2>1. EntryOK(e)
    BY DEF TypeInv, DataTypes, ContentOK
  <2> DEFINE depth == Len(e.path)
  <2>2. depth \in Nat \ {0}
    BY <2>1 DEF EntryOK, IsPath
  <2>3. e.file.size \in Nat
    BY <2>1 DEF EntryOK, FileOK
  <2>4. from \in Nat /\ to \in Nat /\ from < to
    BY <2>3
  <2>5. PICK T : Closed(T) /\ e.file \in T
    BY <2>1 DEF EntryOK, FileOK, Made
  <2> HIDE DEF depth
  <2>6. \A o \in from .. to - 1 : HasByte(e.file, depth, o)
    BY DEF depth
  <2>7. /\ BytesRead(NZBReads(e.file, depth, from, to - from)) = [k \in 1 .. to - from |-> ByteAt(e.file, depth, from + k - 1)]
        /\ e.file.nzb = 0 => Ranges(e.file, from, to) = Reads(e.file, from, to - from)
    BY <2>2, <2>4, <2>5, <2>6, ReadBytes
  <2>8. QED
    BY <2>7 DEF depth
<1>2. QED
  BY <1>1, TypesAlways, PTL

-----------------------------------------------------------------------------
(* The count of the parts.                                                 *)

Pending(nms) == {i \in File : nms[i] \in {"asked", "named", "unnamed"}}
Scoped(S) == {c \in S : HasScope(c)}

\* The ids tell chains apart, and one that began with a file of the NZB has that
\* file behind it.
Distinct(S) == \A c, d \in S : c.id = d.id => c = d
IdsOK ==
  /\ Distinct(chains)
  /\ \A c \in chains : c.id # 0 /\ (c.id \in File => names[c.id] = "over")

\* The loop of Mount asks a file once.
NotAsked == \A i \in File : i >= next => names[i] = "none"

CountInv == IdsOK /\ NotAsked /\ ScopesCounted

\* The sets that are counted are finite.
LEMMA CountsAreNumbers ==
  ASSUME MounterTypes, DataTypes
  PROVE  /\ IsFiniteSet(Scoped(chains)) /\ Cardinality(Scoped(chains)) \in Nat
         /\ \A nms : IsFiniteSet(Pending(nms)) /\ Cardinality(Pending(nms)) \in Nat
<1>1. IsFiniteSet(Scoped(chains))
  BY FS_Subset DEF DataTypes, ChainsOK, Scoped
<1>2. ASSUME NEW nms PROVE IsFiniteSet(Pending(nms))
  BY FileFacts, FS_Subset DEF MounterTypes, Pending
<1>3. QED
  BY <1>1, <1>2, FS_CardinalityType

LEMMA CountDef ==
  ScopesCounted <=>
    total + lost = loaded + Cardinality(Pending(names)) + Cardinality(Scoped(chains))
BY DEF ScopesCounted, Pending, Scoped

\* A step that adds as many parts as are loaded or held by somebody.
LEMMA StillCounted ==
  ASSUME MounterTypes, DataTypes, ScopesCounted, nzb' = nzb, NEW n,
         total' + lost' = total + lost + n,
         loaded' + Cardinality(Pending(names')) + Cardinality(Scoped(chains'))
           = loaded + Cardinality(Pending(names)) + Cardinality(Scoped(chains)) + n
  PROVE  ScopesCounted'
<1> DEFINE held == loaded + Cardinality(Pending(names)) + Cardinality(Scoped(chains))
           held1 == loaded' + Cardinality(Pending(names')) + Cardinality(Scoped(chains'))
<1>1. total + lost = held
  BY CountDef
<1>2. ScopesCounted' <=> total' + lost' = held1
  BY DEF ScopesCounted, Pending, Scoped, File
<1>3. held1 = held + n
  OBVIOUS
<1> HIDE DEF held, held1
<1>4. total' + lost' = held1
  BY <1>1, <1>3
<1>5. QED
  BY <1>2, <1>4

\* What one chain's place has, before and after.
LEMMA ScopedReplaced ==
  ASSUME MounterTypes, DataTypes, Distinct(chains), NEW c \in chains,
         NEW d, d.id = c.id
  PROVE  LET n == IF HasScope(c) THEN 1 ELSE 0
             m == IF HasScope(d) THEN 1 ELSE 0
             k == Cardinality(Scoped(chains)) IN
         /\ Distinct(chains \ {c}) /\ Distinct((chains \ {c}) \cup {d})
         /\ Cardinality(Scoped(chains \ {c})) = k - n
         /\ Cardinality(Scoped((chains \ {c}) \cup {d})) = k - n + m
<1> DEFINE rest == chains \ {c}
           n == IF HasScope(c) THEN 1 ELSE 0
           m == IF HasScope(d) THEN 1 ELSE 0
           k == Cardinality(Scoped(chains))
<1>1. \A e \in rest : e.id # c.id
  BY DEF Distinct
<1>2. Distinct(rest) /\ Distinct(rest \cup {d})
  BY <1>1 DEF Distinct
<1>3. IsFiniteSet(Scoped(chains)) /\ k \in Nat
  BY CountsAreNumbers
<1>4. Scoped(rest) = Scoped(chains) \ {c} /\ (c \in Scoped(chains) <=> HasScope(c))
  BY DEF Scoped
<1>5. IsFiniteSet(Scoped(rest)) /\ Cardinality(Scoped(rest)) = k - n
  <2>1. /\ IsFiniteSet(Scoped(rest))
        /\ Cardinality(Scoped(rest)) = IF c \in Scoped(chains) THEN k - 1 ELSE k
    BY <1>3, <1>4, FS_RemoveElement
  <2> HIDE DEF k, rest
  <2>2. QED
    BY <1>3, <1>4, <2>1
<1>6. d \notin Scoped(rest)
  BY <1>1 DEF Scoped
<1>7. Scoped(rest \cup {d}) = IF HasScope(d) THEN Scoped(rest) \cup {d} ELSE Scoped(rest)
  BY DEF Scoped
<1> HIDE DEF rest
<1>8. Cardinality(Scoped(rest \cup {d})) = k - n + m
  <2>1. Cardinality(Scoped(rest) \cup {d}) = k - n + 1
    BY <1>3, <1>5, <1>6, FS_AddElement
  <2> HIDE DEF k, n
  <2>2. k - n + 0 = k - n
    BY <1>3 DEF n
  <2>3. QED
    BY <1>5, <1>7, <2>1, <2>2
<1>9. QED
  BY <1>2, <1>5, <1>8 DEF rest

\* What a handler may start: one chain that goes on and one that is new.
MoreOK(id, more) ==
  /\ IsFiniteSet(more) /\ Distinct(more)
  /\ \A d \in more : ChainOK(d) /\ JustAsked(d) /\ d.id \in {0, id}

LEMMA StartsMore ==
  ASSUME NEW id, id # 0, NEW on, NEW new, StartOK(id, on), StartOK(0, new)
  PROVE  MoreOK(id, on \cup new)
<1>1. IsFiniteSet(on \cup new)
  BY StartsFinite, FS_Union
<1>2. \A d \in on \cup new : ChainOK(d) /\ JustAsked(d) /\ d.id \in {0, id}
  BY DEF StartOK
<1>3. Distinct(on \cup new)
  BY DEF Distinct, StartOK
<1>4. QED
  BY <1>1, <1>2, <1>3 DEF MoreOK

\* What starts has a scope, and each its own id.
LEMMA StartedScoped ==
  ASSUME MounterTypes, DataTypes, NEW id, id # 0, id # FreeID,
         NEW more, MoreOK(id, more)
  PROVE  /\ \A e \in Started(more) : HasScope(e) /\ e.id \in {id, FreeID}
         /\ Distinct(Started(more))
         /\ IsFiniteSet(Started(more)) /\ Cardinality(Started(more)) \in Nat
         /\ Cardinality(more \ Busy(more)) \in Nat
         /\ Cardinality(more) = Cardinality(Started(more)) + Cardinality(more \ Busy(more))
<1> DEFINE ID(d) == IF d.id = 0 THEN FreeID ELSE d.id
           start == [d \in Busy(more) |-> [d EXCEPT !.id = ID(d)]]
<1>1. IsFiniteSet(more) /\ \A d \in more : ChainOK(d) /\ JustAsked(d)
  BY DEF MoreOK
<1>2. FreeID \in Nat /\ FreeID # 0
  BY FreeIDFacts, FileFacts DEF DataTypes, MounterTypes
<1>3. Started(more) = {start[d] : d \in Busy(more)} /\ DOMAIN start = Busy(more)
  BY DEF Started
<1>4. Busy(more) \subseteq more /\ \A d \in Busy(more) : 1 \in DOMAIN d.reads
  BY DEF Busy
<1>5. \A d \in more : ID(d) \in Nat /\ ID(d) \in {id, FreeID}
  BY <1>1, <1>2 DEF MoreOK, ChainOK, ChainBase
<1>6. \A d \in Busy(more) : start[d].id = ID(d) /\ start[d].reads = d.reads
  <2> SUFFICES ASSUME NEW d \in Busy(more) PROVE start[d].id = ID(d) /\ start[d].reads = d.reads
    OBVIOUS
  <2> DEFINE n == ID(d)
  <2>1. ChainOK(d) /\ n \in Nat
    BY <1>1, <1>4, <1>5
  <2>2. start[d] = [d EXCEPT !.id = n]
    OBVIOUS
  <2> HIDE DEF n, start
  <2>3. start[d].id = n /\ start[d].reads = d.reads
    BY <2>1, <2>2, Renumbered
  <2>4. QED
    BY <2>3 DEF n
<1>7. \A d, e \in more : ID(d) = ID(e) => d = e
  <2>1. \A d, e \in more : ID(d) = ID(e) => d.id = e.id
    BY DEF MoreOK
  <2> HIDE DEF ID
  <2>2. QED
    BY <2>1 DEF MoreOK, Distinct
<1> HIDE DEF start, ID
<1>8. Distinct(Started(more))
  BY <1>3, <1>4, <1>6, <1>7 DEF Distinct
<1>9. \A e \in Started(more) : HasScope(e) /\ e.id \in {id, FreeID}
  <2> SUFFICES ASSUME NEW d \in Busy(more)
               PROVE  HasScope(start[d]) /\ start[d].id \in {id, FreeID}
    BY <1>3
  <2>1. 1 \in DOMAIN d.reads /\ d.reads[1].state \in {"asked", "junk"}
    BY <1>1, <1>4 DEF JustAsked
  <2>2. QED
    BY <1>4, <1>5, <1>6, <2>1 DEF HasScope
<1>10. /\ IsFiniteSet(Busy(more)) /\ IsFiniteSet(Started(more))
       /\ Cardinality(Started(more)) = Cardinality(Busy(more))
  <2>1. start \in Surjection(Busy(more), Started(more))
    BY <1>3 DEF Surjection, start
  <2>2. \A d, e \in Busy(more) : start[d] = start[e] => d = e
    BY <1>4, <1>6, <1>7
  <2>3. start \in Injection(Busy(more), Started(more))
    BY <2>1, <2>2 DEF Surjection, Injection, IsInjective
  <2>4. IsFiniteSet(Busy(more))
    BY <1>1, <1>4, FS_Subset
  <2>5. QED
    BY <2>1, <2>3, <2>4, FS_Surjection
<1>11. /\ Cardinality(Busy(more)) \in Nat /\ Cardinality(more \ Busy(more)) \in Nat
       /\ Cardinality(more) = Cardinality(Busy(more)) + Cardinality(more \ Busy(more))
  <2>1. more \cap Busy(more) = Busy(more)
    BY <1>4
  <2>2. /\ IsFiniteSet(more \ Busy(more))
        /\ Cardinality(more \ Busy(more)) = Cardinality(more) - Cardinality(Busy(more))
    BY <1>1, <2>1, FS_Difference
  <2>3. /\ Cardinality(Busy(more)) \in Nat /\ Cardinality(more \ Busy(more)) \in Nat
        /\ Cardinality(more) \in Nat
    BY <1>1, <1>10, <2>2, FS_CardinalityType
  <2>4. QED
    BY <2>2, <2>3
<1>12. QED
  BY <1>1, <1>8, <1>9, <1>10, <1>11

\* The chain with this id, if there is one, makes room for what starts.  n is its own
\* scope, and idle are those that have nothing to read.
OwnScope(id, n) == n \in {0, 1} /\ (n = 1 <=> \E c \in chains : c.id = id /\ HasScope(c))
AfterStart(id, more) == {c \in chains : c.id # id} \cup Started(more)

NewScopes(id, more, n, chs) ==
  LET idle == Cardinality(more \ Busy(more)) IN
  /\ Distinct(chs) /\ \A c \in chs : c \in chains \/ c.id \in {id, FreeID}
  /\ idle \in Nat /\ Cardinality(more) \in Nat
  /\ \A p \in Nat : (loaded + idle + n) + p + Cardinality(Scoped(chs))
                      = loaded + p + Cardinality(Scoped(chains)) + Cardinality(more)

LEMMA NewChainsScoped ==
  ASSUME MounterTypes, DataTypes, IdsOK, NEW id, id # 0, id # FreeID,
         NEW more, MoreOK(id, more),
         NEW n, OwnScope(id, n)
  PROVE  NewScopes(id, more, n, AfterStart(id, more))
<1> DEFINE stay == {c \in chains : c.id # id}
           start == Started(more)
           idle == Cardinality(more \ Busy(more))
           k == Cardinality(Scoped(chains))
           s == Cardinality(start)
<1>1. /\ \A e \in start : HasScope(e) /\ e.id \in {id, FreeID}
      /\ Distinct(start) /\ IsFiniteSet(start) /\ s \in Nat
      /\ idle \in Nat /\ Cardinality(more) = s + idle
  BY StartedScoped
<1>2. \A c \in stay : c.id # id /\ c.id # FreeID
  <2>1. \A c \in chains : c.id # FreeID
    BY FreeIDFacts DEF DataTypes
  <2> HIDE DEF start
  <2>2. QED
    BY <2>1
<1>3. IsFiniteSet(Scoped(chains)) /\ k \in Nat
  BY CountsAreNumbers
<1>4. IsFiniteSet(Scoped(stay)) /\ Cardinality(Scoped(stay)) = k - n
  <2>1. CASE n = 1
    <3>1. PICK c \in chains : c.id = id /\ HasScope(c)
      BY <2>1 DEF OwnScope
    <3>2. Scoped(stay) = Scoped(chains) \ {c} /\ c \in Scoped(chains)
      BY <3>1 DEF IdsOK, Distinct, Scoped
    <3>3. IsFiniteSet(Scoped(chains) \ {c}) /\ Cardinality(Scoped(chains) \ {c}) = k - 1
      BY <1>3, <3>2, FS_RemoveElement
    <3>4. QED
      BY <2>1, <3>2, <3>3
  <2>2. CASE n = 0
    <3>1. Scoped(stay) = Scoped(chains)
      BY <2>2 DEF Scoped, OwnScope
    <3> HIDE DEF stay
    <3>2. QED
      BY <1>3, <2>2, <3>1
  <2>3. QED
    BY <2>1, <2>2 DEF OwnScope
<1>5. Distinct(stay \cup start) /\ \A c \in stay \cup start : c \in chains \/ c.id \in {id, FreeID}
  <2>1. Distinct(stay) /\ \A c \in stay : c \in chains
    BY DEF IdsOK, Distinct
  <2> HIDE DEF stay, start
  <2>2. QED
    BY <1>1, <1>2, <2>1 DEF Distinct
<1>6. Scoped(stay \cup start) = Scoped(stay) \cup start /\ Scoped(stay) \cap start = {}
  <2> HIDE DEF start
  <2>1. QED
    BY <1>1, <1>2 DEF Scoped
<1> HIDE DEF stay, start
<1>7. Cardinality(Scoped(stay \cup start)) = k - n + s
  <2>1. Cardinality(Scoped(stay) \cup start) = Cardinality(Scoped(stay)) + s - Cardinality({})
    BY <1>1, <1>4, <1>6, FS_Union
  <2>2. Cardinality({}) = 0
    BY FS_EmptySet
  <2>3. Cardinality(Scoped(stay \cup start)) = k - n + s - 0
    BY <1>4, <1>6, <2>1, <2>2
  <2> HIDE DEF k, s
  <2>4. k - n + s - 0 = k - n + s
    BY <1>1, <1>3
  <2>5. QED
    BY <2>3, <2>4
<1>8. loaded \in Nat /\ n \in {0, 1}
  BY DEF MounterTypes, OwnScope
<1> DEFINE m == Cardinality(more)
           k1 == Cardinality(Scoped(stay \cup start))
<1>9. m = s + idle /\ k1 = k - n + s
  BY <1>1, <1>7
<1> HIDE DEF idle, s, k, m, k1
<1>10. m \in Nat
  BY <1>1, <1>9
<1>11. \A p \in Nat : (loaded + idle + n) + p + k1 = loaded + p + k + m
  BY <1>1, <1>3, <1>8, <1>9
<1>12. QED
  BY <1>1, <1>5, <1>10, <1>11 DEF idle, stay, start, k, m, k1, AfterStart, NewScopes

\* A handler counts what it starts, and its own part if it has the scope.
LEMMA HandlerCounts ==
  ASSUME TypeInv, CountInv, NEW c \in chains, NEW scope, scope <=> HasScope(c),
         HandlerRuns(c.id, scope)
  PROVE  CountInv'
<1>1. PICK d, on, new, entries, parts, rars :
        /\ d.id = c.id /\ StartOK(c.id, on) /\ StartOK(0, new)
        /\ Handler(d, scope, on \cup new, entries, parts, rars)
  BY DEF HandlerRuns
<1> DEFINE n == IF scope THEN 1 ELSE 0
<1>2. PICK more : more = on \cup new
  OBVIOUS
<1>3. MounterTypes /\ DataTypes /\ IdsOK /\ NotAsked /\ ScopesCounted
  BY DEF TypeInv, CountInv
<1>4. c.id # 0 /\ c.id # FreeID /\ MoreOK(c.id, more) /\ FreeID \notin File
  <2>1. FreeID # c.id /\ FreeID \notin File
    BY <1>3, FreeIDFacts, FileFacts DEF MounterTypes, DataTypes
  <2>2. c.id # 0
    BY <1>3 DEF IdsOK
  <2>3. QED
    BY <1>1, <1>2, <2>1, <2>2, StartsMore
<1>5. n \in {0, 1} /\ (n = 1 <=> scope)
  OBVIOUS
<1>6. /\ chains' = {e \in chains : e.id # c.id} \cup Started(more)
      /\ total' = total + Cardinality(more)
      /\ loaded' = loaded + Cardinality(more \ Busy(more)) + n
      /\ nzb' = nzb /\ next' = next /\ names' = names /\ lost' = lost
  BY <1>1, <1>2 DEF Handler
<1>7. n = 1 <=> \E e \in chains : e.id = c.id /\ HasScope(e)
  <2>1. \A e \in chains : e.id = c.id => e = c
    BY <1>3 DEF IdsOK, Distinct
  <2>2. (\E e \in chains : e.id = c.id /\ HasScope(e)) <=> HasScope(c)
    BY <2>1, Zenon
  <2>3. QED
    BY <1>5, <2>2, Zenon
<1> HIDE DEF n
<1>8. /\ Distinct(chains') /\ \A e \in chains' : e \in chains \/ e.id \in {c.id, FreeID}
      /\ Cardinality(more \ Busy(more)) \in Nat /\ Cardinality(more) \in Nat
      /\ \A p \in Nat : loaded' + p + Cardinality(Scoped(chains'))
                          = loaded + p + Cardinality(Scoped(chains)) + Cardinality(more)
  <2>1. OwnScope(c.id, n) /\ chains' = AfterStart(c.id, more)
    BY <1>5, <1>6, <1>7 DEF OwnScope, AfterStart
  <2>2. NewScopes(c.id, more, n, chains')
    BY <1>3, <1>4, <2>1, NewChainsScoped
  <2>3. QED
    BY <1>6, <2>2 DEF NewScopes
<1>9. IdsOK'
  <2>1. ASSUME NEW e \in chains' PROVE e.id # 0 /\ (e.id \in File => names[e.id] = "over")
    <3>1. CASE e \in chains
      BY <1>3, <3>1 DEF IdsOK
    <3>2. CASE e.id = c.id
      BY <1>3, <3>2 DEF IdsOK
    <3>3. CASE e.id = FreeID
      <4>1. FreeID # 0
        BY <1>3, FreeIDFacts, FileFacts DEF MounterTypes, DataTypes
      <4>2. QED
        BY <1>4, <3>3, <4>1
    <3>4. QED
      BY <1>8, <3>1, <3>2, <3>3
  <2>2. Distinct(chains)'
    BY <1>8 DEF Distinct
  <2>3. QED
    BY <1>6, <2>1, <2>2 DEF IdsOK, File
<1>10. NotAsked'
  BY <1>3, <1>6 DEF NotAsked, File
<1>11. ScopesCounted'
  <2> DEFINE m == Cardinality(more)
             p == Cardinality(Pending(names))
  <2>1. p \in Nat
    BY <1>3, CountsAreNumbers
  <2>2. loaded' + Cardinality(Pending(names')) + Cardinality(Scoped(chains'))
          = loaded + Cardinality(Pending(names)) + Cardinality(Scoped(chains)) + m
    BY <1>6, <1>8, <2>1
  <2>3. total' + lost' = total + lost + m
    BY <1>3, <1>6, <1>8 DEF MounterTypes
  <2> HIDE DEF m, p
  <2>4. QED
    BY <1>3, <1>6, <2>2, <2>3, StillCounted
<1>12. QED
  BY <1>9, <1>10, <1>11 DEF CountInv

\* The handler of a name counts the file, and what it starts.
LEMMA FilenameCounts ==
  ASSUME TypeInv, CountInv, NEW i \in File, Filename(i)
  PROVE  CountInv'
<1>1. MounterTypes /\ DataTypes /\ IdsOK /\ NotAsked /\ ScopesCounted
  BY DEF TypeInv, CountInv
<1>2. PICK more, entries, parts : FilenameDoes(i, more, entries, parts)
  BY <1>1, FilenameSteps
<1>3. /\ names[i] \in {"named", "unnamed"} /\ names' = [names EXCEPT ![i] = "over"]
      /\ chains' = chains \cup Started(more)
      /\ total' = total + Cardinality(more)
      /\ loaded' = loaded + Cardinality(more \ Busy(more)) + 1
      /\ nzb' = nzb /\ next' = next /\ lost' = lost
  BY <1>2 DEF FilenameDoes
<1>4. i # 0 /\ i # FreeID /\ MoreOK(i, more) /\ FreeID \notin File /\ FreeID # 0
  <2>1. FreeID \notin File /\ FreeID # 0 /\ i # 0
    BY <1>1, FreeIDFacts, FileFacts DEF MounterTypes, DataTypes
  <2>2. StartOK(i, more) /\ StartOK(0, {}) /\ more \cup {} = more
    BY <1>2, NothingOK DEF FilenameDoes
  <2>3. QED
    BY <2>1, <2>2, StartsMore
<1>5. \A c \in chains : c.id # i
  BY <1>1, <1>3 DEF IdsOK
<1>6. chains' = {c \in chains : c.id # i} \cup Started(more)
  BY <1>3, <1>5
<1>7. /\ Distinct(chains') /\ \A e \in chains' : e \in chains \/ e.id \in {i, FreeID}
      /\ Cardinality(more \ Busy(more)) \in Nat /\ Cardinality(more) \in Nat
      /\ \A p \in Nat : (loaded + Cardinality(more \ Busy(more)) + 0) + p + Cardinality(Scoped(chains'))
                          = loaded + p + Cardinality(Scoped(chains)) + Cardinality(more)
  <2>1. OwnScope(i, 0) /\ chains' = AfterStart(i, more)
    BY <1>5, <1>6 DEF OwnScope, AfterStart
  <2>2. NewScopes(i, more, 0, chains')
    BY <1>1, <1>4, <2>1, NewChainsScoped
  <2>3. QED
    BY <2>2 DEF NewScopes
<1>8. IdsOK'
  <2>1. ASSUME NEW e \in chains' PROVE e.id # 0 /\ (e.id \in File => names'[e.id] = "over")
    BY <1>1, <1>3, <1>4, <1>7 DEF IdsOK, MounterTypes
  <2>2. Distinct(chains)'
    BY <1>7 DEF Distinct
  <2>3. QED
    BY <1>3, <2>1, <2>2 DEF IdsOK, File
<1>9. NotAsked'
  BY <1>1, <1>3 DEF NotAsked, File
<1>10. ScopesCounted'
  <2> DEFINE m == Cardinality(more)
             n == Cardinality(more \ Busy(more))
             k == Cardinality(Scoped(chains))
             k1 == Cardinality(Scoped(chains'))
             p == Cardinality(Pending(names))
             p1 == Cardinality(Pending(names'))
  <2>1. p \in Nat /\ p1 \in Nat /\ k \in Nat /\ IsFiniteSet(Pending(names))
    BY <1>1, CountsAreNumbers
  <2>2. p1 = p - 1
    <3>1. Pending(names') = Pending(names) \ {i} /\ i \in Pending(names)
      BY <1>1, <1>3 DEF Pending, MounterTypes
    <3>2. QED
      BY <2>1, <3>1, FS_RemoveElement
  <2>3. k1 \in Nat
    <3>1. IsFiniteSet(chains')
      BY <1>1, FilenameTypes DEF DataTypes, ChainsOK
    <3>2. IsFiniteSet(Scoped(chains'))
      BY <3>1, FS_Subset DEF Scoped
    <3>3. QED
      BY <3>2, FS_CardinalityType
  <2>4. n \in Nat /\ m \in Nat /\ (loaded + n + 0) + p1 + k1 = loaded + p1 + k + m
    BY <1>7, <2>1
  <2>5. loaded' = loaded + n + 1 /\ loaded \in Nat
    BY <1>1, <1>3 DEF MounterTypes
  <2> HIDE DEF n, k, k1, p, p1
  <2>6. total' + lost' = total + lost + m
    <3>1. total' = total + m /\ lost' = lost /\ total \in Nat /\ lost \in Nat
      BY <1>1, <1>3 DEF MounterTypes
    <3> HIDE DEF m
    <3>2. QED
      BY <2>4, <3>1
  <2> HIDE DEF m
  <2>7. loaded' + p1 + k1 = loaded + p + k + m
    BY <2>1, <2>2, <2>3, <2>4, <2>5
  <2>8. QED
    BY <1>1, <1>3, <2>6, <2>7, StillCounted DEF k, k1, p, p1
<1>11. QED
  BY <1>8, <1>9, <1>10 DEF CountInv

\* A step that leaves the requests for names, the counts and the ids of the chains
\* as they are.
LEMMA SameCounts ==
  ASSUME TypeInv, CountInv, nzb' = nzb, names' = names, total' = total, lost' = lost,
         loaded' = loaded, chains' = chains, next' = next \/ next = 0 \/ next' = Len(nzb) + 2
  PROVE  CountInv'
<1>1. MounterTypes /\ DataTypes /\ IdsOK /\ NotAsked /\ ScopesCounted
  BY DEF TypeInv, CountInv
<1>2. IdsOK'
  BY <1>1 DEF IdsOK, Distinct, File
<1>3. NotAsked'
  <2>1. ASSUME NEW i \in File, next' # next PROVE names[i] = "none" \/ ~(i >= next')
    <3>1. i \in 1 .. Len(nzb) /\ Len(nzb) \in Nat
      BY <1>1, FileFacts DEF MounterTypes
    <3>2. CASE next = 0
      BY <1>1, <3>1, <3>2 DEF NotAsked
    <3>3. CASE next' = Len(nzb) + 2
      BY <3>1, <3>3
    <3>4. QED
      BY <2>1, <3>2, <3>3
  <2>2. QED
    BY <1>1, <2>1 DEF NotAsked, File
<1>4. ScopesCounted'
  BY <1>1 DEF ScopesCounted, File
<1>5. QED
  BY <1>2, <1>3, <1>4 DEF CountInv

\* One chain is replaced, or gone, and reports as many parts as it had scopes more.
LEMMA ChainCounts ==
  ASSUME TypeInv, CountInv, NEW c \in chains, NEW d, d.id = c.id, NEW n \in {0, 1},
         n = 1 <=> HasScope(c) /\ ~HasScope(d), HasScope(d) => HasScope(c),
         \/ chains' = (chains \ {c}) \cup {d}
         \/ chains' = chains \ {c} /\ ~HasScope(d),
         loaded' = loaded + n, nzb' = nzb, names' = names, next' = next, total' = total, lost' = lost
  PROVE  CountInv'
<1>1. MounterTypes /\ DataTypes /\ IdsOK /\ NotAsked /\ ScopesCounted
  BY DEF TypeInv, CountInv
<1> DEFINE k == Cardinality(Scoped(chains))
           a == IF HasScope(c) THEN 1 ELSE 0
           b == IF HasScope(d) THEN 1 ELSE 0
<1>2. /\ Distinct(chains \ {c}) /\ Distinct((chains \ {c}) \cup {d})
      /\ Cardinality(Scoped(chains \ {c})) = k - a
      /\ Cardinality(Scoped((chains \ {c}) \cup {d})) = k - a + b
  BY <1>1, ScopedReplaced DEF IdsOK
<1>3. k \in Nat /\ Cardinality(Pending(names)) \in Nat /\ loaded \in Nat
  BY <1>1, CountsAreNumbers DEF MounterTypes
<1>4. n = a - b
  OBVIOUS
<1>5. Distinct(chains') /\ Cardinality(Scoped(chains')) = k - n
  <2>1. a \in {0, 1} /\ b \in {0, 1} /\ (~HasScope(d) => b = 0)
    OBVIOUS
  <2>2. k - a = k - n \/ HasScope(d)
    BY <1>4, <2>1
  <2> HIDE DEF a, b, k
  <2>3. k - a + b = k - n
    BY <1>3, <1>4, <2>1
  <2>4. QED
    BY <1>2, <2>2, <2>3
<1>6. IdsOK'
  <2>1. \A e \in chains' : e.id # 0 /\ (e.id \in File => names[e.id] = "over")
    BY <1>1 DEF IdsOK
  <2>2. Distinct(chains)'
    BY <1>5 DEF Distinct
  <2>3. QED
    BY <2>1, <2>2 DEF IdsOK, File
<1>7. NotAsked'
  BY <1>1 DEF NotAsked, File
<1>8. ScopesCounted'
  <2> DEFINE p == Cardinality(Pending(names))
             k1 == Cardinality(Scoped(chains'))
  <2>1. p \in Nat /\ k1 = k - n
    BY <1>3, <1>5
  <2> HIDE DEF p, k1, k
  <2>2. loaded' + p + k1 = loaded + p + k + 0
    BY <1>3, <2>1
  <2>3. total' + lost' = total + lost + 0
    BY <1>1 DEF MounterTypes
  <2>4. QED
    BY <1>1, <2>2, <2>3, StillCounted DEF p, k, k1
<1>9. QED
  BY <1>6, <1>7, <1>8 DEF CountInv

LEMMA DataArrivesCounts ==
  ASSUME TypeInv, CountInv, NEW c \in chains, NEW j \in DOMAIN c.reads, DataArrives(c, j)
  PROVE  CountInv'
<1> DEFINE d(s) == [c EXCEPT !.reads[j].state = s]
<1>1. /\ c.reads[j].state = "asked"
      /\ chains' = (chains \ {c}) \cup {d("arrived")} \/ chains' = (chains \ {c}) \cup {d("failed")}
      /\ nzb' = nzb /\ next' = next /\ names' = names /\ total' = total /\ loaded' = loaded /\ lost' = lost
  BY DEF DataArrives
<1>2. ChainOK(c)
  BY DEF TypeInv, DataTypes, ChainsOK
<1>3. \A s \in {"arrived", "failed"} : (HasScope(d(s)) <=> HasScope(c)) /\ d(s).id = c.id
  <2> SUFFICES ASSUME NEW s \in {"arrived", "failed"}
               PROVE  (HasScope(d(s)) <=> HasScope(c)) /\ d(s).id = c.id
    OBVIOUS
  <2>1. /\ d(s).id = c.id /\ DOMAIN d(s).reads = DOMAIN c.reads /\ d(s).reads[j].state = s
        /\ \A k \in DOMAIN c.reads : k # j => d(s).reads[k] = c.reads[k]
    BY <1>2, ReadChanged DEF ReadStates
  <2> HIDE DEF d
  <2>2. HasScope(d(s)) <=> HasScope(c)
    BY <1>1, <2>1 DEF HasScope
  <2>3. QED
    BY <2>1, <2>2
<1> HIDE DEF d
<1>4. PICK s \in {"arrived", "failed"} : chains' = (chains \ {c}) \cup {d(s)}
  BY <1>1
<1>5. (HasScope(d(s)) <=> HasScope(c)) /\ d(s).id = c.id /\ loaded' = loaded + 0
  BY <1>1, <1>3 DEF TypeInv, MounterTypes
<1>6. 0 \in {0, 1} /\ (0 = 1 <=> HasScope(c) /\ ~HasScope(d(s)))
  BY <1>5
<1>7. QED
  BY <1>1, <1>4, <1>5, <1>6, ChainCounts

\* A part of an archive that is several files is read: the first takes the scope.
LEMMA PartReadCounts ==
  ASSUME TypeInv, LifeInv, CountInv, NEW c \in chains, NEW j \in DOMAIN c.reads, PartRead(c, j)
  PROVE  CountInv'
<1>1. /\ MounterTypes /\ DataTypes /\ (HasScope(c) => ~gone)
  BY HeldByChain DEF TypeInv
<1>2. /\ j = 1 => HasScope(c)
      /\ PartCallsBack(c, j) \/ PartIsLate(c, j) \/ PartIsOne(c, j)
  BY <1>1, PartReadSteps
<1>3. ASSUME PartCallsBack(c, j) PROVE CountInv'
  <2>1. ((j = 1) <=> HasScope(c)) /\ HandlerRuns(c.id, j = 1)
    BY <1>3, Zenon DEF PartCallsBack
  <2>2. QED
    BY <2>1, HandlerCounts
<1>4. ASSUME PartIsLate(c, j) PROVE CountInv'
  <2>1. /\ gone /\ chains' = chains \ {c}
        /\ nzb' = nzb /\ next' = next /\ names' = names /\ total' = total /\ loaded' = loaded /\ lost' = lost
    BY <1>4 DEF PartIsLate
  <2>2. ~HasScope(c) /\ loaded' = loaded + 0
    BY <1>1, <2>1 DEF MounterTypes
  <2>3. 0 \in {0, 1} /\ (0 = 1 <=> HasScope(c) /\ ~HasScope(c))
    BY <2>2
  <2>4. QED
    BY <2>1, <2>2, <2>3, ChainCounts
<1>5. ASSUME PartIsOne(c, j) PROVE CountInv'
  <2> DEFINE n == IF j = 1 THEN 1 ELSE 0
  <2>1. PICK d, rest :
          /\ d.id = c.id /\ (HasScope(d) <=> HasScope(c) /\ j # 1)
          /\ rest = {d} \/ (rest = {} /\ ~HasScope(d))
          /\ chains' = (chains \ {c}) \cup rest
          /\ loaded' = loaded + n
          /\ nzb' = nzb /\ next' = next /\ names' = names /\ total' = total /\ lost' = lost
    BY <1>5 DEF PartIsOne
  <2>2. n \in {0, 1} /\ (n = 1 <=> HasScope(c) /\ ~HasScope(d))
    BY <1>2, <2>1
  <2> HIDE DEF n
  <2>3. \/ chains' = (chains \ {c}) \cup {d}
        \/ chains' = chains \ {c} /\ ~HasScope(d)
    BY <2>1
  <2>4. QED
    BY <2>1, <2>2, <2>3, ChainCounts
<1>6. QED
  BY <1>2, <1>3, <1>4, <1>5

\* The loop of Mount announces a part and asks for its name.
LEMMA AsyncGetFilenameCounts ==
  ASSUME TypeInv, CountInv, AsyncGetFilename
  PROVE  CountInv'
<1>1. MounterTypes /\ DataTypes /\ IdsOK /\ NotAsked /\ ScopesCounted
  BY DEF TypeInv, CountInv
<1>2. /\ next \in File /\ read # Nothing
      /\ total' = read + 1 /\ lost' = lost + total - read
      /\ names' = [names EXCEPT ![next] = "asked"]
      /\ next' = next + 1 /\ nzb' = nzb /\ chains' = chains /\ loaded' = loaded
  BY DEF AsyncGetFilename
<1>3. names[next] = "none" /\ \A i \in File : i >= next + 1 => i >= next /\ i # next
  BY <1>1, <1>2, FileFacts DEF NotAsked, MounterTypes
<1>4. IdsOK'
  <2>1. \A c \in chains : c.id \in File => c.id # next
    BY <1>1, <1>3 DEF IdsOK
  <2>2. \A c \in chains : c.id # 0 /\ (c.id \in File => names'[c.id] = "over")
    BY <1>1, <1>2, <2>1 DEF IdsOK, MounterTypes
  <2>3. Distinct(chains)'
    BY <1>1, <1>2 DEF IdsOK, Distinct
  <2>4. QED
    BY <1>2, <2>2, <2>3 DEF IdsOK, File
<1>5. NotAsked'
  <2>1. \A i \in File : i >= next + 1 => names'[i] = "none"
    BY <1>1, <1>2, <1>3 DEF NotAsked, MounterTypes
  <2>2. QED
    BY <1>2, <2>1 DEF NotAsked, File
<1>6. ScopesCounted'
  <2> DEFINE p == Cardinality(Pending(names))
             p1 == Cardinality(Pending(names'))
             k == Cardinality(Scoped(chains))
  <2>1. p \in Nat /\ k \in Nat /\ IsFiniteSet(Pending(names))
    BY <1>1, CountsAreNumbers
  <2>2. p1 = p + 1
    <3>1. Pending(names') = Pending(names) \cup {next} /\ next \notin Pending(names)
      BY <1>1, <1>2, <1>3 DEF Pending, MounterTypes
    <3>2. QED
      BY <2>1, <3>1, FS_AddElement
  <2>3. loaded \in Nat /\ Cardinality(Scoped(chains')) = k
    BY <1>1, <1>2 DEF MounterTypes
  <2> HIDE DEF p, p1, k
  <2>4. loaded' + p1 + k = loaded + p + k + 1
    BY <1>2, <2>1, <2>2, <2>3
  <2>5. read \in Nat /\ total \in Nat /\ lost \in Nat
    BY <1>1, <1>2 DEF MounterTypes
  <2>6. total' + lost' = total + lost + 1
    BY <1>2, <2>5
  <2>7. QED
    BY <1>1, <1>2, <2>3, <2>4, <2>6, StillCounted DEF p, p1, k
<1>7. QED
  BY <1>4, <1>5, <1>6 DEF CountInv

LEMMA MountStepCounts == TypeInv /\ CountInv /\ MountStep => CountInv'
<1> SUFFICES ASSUME TypeInv, CountInv, MountStep PROVE CountInv'
  OBVIOUS
<1>1. CASE ReadTotal
  BY <1>1, SameCounts DEF ReadTotal
<1>2. CASE AsyncGetFilename
  BY <1>2, AsyncGetFilenameCounts
<1>3. CASE MountReturns
  <2>1. /\ nzb' = nzb /\ names' = names /\ total' = total /\ lost' = lost /\ loaded' = loaded
        /\ chains' = chains /\ next = Len(nzb) + 1 /\ next' = next + 1
    BY <1>3 DEF MountReturns
  <2>2. next' = Len(nzb) + 2
    BY <2>1, FileFacts DEF TypeInv, MounterTypes
  <2>3. QED
    BY <2>1, <2>2, SameCounts
<1>4. QED
  BY <1>1, <1>2, <1>3 DEF MountStep

LEMMA NameArrivesCounts ==
  ASSUME TypeInv, CountInv, NEW i \in File, NameArrives(i)
  PROVE  CountInv'
<1>1. MounterTypes /\ DataTypes /\ IdsOK /\ NotAsked /\ ScopesCounted
  BY DEF TypeInv, CountInv
<1>2. /\ names[i] = "asked"
      /\ names' = [names EXCEPT ![i] = "named"] \/ names' = [names EXCEPT ![i] = "unnamed"]
      /\ nzb' = nzb /\ next' = next /\ total' = total /\ lost' = lost /\ loaded' = loaded /\ chains' = chains
  BY DEF NameArrives
<1>3. /\ Pending(names') = Pending(names)
      /\ \A j \in File : names[j] \in {"none", "over"} => names'[j] = names[j]
  BY <1>1, <1>2 DEF Pending, MounterTypes
<1>4. IdsOK'
  <2>1. \A c \in chains : c.id # 0 /\ (c.id \in File => names'[c.id] = "over")
    BY <1>1, <1>3 DEF IdsOK
  <2>2. Distinct(chains)'
    BY <1>1, <1>2 DEF IdsOK, Distinct
  <2>3. QED
    BY <1>2, <2>1, <2>2 DEF IdsOK, File
<1>5. NotAsked'
  <2>1. \A j \in File : j >= next => names'[j] = "none"
    BY <1>1, <1>3 DEF NotAsked
  <2>2. QED
    BY <1>2, <2>1 DEF NotAsked, File
<1>6. ScopesCounted'
  <2>1. Pending(names)' = Pending(names)
    BY <1>2, <1>3 DEF Pending, File
  <2>2. Scoped(chains)' = Scoped(chains)
    BY <1>2 DEF Scoped
  <2>3. ScopesCounted' <=> total' + lost' = loaded' + Cardinality(Pending(names)') + Cardinality(Scoped(chains)')
    BY DEF ScopesCounted, Pending, Scoped
  <2>4. QED
    BY <1>1, <1>2, <2>1, <2>2, <2>3, CountDef
<1>7. QED
  BY <1>4, <1>5, <1>6 DEF CountInv

LEMMA IoCounts == TypeInv /\ LifeInv /\ CountInv /\ (Arrival \/ IoHandler) => CountInv'
<1> SUFFICES ASSUME TypeInv, LifeInv, CountInv, Arrival \/ IoHandler PROVE CountInv'
  OBVIOUS
<1>1. \/ \E i \in File : NameArrives(i) \/ Filename(i)
      \/ \E c \in chains : \E j \in DOMAIN c.reads : DataArrives(c, j) \/ PartRead(c, j)
      \/ \E c \in chains : FileRead(c)
  BY Zenon DEF Arrival, IoHandler
<1>2. CASE \E i \in File : NameArrives(i) \/ Filename(i)
  BY <1>2, NameArrivesCounts, FilenameCounts
<1>3. CASE \E c \in chains : \E j \in DOMAIN c.reads : DataArrives(c, j) \/ PartRead(c, j)
  <2>1. PICK c \in chains : \E j \in DOMAIN c.reads : DataArrives(c, j) \/ PartRead(c, j)
    BY <1>3
  <2>2. PICK j \in DOMAIN c.reads : DataArrives(c, j) \/ PartRead(c, j)
    BY <2>1
  <2>3. QED
    BY <2>2, DataArrivesCounts, PartReadCounts
<1>4. CASE \E c \in chains : FileRead(c)
  <2>1. PICK c \in chains : FileRead(c)
    BY <1>4
  <2>2. HandlerRuns(c.id, TRUE) /\ HasScope(c)
    BY <2>1, FileReadRuns DEF TypeInv
  <2>3. TRUE <=> HasScope(c)
    BY <2>2
  <2>4. QED
    BY <2>2, <2>3, HandlerCounts
<1>5. QED
  BY <1>1, <1>2, <1>3, <1>4

\* A Cancel reports every part whose holder it takes away.
LEMMA CancelCounts ==
  ASSUME TypeInv, CountInv, CancelDoes
  PROVE  CountInv'
<1>1. MounterTypes /\ DataTypes /\ IdsOK /\ NotAsked /\ ScopesCounted
  BY DEF TypeInv, CountInv
<1>2. /\ names' = [i \in File |-> IF names[i] = "asked" THEN "over" ELSE names[i]]
      /\ chains' \subseteq {Erased(c) : c \in chains}
      /\ \A c \in chains : HasScope(Erased(c)) => Erased(c) \in chains'
      /\ Cardinality(Unscoped) \in Nat /\ Cardinality(Asked) \in Nat
      /\ loaded' = loaded + Cardinality(Unscoped) + Cardinality(Asked)
      /\ nzb' = nzb /\ next' = next /\ total' = total /\ lost' = lost
  BY DEF CancelDoes
<1>3. \A c \in chains : Erased(c).id = c.id /\ (HasScope(Erased(c)) => HasScope(c))
  BY <1>1, ErasedOK DEF DataTypes, ChainsOK
<1>4. IdsOK'
  <2>1. \A d \in chains' : \E c \in chains : d = Erased(c) /\ d.id = c.id
    BY <1>2, <1>3
  <2>2. \A c \in chains : c.id # 0 /\ (c.id \in File => names'[c.id] = "over")
    BY <1>1, <1>2 DEF IdsOK
  <2>3. \A d \in chains' : d.id # 0 /\ (d.id \in File => names'[d.id] = "over")
    BY <2>1, <2>2
  <2>4. \A d, e \in chains' : d.id = e.id => d = e
    <3> SUFFICES ASSUME NEW d \in chains', NEW e \in chains', d.id = e.id PROVE d = e
      OBVIOUS
    <3>1. PICK b \in chains : d = Erased(b) /\ d.id = b.id
      BY <2>1
    <3>2. PICK c \in chains : e = Erased(c) /\ e.id = c.id
      BY <2>1
    <3>3. b = c
      BY <1>1, <3>1, <3>2 DEF IdsOK, Distinct
    <3>4. QED
      BY <3>1, <3>2, <3>3
  <2>5. Distinct(chains)'
    BY <2>4 DEF Distinct
  <2>6. QED
    BY <1>2, <2>3, <2>5 DEF IdsOK, File
<1>5. NotAsked'
  <2>1. \A i \in File : i >= next => names'[i] = "none"
    BY <1>1, <1>2 DEF NotAsked
  <2>2. QED
    BY <1>2, <2>1 DEF NotAsked, File
<1>6. Cardinality(Pending(names)) = Cardinality(Pending(names')) + Cardinality(Asked)
  <2>1. Pending(names) \cap Asked = Asked /\ Pending(names') = Pending(names) \ Asked
    BY <1>2 DEF Pending, Asked
  <2>2. Cardinality(Pending(names')) = Cardinality(Pending(names)) - Cardinality(Asked)
    BY <1>1, <2>1, CountsAreNumbers, FS_Difference
  <2>3. Cardinality(Pending(names)) \in Nat
    BY <1>1, CountsAreNumbers
  <2> DEFINE p == Cardinality(Pending(names))
             a == Cardinality(Asked)
  <2> HIDE DEF p, a
  <2>4. p = p - a + a
    BY <1>2, <2>3 DEF p, a
  <2>5. QED
    BY <2>2, <2>4 DEF p, a
<1>7. /\ Cardinality(Scoped(chains)) = Cardinality(Scoped(chains')) + Cardinality(Unscoped)
      /\ Cardinality(Scoped(chains')) \in Nat
  <2> DEFINE kept == {c \in chains : HasScope(Erased(c))}
             erase == [c \in kept |-> Erased(c)]
  <2>1. kept = Scoped(chains) \ Unscoped /\ Scoped(chains) \cap Unscoped = Unscoped
    BY <1>3 DEF Scoped, Unscoped
  <2>2. Scoped(chains') = {erase[c] : c \in kept}
    <3>1. \A d \in Scoped(chains') : \E c \in kept : d = erase[c]
      BY <1>2 DEF Scoped
    <3>2. \A c \in kept : erase[c] \in Scoped(chains')
      BY <1>2 DEF Scoped
    <3> HIDE DEF kept, erase
    <3>3. QED
      BY <3>1, <3>2
  <2>3. \A b, c \in kept : erase[b] = erase[c] => b = c
    BY <1>1, <1>3 DEF IdsOK, Distinct
  <2>4. erase \in Surjection(kept, Scoped(chains')) /\ DOMAIN erase = kept
    BY <2>2 DEF Surjection
  <2>5. IsFiniteSet(kept) /\ Cardinality(kept) = Cardinality(Scoped(chains)) - Cardinality(Unscoped)
    BY <1>1, <2>1, CountsAreNumbers, FS_Difference
  <2> HIDE DEF kept, erase
  <2>6. erase \in Injection(kept, Scoped(chains'))
    BY <2>3, <2>4 DEF Surjection, Injection, IsInjective
  <2>7. IsFiniteSet(Scoped(chains')) /\ Cardinality(Scoped(chains')) = Cardinality(kept)
    BY <2>4, <2>5, <2>6, FS_Surjection
  <2>8. Cardinality(Scoped(chains')) \in Nat /\ Cardinality(Scoped(chains)) \in Nat
    BY <1>1, <2>7, CountsAreNumbers, FS_CardinalityType
  <2> DEFINE k == Cardinality(Scoped(chains))
             u == Cardinality(Unscoped)
  <2> HIDE DEF k, u
  <2>9. k = k - u + u
    BY <1>2, <2>8 DEF k, u
  <2>10. QED
    BY <2>5, <2>7, <2>8, <2>9 DEF k, u
<1>8. ScopesCounted'
  <2> DEFINE p == Cardinality(Pending(names))
             p1 == Cardinality(Pending(names'))
             k == Cardinality(Scoped(chains))
             k1 == Cardinality(Scoped(chains'))
             a == Cardinality(Asked)
             u == Cardinality(Unscoped)
  <2>1. p = p1 + a /\ k = k1 + u /\ loaded' = loaded + u + a
    BY <1>2, <1>6, <1>7
  <2>2. p1 \in Nat /\ k1 \in Nat /\ a \in Nat /\ u \in Nat /\ loaded \in Nat
    BY <1>1, <1>2, <1>7, CountsAreNumbers DEF MounterTypes
  <2> HIDE DEF p, p1, k, k1, a, u
  <2>3. loaded' + p1 + k1 = loaded + p + k + 0
    BY <2>1, <2>2
  <2>4. total' + lost' = total + lost + 0
    BY <1>1, <1>2 DEF MounterTypes
  <2>5. QED
    BY <1>1, <1>2, <2>3, <2>4, StillCounted DEF p, p1, k, k1
<1>9. QED
  BY <1>4, <1>5, <1>8 DEF CountInv

LEMMA CancelsCount == TypeInv /\ CountInv /\ (UnmountCancels \/ StopCancels) => CountInv'
<1> SUFFICES ASSUME TypeInv, CountInv, UnmountCancels \/ StopCancels PROVE CountInv'
  OBVIOUS
<1>1. Cancel \/ UNCHANGED mounterVars
  BY DEF UnmountCancels, StopCancels
<1>2. CASE Cancel
  BY <1>2, CancelSteps, CancelCounts DEF TypeInv
<1>3. CASE UNCHANGED mounterVars
  BY <1>3, SameCounts DEF mounterVars
<1>4. QED
  BY <1>1, <1>2, <1>3

LEMMA QuietCounts ==
  ASSUME TypeInv, LifeInv, CountInv,
         Start \/ MountChecks \/ MountEnters \/ UnmountErases \/ StopFuse \/ StopClears \/ StopJoins
           \/ ClientsStop \/ FuseReads \/ FuseReadEnds \/ FuseLeaves \/ UNCHANGED vars
  PROVE  CountInv'
<1>1. UNCHANGED <<nzb, names, chains, total, lost, loaded>>
  BY DEF Start, MountChecks, MountEnters, UnmountErases, StopFuse, StopClears, StopJoins, ClientsStop,
         FuseReads, FuseReadEnds, FuseLeaves, mounterVars, vars
<1>2. next' = next \/ next = 0
  <2>1. MountEnters => next = 0
    BY DEF MountEnters, LifeInv, NotEntered
  <2>2. ~MountEnters => next' = next
    BY DEF Start, MountChecks, UnmountErases, StopFuse, StopClears, StopJoins, ClientsStop,
           FuseReads, FuseReadEnds, FuseLeaves, mounterVars, vars
  <2>3. QED
    BY <2>1, <2>2
<1>3. QED
  BY <1>1, <1>2, SameCounts

LEMMA CountInit == Init => CountInv
<1> SUFFICES ASSUME Init PROVE CountInv
  OBVIOUS
<1>1. /\ nzb \in NZBs /\ chains = {} /\ total = 0 /\ lost = 0 /\ loaded = 0
      /\ names = [i \in File |-> "none"]
  BY Zenon DEF Init, MounterInit
<1>2. {i \in File : names[i] \in {"asked", "named", "unnamed"}} = {} /\ {c \in chains : HasScope(c)} = {}
  BY <1>1
<1>3. ScopesCounted
  BY <1>1, <1>2, FS_EmptySet DEF ScopesCounted
<1>4. QED
  BY <1>1, <1>3 DEF CountInv, IdsOK, Distinct, NotAsked

LEMMA CountNext == TypeInv /\ LifeInv /\ CountInv /\ [Next]_vars => CountInv'
BY QuietCounts, MountStepCounts, CancelsCount, IoCounts, Zenon DEF Next, StopStep

\* Whatever is canceled, fails or is lost in the race on the total, a part that was
\* announced is loaded or somebody holds a scope, or will get a name, that reports it
\* (NZBDriveMounter.cpp:27-67).
THEOREM ScopesCountedAlways == Spec => []ScopesCounted
<1>1. Spec => [](TypeInv /\ LifeInv)
  BY LifeInit, LifeNext, TypesAlways, PTL DEF Spec
<1>2. Spec => []CountInv
  BY <1>1, CountInit, CountNext, PTL DEF Spec
<1>3. CountInv => ScopesCounted
  BY Zenon DEF CountInv
<1>4. QED
  BY <1>2, <1>3, PTL
=============================================================================
