------------------------ MODULE RateLimiter_proofs ------------------------
(***************************************************************************)
(* The token bucket for any number of sockets, any limits and any bytes.   *)
(***************************************************************************)
EXTENDS RateLimiter, FiniteSetTheorems, WellFoundedInduction, TLAPS

-----------------------------------------------------------------------------
(* Sums over finite sets.                                                  *)

\* A set of natural numbers that is not empty has a least element.
LEMMA Least ==
  ASSUME NEW T, T \subseteq Nat, T # {}
  PROVE  \E n \in T : \A m \in T : n <= m
<1> DEFINE R == OpToRel(<, Nat)
<1>1. IsWellFoundedOn(R, Nat)
  BY NatLessThanWellFounded
<1>2. \A x, y \in Nat : <<y, x>> \in R <=> y < x
  BY DEF OpToRel
<1> HIDE DEF R
<1>3. PICK x \in T : \A y \in T : ~ (<<y, x>> \in R)
  BY <1>1, <1>2, WFMin
<1>4. \A y \in T : ~ (y < x)
  BY <1>2, <1>3
<1>5. QED
  BY <1>4

\* What holds of a set when it holds of the smaller ones holds of all subsets
\* of a finite set.
LEMMA SizeInduction ==
  ASSUME NEW S, IsFiniteSet(S), NEW G,
         \A T \in SUBSET S :
           (\A U \in SUBSET S : Cardinality(U) < Cardinality(T) => U \in G) => T \in G
  PROVE  \A T \in SUBSET S : T \in G
<1> DEFINE Counts == {Cardinality(T) : T \in (SUBSET S) \ G}
<1>1. \A T \in SUBSET S : IsFiniteSet(T) /\ Cardinality(T) \in Nat
  BY FS_Subset, FS_CardinalityType
<1>2. SUFFICES ASSUME NEW T \in SUBSET S, T \notin G PROVE FALSE
  OBVIOUS
<1>3. PICK n \in Counts : \A m \in Counts : n <= m
  <2>1. Counts # {} /\ Counts \subseteq Nat
    BY <1>1, <1>2
  <2> HIDE DEF Counts
  <2>2. QED
    BY <2>1, Least
<1>4. PICK U \in (SUBSET S) \ G : n = Cardinality(U)
  BY <1>3
<1>5. PICK V \in (SUBSET S) \ G : Cardinality(V) < Cardinality(U)
  BY <1>4
<1>6. n <= Cardinality(V)
  BY <1>3, <1>5
<1>7. QED
  BY <1>1, <1>4, <1>5, <1>6

\* The element a sum takes first, and the others.
First(T) == CHOOSE x \in T : TRUE
Others(T) == T \ {First(T)}

LEMMA OthersAreFewer ==
  ASSUME NEW T, IsFiniteSet(T), T # {}
  PROVE  First(T) \in T /\ Cardinality(Others(T)) = Cardinality(T) - 1
<1>1. First(T) \in T
  BY DEF First
<1>2. QED
  BY <1>1, FS_RemoveElement DEF Others

LEMMA SetInduction ==
  ASSUME NEW S, IsFiniteSet(S), NEW G, {} \in G,
         \A T \in SUBSET S : T # {} /\ Others(T) \in G => T \in G
  PROVE  \A T \in SUBSET S : T \in G
<1>1. ASSUME NEW T \in SUBSET S, \A U \in SUBSET S : Cardinality(U) < Cardinality(T) => U \in G
      PROVE  T \in G
  <2>1. CASE T = {}
    BY <2>1
  <2>2. CASE T # {}
    <3>1. IsFiniteSet(T) /\ Cardinality(T) \in Nat
      BY FS_Subset, FS_CardinalityType
    <3>2. Others(T) \in SUBSET S /\ Cardinality(Others(T)) < Cardinality(T)
      BY <2>2, <3>1, OthersAreFewer DEF Others
    <3>3. QED
      BY <1>1, <2>2, <3>2
  <2>3. QED
    BY <2>1, <2>2
<1>2. QED
  BY <1>1, SizeInduction

\* The recursion of SumFunctionOnSet.
SumStep(f, g, T) == IF T = {} THEN 0 ELSE f[First(T)] + g[Others(T)]

LEMMA SumExists ==
  ASSUME NEW S, IsFiniteSet(S), NEW f
  PROVE  \E g : g = [T \in SUBSET S |-> SumStep(f, g, T)]
<1> DEFINE Upto(n) == {T \in SUBSET S : Cardinality(T) <= n}
           Good(n) == \E g : g = [T \in Upto(n) |-> SumStep(f, g, T)]
           Bad == {n \in Nat : ~ Good(n)}
<1>1. \A T \in SUBSET S : IsFiniteSet(T) /\ Cardinality(T) \in Nat /\ Cardinality(T) <= Cardinality(S)
  BY FS_Subset, FS_CardinalityType
<1>2. \A T \in SUBSET S : T # {} =>
        Others(T) \in SUBSET S /\ Cardinality(Others(T)) = Cardinality(T) - 1
  BY <1>1, OthersAreFewer DEF Others
<1>3. Good(0)
  <2>1. \A T \in Upto(0) : T = {}
    BY <1>1, FS_EmptySet
  <2>2. [T \in Upto(0) |-> 0] = [T \in Upto(0) |-> SumStep(f, [U \in Upto(0) |-> 0], T)]
    BY <2>1 DEF SumStep
  <2>3. QED
    BY <2>2
<1>4. ASSUME NEW n \in Nat, Good(n) PROVE Good(n + 1)
  <2>1. PICK g : g = [T \in Upto(n) |-> SumStep(f, g, T)]
    BY <1>4
  <2> DEFINE h == [T \in Upto(n + 1) |-> SumStep(f, g, T)]
  <2>2. \A T \in Upto(n) : h[T] = g[T]
    <3>1. \A T \in Upto(n) : T \in Upto(n + 1)
      BY <1>1
    <3>2. QED
      BY <2>1, <3>1
  <2>3. \A T \in Upto(n + 1) : T # {} => Others(T) \in Upto(n)
    BY <1>1, <1>2
  <2>4. \A T \in Upto(n + 1) : h[T] = SumStep(f, h, T)
    BY <2>2, <2>3 DEF SumStep
  <2>5. h = [T \in Upto(n + 1) |-> SumStep(f, h, T)]
    BY <2>4
  <2>6. QED
    BY <2>5
<1>5. Good(Cardinality(S))
  <2> SUFFICES ASSUME ~ Good(Cardinality(S)) PROVE FALSE
    OBVIOUS
  <2> HIDE DEF Good
  <2>1. Bad # {} /\ Bad \subseteq Nat
    BY <1>1
  <2>2. PICK n \in Bad : \A m \in Bad : n <= m
    BY <2>1, Least
  <2>3. n # 0 /\ n - 1 \in Nat
    BY <1>3, <2>2
  <2>4. Good(n - 1)
    BY <2>2, <2>3
  <2>5. Good((n - 1) + 1)
    BY <1>4, <2>3, <2>4
  <2>6. QED
    BY <2>2, <2>5
<1>6. Upto(Cardinality(S)) = SUBSET S
  BY <1>1
<1>7. QED
  BY <1>5, <1>6

Sum(f, T) == SumFunctionOnSet(f, T)

LEMMA SumChosen ==
  ASSUME NEW S, IsFiniteSet(S), NEW f
  PROVE  \E g : /\ g = [T \in SUBSET S |-> SumStep(f, g, T)]
                /\ Sum(f, S) = g[S]
<1> DEFINE g == CHOOSE g : g = [T \in SUBSET S |-> SumStep(f, g, T)]
<1>1. g = [T \in SUBSET S |-> SumStep(f, g, T)]
  BY SumExists
<1>2. Sum(f, S) = g[S]
  BY DEF Sum, SumFunctionOnSet, FoldFunctionOnSet, MapThenFoldSet, SumStep, First, Others
<1>3. QED
  BY <1>1, <1>2

\* A sum is what it takes first, and the sum of the others.
LEMMA SumFirst ==
  ASSUME NEW S, IsFiniteSet(S), NEW f
  PROVE  /\ Sum(f, {}) = 0
         /\ S # {} => Sum(f, S) = f[First(S)] + Sum(f, Others(S))
<1>1. PICK g : g = [T \in SUBSET S |-> SumStep(f, g, T)] /\ Sum(f, S) = g[S]
  BY SumChosen
<1> DEFINE G == {T \in SUBSET S : \A h, U : T \in SUBSET U /\ IsFiniteSet(U)
                  /\ h = [V \in SUBSET U |-> SumStep(f, h, V)] => h[T] = g[T]}
<1>2. {} \in G
  BY <1>1 DEF SumStep
<1>3. ASSUME NEW T \in SUBSET S, T # {}, Others(T) \in G PROVE T \in G
  <2> SUFFICES ASSUME NEW h, NEW U, T \in SUBSET U, IsFiniteSet(U),
                      h = [V \in SUBSET U |-> SumStep(f, h, V)]
               PROVE  h[T] = g[T]
    OBVIOUS
  <2>1. Others(T) \in SUBSET U
    BY DEF Others
  <2>2. h[Others(T)] = g[Others(T)]
    BY <1>3, <2>1
  <2>3. h[T] = SumStep(f, h, T) /\ g[T] = SumStep(f, g, T)
    BY <1>1
  <2>4. QED
    BY <2>2, <2>3 DEF SumStep
<1> HIDE DEF G
<1>4. \A T \in SUBSET S : T \in G
  BY <1>2, <1>3, SetInduction
<1>5. \A T \in SUBSET S : Sum(f, T) = g[T]
  <2> SUFFICES ASSUME NEW T \in SUBSET S PROVE Sum(f, T) = g[T]
    OBVIOUS
  <2>1. IsFiniteSet(T)
    BY FS_Subset
  <2>2. PICK h : h = [V \in SUBSET T |-> SumStep(f, h, V)] /\ Sum(f, T) = h[T]
    BY <2>1, SumChosen
  <2>3. QED
    BY <1>4, <2>1, <2>2 DEF G
<1>6. \A T \in SUBSET S : g[T] = SumStep(f, g, T)
  BY <1>1
<1>7. {} \in SUBSET S /\ S \in SUBSET S /\ Others(S) \in SUBSET S
  BY DEF Others
<1>8. QED
  BY <1>5, <1>6, <1>7 DEF SumStep

\* The sum of integers is one; of two functions it is the sum of their sums.
LEMMA SumType ==
  ASSUME NEW S, IsFiniteSet(S), NEW f, \A x \in S : f[x] \in Int
  PROVE  Sum(f, S) \in Int
<1> DEFINE G == {T \in SUBSET S : Sum(f, T) \in Int}
<1>1. \A T \in SUBSET S : IsFiniteSet(T)
  BY FS_Subset
<1>2. \A T \in SUBSET S : T # {} => First(T) \in S
  BY DEF First
<1>3. {} \in G
  BY SumFirst
<1>4. ASSUME NEW T \in SUBSET S, T # {}, Others(T) \in G PROVE T \in G
  <2>1. Sum(f, T) = f[First(T)] + Sum(f, Others(T))
    BY <1>1, <1>4, SumFirst
  <2>2. f[First(T)] \in Int /\ Sum(f, Others(T)) \in Int
    BY <1>2, <1>4
  <2>3. QED
    BY <2>1, <2>2
<1> HIDE DEF G
<1>5. S \in G
  BY <1>3, <1>4, SetInduction
<1>6. QED
  BY <1>5 DEF G

LEMMA SumNat ==
  ASSUME NEW S, IsFiniteSet(S), NEW f, \A x \in S : f[x] \in Nat
  PROVE  Sum(f, S) \in Nat
<1> DEFINE G == {T \in SUBSET S : Sum(f, T) \in Nat}
<1>1. \A T \in SUBSET S : IsFiniteSet(T)
  BY FS_Subset
<1>2. \A T \in SUBSET S : T # {} => First(T) \in S
  BY DEF First
<1>3. {} \in G
  BY SumFirst
<1>4. ASSUME NEW T \in SUBSET S, T # {}, Others(T) \in G PROVE T \in G
  <2>1. Sum(f, T) = f[First(T)] + Sum(f, Others(T))
    BY <1>1, <1>4, SumFirst
  <2>2. f[First(T)] \in Nat /\ Sum(f, Others(T)) \in Nat
    BY <1>2, <1>4
  <2>3. QED
    BY <2>1, <2>2
<1> HIDE DEF G
<1>5. S \in G
  BY <1>3, <1>4, SetInduction
<1>6. QED
  BY <1>5 DEF G

LEMMA SumPlus ==
  ASSUME NEW S, IsFiniteSet(S), NEW f, NEW g, NEW h,
         \A x \in S : f[x] \in Int /\ g[x] \in Int /\ h[x] = f[x] + g[x]
  PROVE  Sum(h, S) = Sum(f, S) + Sum(g, S)
<1> DEFINE G == {T \in SUBSET S : Sum(f, T) \in Int /\ Sum(g, T) \in Int
                                  /\ Sum(h, T) = Sum(f, T) + Sum(g, T)}
<1>1. \A T \in SUBSET S : IsFiniteSet(T)
  BY FS_Subset
<1>2. \A T \in SUBSET S : T # {} => First(T) \in S
  BY DEF First
<1>3. {} \in G
  BY SumFirst
<1>4. ASSUME NEW T \in SUBSET S, T # {}, Others(T) \in G PROVE T \in G
  <2>1. /\ Sum(f, T) = f[First(T)] + Sum(f, Others(T))
        /\ Sum(g, T) = g[First(T)] + Sum(g, Others(T))
        /\ Sum(h, T) = h[First(T)] + Sum(h, Others(T))
    BY <1>1, <1>4, SumFirst
  <2>2. /\ f[First(T)] \in Int /\ g[First(T)] \in Int
        /\ h[First(T)] = f[First(T)] + g[First(T)]
    BY <1>2, <1>4
  <2>3. /\ Sum(f, Others(T)) \in Int /\ Sum(g, Others(T)) \in Int
        /\ Sum(h, Others(T)) = Sum(f, Others(T)) + Sum(g, Others(T))
    BY <1>4
  <2>4. QED
    BY <2>1, <2>2, <2>3
<1> HIDE DEF G
<1>5. S \in G
  BY <1>3, <1>4, SetInduction
<1>6. QED
  BY <1>5 DEF G

\* Functions that agree on a set have the same sum over it.
LEMMA SumSame ==
  ASSUME NEW S, IsFiniteSet(S), NEW f, NEW g, \A x \in S : f[x] = g[x]
  PROVE  Sum(f, S) = Sum(g, S)
<1> DEFINE G == {T \in SUBSET S : Sum(f, T) = Sum(g, T)}
<1>1. \A T \in SUBSET S : IsFiniteSet(T)
  BY FS_Subset
<1>2. \A T \in SUBSET S : T # {} => First(T) \in S
  BY DEF First
<1>3. {} \in G
  BY SumFirst
<1>4. ASSUME NEW T \in SUBSET S, T # {}, Others(T) \in G PROVE T \in G
  <2>1. /\ Sum(f, T) = f[First(T)] + Sum(f, Others(T))
        /\ Sum(g, T) = g[First(T)] + Sum(g, Others(T))
    BY <1>1, <1>4, SumFirst
  <2>2. f[First(T)] = g[First(T)] /\ Sum(f, Others(T)) = Sum(g, Others(T))
    BY <1>2, <1>4
  <2>3. QED
    BY <2>1, <2>2
<1> HIDE DEF G
<1>5. S \in G
  BY <1>3, <1>4, SetInduction
<1>6. QED
  BY <1>5 DEF G

\* The sum of a constant.
LEMMA SumConstant ==
  ASSUME NEW S, IsFiniteSet(S), NEW q \in Nat, NEW f, \A x \in S : f[x] = q
  PROVE  Sum(f, S) = Cardinality(S) * q
<1> DEFINE G == {T \in SUBSET S : Sum(f, T) = Cardinality(T) * q}
<1>1. \A T \in SUBSET S : IsFiniteSet(T) /\ Cardinality(T) \in Nat
  BY FS_Subset, FS_CardinalityType
<1>2. \A T \in SUBSET S : T # {} => First(T) \in T /\ First(T) \in S
  BY DEF First
<1>3. {} \in G
  BY SumFirst, FS_EmptySet
<1>4. ASSUME NEW T \in SUBSET S, T # {}, Others(T) \in G PROVE T \in G
  <2>1. Sum(f, T) = f[First(T)] + Sum(f, Others(T))
    BY <1>1, <1>4, SumFirst
  <2>2. Cardinality(Others(T)) = Cardinality(T) - 1
    BY <1>1, <1>2, <1>4, FS_RemoveElement DEF Others
  <2>3. f[First(T)] = q /\ Sum(f, Others(T)) = (Cardinality(T) - 1) * q
    BY <1>2, <1>4, <2>2
  <2>4. \A n \in Nat : q + (n - 1) * q = n * q
    OBVIOUS
  <2>5. QED
    BY <1>1, <2>1, <2>3, <2>4
<1> HIDE DEF G
<1>5. S \in G
  BY <1>3, <1>4, SetInduction
<1>6. QED
  BY <1>5 DEF G

\* What an element adds does not depend on when it is taken.
LEMMA SumRemove ==
  ASSUME NEW S, IsFiniteSet(S), NEW f, \A x \in S : f[x] \in Int, NEW y \in S
  PROVE  Sum(f, S) = f[y] + Sum(f, S \ {y})
<1> DEFINE G == {T \in SUBSET S : /\ Sum(f, T) \in Int
                                 /\ \A x \in T : Sum(f, T) = f[x] + Sum(f, T \ {x})}
<1>1. ASSUME NEW T \in SUBSET S, \A U \in SUBSET S : Cardinality(U) < Cardinality(T) => U \in G
      PROVE  T \in G
  <2>1. CASE T = {}
    BY <2>1, SumFirst
  <2>2. CASE T # {}
    <3> DEFINE z == First(T)
    <3>1. IsFiniteSet(T) /\ Cardinality(T) \in Nat
      BY FS_Subset, FS_CardinalityType
    <3>2. z \in T /\ Others(T) = T \ {z}
      BY <2>2, <3>1, OthersAreFewer DEF Others
    <3>3. Sum(f, T) = f[z] + Sum(f, T \ {z})
      BY <2>2, <3>1, <3>2, SumFirst
    <3> HIDE DEF z, G
    <3>4. \A x \in T : T \ {x} \in G
      <4> SUFFICES ASSUME NEW x \in T PROVE T \ {x} \in G
        OBVIOUS
      <4>1. Cardinality(T \ {x}) = Cardinality(T) - 1
        BY <3>1, FS_RemoveElement
      <4>2. T \ {x} \in SUBSET S
        OBVIOUS
      <4>3. Cardinality(T \ {x}) < Cardinality(T)
        BY <3>1, <4>1
      <4>4. QED
        BY <1>1, <4>2, <4>3
    <3>5. ASSUME NEW x \in T, x # z PROVE Sum(f, T) = f[x] + Sum(f, T \ {x})
      <4>1. Sum(f, T \ {z}) = f[x] + Sum(f, (T \ {z}) \ {x})
        BY <3>2, <3>4, <3>5 DEF G
      <4>2. Sum(f, T \ {x}) = f[z] + Sum(f, (T \ {x}) \ {z})
        BY <3>2, <3>4, <3>5 DEF G
      <4>3. (T \ {z}) \ {x} = (T \ {x}) \ {z}
        OBVIOUS
      <4>4. T \ {x, z} \in G /\ (T \ {x}) \ {z} = T \ {x, z}
        <5>1. Cardinality((T \ {x}) \ {z}) = Cardinality(T) - 2
          <6>1. /\ IsFiniteSet(T \ {x}) /\ z \in T \ {x}
                /\ Cardinality(T \ {x}) = Cardinality(T) - 1
            BY <3>1, <3>2, <3>5, FS_RemoveElement
          <6>2. Cardinality((T \ {x}) \ {z}) = Cardinality(T \ {x}) - 1
            BY <6>1, FS_RemoveElement
          <6>3. QED
            BY <3>1, <6>1, <6>2
        <5>2. T \ {x, z} \in SUBSET S /\ (T \ {x}) \ {z} = T \ {x, z}
          OBVIOUS
        <5>3. Cardinality(T \ {x, z}) < Cardinality(T)
          BY <3>1, <5>1, <5>2
        <5>4. QED
          BY <1>1, <5>2, <5>3
      <4>5. f[x] \in Int /\ f[z] \in Int /\ Sum(f, T \ {x, z}) \in Int
        BY <3>2, <4>4 DEF G
      <4>6. Sum(f, T) = f[z] + (f[x] + Sum(f, T \ {x, z}))
        BY <3>3, <4>1, <4>3, <4>4
      <4>7. Sum(f, T \ {x}) = f[z] + Sum(f, T \ {x, z})
        BY <4>2, <4>4
      <4>8. \A a, b, c \in Int : a + (b + c) = b + (a + c)
        OBVIOUS
      <4>9. QED
        BY <4>5, <4>6, <4>7, <4>8
    <3>6. Sum(f, T) \in Int
      <4>1. Sum(f, T \ {z}) \in Int /\ f[z] \in Int
        BY <3>2, <3>4 DEF G
      <4>2. QED
        BY <3>3, <4>1
    <3>7. QED
      BY <3>3, <3>5, <3>6 DEF G
  <2>3. QED
    BY <2>1, <2>2
<1> HIDE DEF G
<1>2. S \in G
  BY <1>1, SizeInduction
<1>3. QED
  BY <1>2 DEF G

\* Elements that the function gives nothing can be left out of the sum.
LEMMA SumSupport ==
  ASSUME NEW S, IsFiniteSet(S), NEW f, \A x \in S : f[x] \in Int, NEW U \in SUBSET S,
         \A x \in S \ U : f[x] = 0
  PROVE  Sum(f, S) = Sum(f, U)
<1> DEFINE G == {T \in SUBSET (S \ U) : Sum(f, U \cup T) = Sum(f, U)}
<1>1. IsFiniteSet(S \ U)
  BY FS_Subset
<1>2. U \cup {} = U /\ U \cup (S \ U) = S
  OBVIOUS
<1>3. {} \in G
  BY <1>2
<1>4. ASSUME NEW T \in SUBSET (S \ U), T # {}, Others(T) \in G PROVE T \in G
  <2> DEFINE z == First(T)
             V == U \cup T
  <2>1. z \in T /\ Others(T) = T \ {z}
    BY <1>4 DEF First, Others
  <2> HIDE DEF z
  <2>2. V \in SUBSET S /\ z \in V /\ V \ {z} = U \cup Others(T)
    BY <2>1
  <2>3. IsFiniteSet(V)
    BY <2>2, FS_Subset
  <2>4. Sum(f, V) = f[z] + Sum(f, V \ {z})
    <3> HIDE DEF V
    <3>1. QED
      BY <2>2, <2>3, SumRemove
  <2>5. f[z] = 0 /\ Sum(f, V \ {z}) = Sum(f, U)
    BY <1>4, <2>1, <2>2
  <2>6. Sum(f, U) \in Int
    BY SumType, FS_Subset
  <2>7. QED
    BY <2>4, <2>5, <2>6
<1> HIDE DEF G
<1>5. S \ U \in G
  BY <1>1, <1>3, <1>4, SetInduction
<1>6. QED
  BY <1>2, <1>5 DEF G

-----------------------------------------------------------------------------
(* What AddTokens computes.                                                *)

\* A socket that still misses bytes has none.
Bucket(t) ==
  /\ available[t] \in Nat /\ missing[t] \in Nat
  /\ available[t] = 0 \/ missing[t] = 0

BucketsOK == IsFiniteSet(targets) /\ \A t \in targets : Bucket(t)

\* Tokens pay what is missing, then fill the bucket; what does not fit is left,
\* and a bucket that is full stays so.
LEMMA TokensPay ==
  ASSUME NEW t, Bucket(t), NEW n \in Nat, NEW max \in Nat,
         NEW p, p = AddTokenBytes(t, n, max)
  PROVE  /\ p.available \in Nat /\ p.missing \in Nat /\ p.spillover \in Nat
         /\ p.available = 0 \/ p.missing = 0
         /\ p.missing <= missing[t]
         /\ p.available - p.missing + p.spillover = available[t] - missing[t] + n
         /\ max > 0 /\ p.spillover > 0 => p.available = max /\ p.missing = 0
<1> DEFINE a == available[t]
           b == missing[t]
           total == IF b >= n THEN a ELSE a + n - b
           kept == IF max > 0 /\ total > max THEN max ELSE total
           owed == IF b >= n THEN b - n ELSE 0
<1>1. a \in Nat /\ b \in Nat /\ (a = 0 \/ b = 0)
  BY DEF Bucket
<1>2. p = [available |-> kept, missing |-> owed, spillover |-> total - kept]
  BY DEF AddTokenBytes
<1>3. p.available = kept /\ p.missing = owed /\ p.spillover = total - kept
  BY <1>2
<1> HIDE DEF a, b
<1>4. total \in Nat /\ owed \in Nat /\ owed <= b /\ (total = 0 \/ owed = 0) /\ total - owed = a - b + n
  BY <1>1
<1> HIDE DEF total, owed
<1>5. kept \in Nat /\ kept <= total /\ (kept < total => max > 0 /\ kept = max)
  BY <1>4
<1> HIDE DEF kept
<1>6. p.available - p.missing + p.spillover = a - b + n
  BY <1>3, <1>4, <1>5
<1>7. QED
  BY <1>3, <1>4, <1>5, <1>6 DEF a, b

LEMMA FullStaysFull ==
  ASSUME NEW t, Bucket(t), NEW n \in Nat, NEW m \in Nat, n <= m, NEW max \in Nat, max > 0,
         AddTokenBytes(t, n, max).spillover > 0
  PROVE  AddTokenBytes(t, m, max).spillover > 0
BY DEF Bucket, AddTokenBytes

\* What a socket has, less what it misses: before, and when it got n of k tokens.
Balance == [t \in targets |-> available[t] - missing[t]]
Paid(t, n, k) == AddTokenBytes(t, n, k * 5)
PaidBalance(t, n, k) == Paid(t, n, k).available - Paid(t, n, k).missing

Ended(r) == r.open = {} \/ r.rest < Cardinality(r.open)
Shares == [open : SUBSET targets, each : Nat, rest : Nat]
Start(k) == [open |-> targets, each |-> 0, rest |-> k]

\* What the sockets have after some rounds, if the open ones keep all they get.
Held(r, k) ==
  [t \in targets |-> IF t \in r.open THEN Balance[t] + r.each ELSE PaidBalance(t, r.each, k)]

\* After n rounds that share k tokens: those who are not open are full, the
\* others have kept what they got, and no token is lost.
Shared(r, n, k) ==
  /\ r \in Shares
  /\ Ended(r) \/ Cardinality(r.open) <= Cardinality(targets) - n
  /\ n = 0 => r = Start(k)
  /\ n > 0 => r.each > 0 /\ \A t \in r.open : Paid(t, r.each, k).spillover = 0
  /\ \A t \in targets \ r.open : Paid(t, r.each, k).spillover > 0
  /\ Sum(Held(r, k), targets) + r.rest = Sum(Balance, targets) + k

LEMMA Division ==
  ASSUME NEW a \in Nat, NEW c \in Nat, c > 0, a >= c
  PROVE  /\ a \div c \in Nat /\ a \div c > 0 /\ a % c \in 0 .. c - 1
         /\ a = c * (a \div c) + (a % c)
OBVIOUS

LEMMA SharedStart ==
  ASSUME BucketsOK, targets # {}, NEW k \in Nat
  PROVE  Shared(Start(k), 0, k) /\ (k >= Cardinality(targets) => ~ Ended(Start(k)))
<1> DEFINE r == Start(k)
<1>1. r.open = targets /\ r.each = 0 /\ r.rest = k /\ r \in Shares
  BY DEF Start, Shares
<1>2. Cardinality(targets) \in Nat
  BY FS_CardinalityType DEF BucketsOK
<1>3. Balance \in [targets -> Int]
  BY DEF BucketsOK, Bucket, Balance
<1>4. Held(r, k) = Balance
  BY <1>1, <1>3 DEF Held
<1>5. QED
  BY <1>1, <1>2, <1>4 DEF Shared, Ended

LEMMA RoundShares ==
  ASSUME BucketsOK, NEW k \in Nat, k > 0, NEW n \in Nat, NEW r, Shared(r, n, k), ~ Ended(r)
  PROVE  Shared(Round(r, k * 5), n + 1, k)
<1> DEFINE c == Cardinality(r.open)
           q == r.rest \div c
           e == r.each + q
           spillover == [t \in r.open |-> AddTokenBytes(t, e, k * 5).spillover]
           left == {t \in r.open : spillover[t] = 0}
           s == [open |-> left, each |-> e, rest |-> (r.rest % c) + Sum(spillover, r.open)]
<1>1. /\ r.open \in SUBSET targets /\ r.each \in Nat /\ r.rest \in Nat
      /\ IsFiniteSet(targets) /\ IsFiniteSet(r.open) /\ c \in Nat /\ c > 0 /\ r.rest >= c
  <2>1. r.open \in SUBSET targets /\ r.each \in Nat /\ r.rest \in Nat
    BY DEF Shared, Shares
  <2>2. IsFiniteSet(targets) /\ IsFiniteSet(r.open) /\ c \in Nat
    BY <2>1, FS_Subset, FS_CardinalityType DEF BucketsOK
  <2>3. r.open # {} /\ r.rest >= c
    BY <2>1, <2>2 DEF Ended
  <2>4. QED
    BY <2>1, <2>2, <2>3, FS_EmptySet
<1>2. Round(r, k * 5) = s
  <2>1. r.open # {} /\ ~ (r.rest < c)
    BY DEF Ended
  <2>2. QED
    BY <2>1, Zenon DEF Round, Sum
<1>3. q \in Nat /\ q > 0 /\ r.rest % c \in 0 .. c - 1 /\ r.rest = c * q + (r.rest % c)
  BY <1>1, Division
<1>4. e \in Nat /\ e > 0 /\ e = r.each + q /\ r.each <= e
  BY <1>1, <1>3
<1> HIDE DEF c, q, e
<1>5. k * 5 \in Nat /\ k * 5 > 0
  OBVIOUS
<1>6. \A t \in targets : Bucket(t)
  BY DEF BucketsOK
<1>7. \A t \in r.open : /\ spillover[t] \in Nat /\ spillover[t] = Paid(t, e, k).spillover
                        /\ PaidBalance(t, e, k) + spillover[t] = Balance[t] + e
                        /\ Balance[t] \in Int /\ PaidBalance(t, e, k) \in Int
  <2> SUFFICES ASSUME NEW t \in r.open
               PROVE  /\ spillover[t] \in Nat /\ spillover[t] = Paid(t, e, k).spillover
                      /\ PaidBalance(t, e, k) + spillover[t] = Balance[t] + e
                      /\ Balance[t] \in Int /\ PaidBalance(t, e, k) \in Int
    OBVIOUS
  <2> DEFINE p == AddTokenBytes(t, e, k * 5)
  <2>1. t \in targets /\ Bucket(t)
    BY <1>1, <1>6
  <2>2. /\ p.available \in Nat /\ p.missing \in Nat /\ p.spillover \in Nat
        /\ p.available - p.missing + p.spillover = available[t] - missing[t] + e
    BY <1>4, <1>5, <2>1, TokensPay
  <2>3. p = Paid(t, e, k) /\ spillover[t] = p.spillover
    BY DEF Paid
  <2> HIDE DEF p, spillover
  <2>4. Balance[t] = available[t] - missing[t] /\ available[t] \in Nat /\ missing[t] \in Nat
    BY <2>1 DEF Balance, Bucket
  <2>5. QED
    BY <1>4, <2>2, <2>3, <2>4 DEF PaidBalance
<1> HIDE DEF spillover
<1>8. Sum(spillover, r.open) \in Nat
  BY <1>1, <1>7, SumNat
<1>9. s \in Shares /\ s.open = left /\ s.each = e /\ s.rest = (r.rest % c) + Sum(spillover, r.open)
  BY <1>1, <1>3, <1>4, <1>8 DEF Shares
<1> HIDE DEF s
<1>10. Ended(s) \/ Cardinality(s.open) <= Cardinality(targets) - (n + 1)
  <2>1. Cardinality(targets) \in Nat /\ c <= Cardinality(targets) - n
    BY <1>1, FS_CardinalityType DEF Shared, c
  <2>2. CASE left = r.open
    <3>1. \A t \in r.open : spillover[t] = 0
      BY <2>2
    <3>2. Sum(spillover, r.open) = 0
      <4>1. Sum(spillover, r.open) = Cardinality(r.open) * 0
        BY <1>1, <3>1, SumConstant
      <4>2. QED
        BY <1>1, <4>1 DEF c
    <3>3. Cardinality(s.open) = c
      BY <1>9, <2>2 DEF c
    <3>4. s.rest = r.rest % c
      BY <1>3, <1>9, <3>2
    <3>5. s.rest < c
      BY <1>1, <1>3, <3>4
    <3>6. QED
      BY <3>3, <3>5 DEF Ended
  <2>3. CASE left # r.open
    <3>1. left \in SUBSET r.open
      OBVIOUS
    <3>2. Cardinality(left) \in Nat /\ Cardinality(left) < c
      BY <1>1, <2>3, <3>1, FS_Subset, FS_CardinalityType DEF c
    <3>3. QED
      BY <1>1, <1>9, <2>1, <3>2
  <2>4. QED
    BY <2>2, <2>3
<1>11. \A t \in s.open : Paid(t, s.each, k).spillover = 0
  BY <1>7, <1>9
<1>12. \A t \in targets \ s.open : Paid(t, s.each, k).spillover > 0
  <2> SUFFICES ASSUME NEW t \in targets, t \notin left PROVE Paid(t, e, k).spillover > 0
    BY <1>9
  <2>1. CASE t \in r.open
    BY <1>7, <2>1
  <2>2. CASE t \notin r.open
    <3>1. Paid(t, r.each, k).spillover > 0
      BY <2>2 DEF Shared
    <3>2. QED
      BY <1>1, <1>4, <1>5, <1>6, <3>1, FullStaysFull DEF Paid
  <2>3. QED
    BY <2>1, <2>2
<1>13. Sum(Held(s, k), targets) + s.rest = Sum(Balance, targets) + k
  <2> DEFINE given == [t \in targets |-> IF t \in r.open THEN q ELSE 0]
             lost == [t \in targets |-> IF t \in r.open THEN spillover[t] ELSE 0]
             got == [t \in targets |-> Held(r, k)[t] + given[t]]
  <2>1. \A t \in targets : /\ Balance[t] \in Int /\ PaidBalance(t, r.each, k) \in Int
                           /\ Held(r, k)[t] \in Int
    <3> SUFFICES ASSUME NEW t \in targets
                 PROVE  /\ Balance[t] \in Int /\ PaidBalance(t, r.each, k) \in Int
                        /\ Held(r, k)[t] \in Int
      OBVIOUS
    <3>1. Bucket(t) /\ Balance[t] \in Int
      BY <1>6 DEF Bucket, Balance
    <3>2. Paid(t, r.each, k).available \in Nat /\ Paid(t, r.each, k).missing \in Nat
      BY <1>1, <1>5, <3>1, TokensPay DEF Paid
    <3>3. PaidBalance(t, r.each, k) \in Int
      BY <3>2 DEF PaidBalance
    <3>4. QED
      BY <1>1, <3>1, <3>3 DEF Held
  <2>2. \A t \in targets : /\ given[t] \in Int /\ lost[t] \in Int /\ got[t] \in Int
                           /\ got[t] = Held(r, k)[t] + given[t]
    BY <1>3, <1>7, <2>1
  <2>3. \A t \in targets : Held(s, k)[t] \in Int /\ got[t] = Held(s, k)[t] + lost[t]
    <3> SUFFICES ASSUME NEW t \in targets
                 PROVE  Held(s, k)[t] \in Int /\ got[t] = Held(s, k)[t] + lost[t]
      OBVIOUS
    <3>1. CASE t \notin r.open
      <4>1. Held(s, k)[t] = PaidBalance(t, e, k) /\ Held(r, k)[t] = PaidBalance(t, r.each, k)
        BY <1>9, <3>1 DEF Held
      <4>2. Paid(t, r.each, k).spillover > 0 /\ Paid(t, e, k).spillover > 0
        BY <1>9, <1>12, <3>1 DEF Shared
      <4>3. /\ Paid(t, r.each, k).available = k * 5 /\ Paid(t, r.each, k).missing = 0
            /\ Paid(t, e, k).available = k * 5 /\ Paid(t, e, k).missing = 0
        BY <1>1, <1>4, <1>5, <1>6, <4>2, TokensPay DEF Paid
      <4>4. QED
        BY <2>1, <3>1, <4>1, <4>3 DEF PaidBalance
    <3>2. CASE t \in r.open
      <4>1. Held(r, k)[t] = Balance[t] + r.each /\ given[t] = q /\ lost[t] = spillover[t]
        BY <3>2 DEF Held
      <4>2. got[t] = Balance[t] + e
        BY <1>1, <1>3, <1>4, <2>1, <2>2, <4>1
      <4>3. CASE spillover[t] = 0
        <5>1. Held(s, k)[t] = Balance[t] + e
          BY <1>9, <3>2, <4>3 DEF Held
        <5>2. QED
          BY <1>4, <2>1, <4>1, <4>2, <4>3, <5>1
      <4>4. CASE spillover[t] # 0
        <5>1. Held(s, k)[t] = PaidBalance(t, e, k)
          BY <1>9, <4>4 DEF Held
        <5>2. QED
          BY <1>7, <3>2, <4>1, <4>2, <5>1
      <4>5. QED
        BY <4>3, <4>4
    <3>3. QED
      BY <3>1, <3>2
  <2>4. Sum(got, targets) = Sum(Held(r, k), targets) + Sum(given, targets)
    <3> HIDE DEF given, lost, got
    <3>1. QED
      BY <1>1, <2>1, <2>2, SumPlus
  <2>5. Sum(got, targets) = Sum(Held(s, k), targets) + Sum(lost, targets)
    <3> HIDE DEF given, lost, got
    <3>1. QED
      BY <1>1, <2>2, <2>3, SumPlus
  <2>6. Sum(given, targets) = c * q
    <3>1. \A t \in r.open : given[t] = q
      BY <1>1
    <3>2. \A t \in targets \ r.open : given[t] = 0
      OBVIOUS
    <3> HIDE DEF given
    <3>3. Sum(given, r.open) = Cardinality(r.open) * q
      BY <1>1, <1>3, <3>1, SumConstant
    <3>4. Sum(given, targets) = Sum(given, r.open)
      BY <1>1, <2>2, <3>2, SumSupport
    <3>5. QED
      BY <3>3, <3>4 DEF c
  <2>7. Sum(lost, targets) = Sum(spillover, r.open)
    <3>1. \A t \in r.open : lost[t] = spillover[t]
      BY <1>1
    <3>2. \A t \in targets \ r.open : lost[t] = 0
      OBVIOUS
    <3> HIDE DEF lost
    <3>3. Sum(lost, r.open) = Sum(spillover, r.open)
      BY <1>1, <3>1, SumSame
    <3>4. Sum(lost, targets) = Sum(lost, r.open)
      BY <1>1, <2>2, <3>2, SumSupport
    <3>5. QED
      BY <3>3, <3>4
  <2>8. /\ Sum(Held(r, k), targets) \in Int /\ Sum(Held(s, k), targets) \in Int
        /\ Sum(Balance, targets) \in Int /\ c * q \in Int
    <3>1. c * q \in Int
      BY <1>1, <1>3
    <3>2. QED
      BY <1>1, <2>1, <2>3, <3>1, SumType
  <2>9. Sum(Held(r, k), targets) + r.rest = Sum(Balance, targets) + k
    BY DEF Shared
  <2>10. Sum(Held(s, k), targets) + Sum(spillover, r.open) = Sum(Held(r, k), targets) + c * q
    BY <2>4, <2>5, <2>6, <2>7
  <2> DEFINE cq == c * q
             m == r.rest % c
  <2>11. m \in Int /\ cq \in Int /\ r.rest = cq + m
    BY <1>3, <2>8
  <2>12. s.rest = m + Sum(spillover, r.open)
    BY <1>9
  <2>13. Sum(Held(s, k), targets) + Sum(spillover, r.open) = Sum(Held(r, k), targets) + cq
    BY <2>10
  <2> HIDE DEF cq, m, lost, given, got
  <2>14. QED
    BY <1>8, <2>8, <2>9, <2>11, <2>12, <2>13
<1>14. Shared(s, n + 1, k)
  <2>1. n + 1 # 0
    OBVIOUS
  <2>2. QED
    BY <1>4, <1>9, <1>10, <1>11, <1>12, <1>13, <2>1 DEF Shared
<1>15. QED
  BY <1>2, <1>14

\* After as many rounds as there are targets the tokens are shared.
LEMMA TokensShared ==
  ASSUME BucketsOK, targets # {}, NEW k \in Nat, k >= Cardinality(targets)
  PROVE  Shared(AddTokens(k), Cardinality(targets), k)
<1> DEFINE N == Cardinality(targets)
           Step(f, n) == IF n = 0 THEN Start(k) ELSE Round(f[n - 1], k * 5)
           Good(n) == \E f : f = [i \in 0 .. n |-> Step(f, i)]
           Bad == {n \in Nat : ~ Good(n)}
<1>1. N \in Nat /\ N > 0 /\ k > 0
  <2>1. N \in Nat /\ N # 0
    BY FS_CardinalityType, FS_EmptySet DEF BucketsOK
  <2>2. QED
    BY <2>1
<1>2. Good(0)
  <2>1. [i \in 0 .. 0 |-> Start(k)] = [i \in 0 .. 0 |-> Step([j \in 0 .. 0 |-> Start(k)], i)]
    OBVIOUS
  <2>2. QED
    BY <2>1
<1>3. ASSUME NEW n \in Nat, Good(n) PROVE Good(n + 1)
  <2>1. PICK f : f = [i \in 0 .. n |-> Step(f, i)]
    BY <1>3
  <2> DEFINE g == [i \in 0 .. n + 1 |-> IF i = n + 1 THEN Step(f, i) ELSE f[i]]
  <2>2. \A i \in 0 .. n + 1 : g[i] = Step(g, i)
    <3> SUFFICES ASSUME NEW i \in 0 .. n + 1 PROVE g[i] = Step(g, i)
      OBVIOUS
    <3>1. i # 0 => i - 1 \in 0 .. n /\ g[i - 1] = f[i - 1]
      OBVIOUS
    <3>2. CASE i = n + 1
      BY <3>1, <3>2
    <3>3. CASE i # n + 1
      <4>1. i \in 0 .. n /\ g[i] = f[i]
        BY <3>3
      <4>2. f[i] = Step(f, i)
        BY <2>1, <4>1
      <4>3. QED
        BY <3>1, <4>1, <4>2
    <3>4. QED
      BY <3>2, <3>3
  <2>3. g = [i \in 0 .. n + 1 |-> Step(g, i)]
    BY <2>2
  <2>4. QED
    BY <2>3
<1>4. Good(N)
  <2> SUFFICES ASSUME ~ Good(N) PROVE FALSE
    OBVIOUS
  <2> HIDE DEF Good
  <2>1. Bad # {} /\ Bad \subseteq Nat
    BY <1>1
  <2>2. PICK n \in Bad : \A m \in Bad : n <= m
    BY <2>1, Least
  <2>3. n # 0 /\ n - 1 \in Nat
    BY <1>2, <2>2
  <2>4. Good(n - 1)
    BY <2>2, <2>3
  <2>5. Good((n - 1) + 1)
    BY <1>3, <2>3, <2>4
  <2>6. QED
    BY <2>2, <2>5
<1> DEFINE after == CHOOSE f : f = [i \in 0 .. N |-> Step(f, i)]
<1>5. after = [i \in 0 .. N |-> Step(after, i)]
  BY <1>4
<1>6. AddTokens(k) = after[N]
  BY DEF AddTokens, Start
<1> HIDE DEF after, Good
<1> DEFINE Fine(n) == Shared(after[n], n, k)
           NotFine == {n \in 0 .. N : ~ Fine(n)}
<1>7. Fine(0)
  BY <1>1, <1>5, SharedStart
<1>8. ASSUME NEW n \in Nat, n + 1 \in 0 .. N, Fine(n) PROVE Fine(n + 1)
  <2>1. after[n + 1] = Round(after[n], k * 5)
    <3>1. \A i \in 0 .. N : after[i] = Step(after, i)
      BY <1>5
    <3>2. n + 1 # 0 /\ (n + 1) - 1 = n
      OBVIOUS
    <3>3. after[n + 1] = Round(after[(n + 1) - 1], k * 5)
      BY <1>8, <3>1, <3>2
    <3>4. QED
      BY <3>2, <3>3
  <2>2. CASE ~ Ended(after[n])
    BY <1>1, <1>8, <2>1, <2>2, RoundShares
  <2>3. CASE Ended(after[n])
    <3>1. after[n + 1] = after[n]
      <4>1. after[n].open = {} \/ after[n].rest < Cardinality(after[n].open)
        BY <2>3 DEF Ended
      <4>2. QED
        BY <2>1, <4>1 DEF Round
    <3>2. n > 0
      <4>1. after[0] = Start(k)
        BY <1>1, <1>5
      <4>2. QED
        BY <2>3, <4>1, SharedStart
    <3>3. Shared(after[n], n + 1, k)
      BY <1>8, <2>3, <3>2 DEF Shared
    <3>4. QED
      BY <3>1, <3>3
  <2>4. QED
    BY <2>2, <2>3
<1>9. Fine(N)
  <2> SUFFICES ASSUME ~ Fine(N) PROVE FALSE
    OBVIOUS
  <2> HIDE DEF Fine
  <2>1. NotFine # {} /\ NotFine \subseteq Nat
    BY <1>1
  <2>2. PICK n \in NotFine : \A m \in NotFine : n <= m
    BY <2>1, Least
  <2>3. n # 0 /\ n - 1 \in Nat /\ (n - 1) + 1 \in 0 .. N /\ n - 1 \in 0 .. N
    BY <1>1, <1>7, <2>2
  <2>4. Fine(n - 1)
    BY <2>2, <2>3
  <2>5. Fine((n - 1) + 1)
    BY <1>8, <2>3, <2>4
  <2>6. QED
    BY <2>2, <2>3, <2>5
<1>10. QED
  BY <1>6, <1>9

\* There is less left than one token for each target that has room, each target
\* got tokens, and when all that there were are left, all targets are full.
LEMMA TokensUsed ==
  ASSUME BucketsOK, targets # {}, NEW k \in Nat, k >= Cardinality(targets),
         NEW s, s = AddTokens(k)
  PROVE  /\ s \in Shares /\ Ended(s)
         /\ \A t \in s.open : Paid(t, s.each, k).spillover = 0
         /\ \A t \in targets \ s.open : Paid(t, s.each, k).spillover > 0
         /\ Sum(Held(s, k), targets) + s.rest = Sum(Balance, targets) + k
         /\ s.rest = k => \A t \in targets : Paid(t, s.each, k).available > 0
<1>1. IsFiniteSet(targets) /\ Cardinality(targets) \in Nat /\ Cardinality(targets) > 0
  <2>1. IsFiniteSet(targets)
    BY DEF BucketsOK
  <2>2. Cardinality(targets) \in Nat /\ Cardinality(targets) # 0
    BY <2>1, FS_CardinalityType, FS_EmptySet
  <2>3. QED
    BY <2>1, <2>2
<1>2. Shared(s, Cardinality(targets), k)
  BY TokensShared
<1>3. s \in Shares /\ s.open \in SUBSET targets /\ s.rest \in Nat /\ s.each \in Nat
  BY <1>2 DEF Shared, Shares
<1>4. IsFiniteSet(s.open) /\ Cardinality(s.open) \in Nat /\ Cardinality(s.open) <= Cardinality(targets)
  BY <1>1, <1>3, FS_Subset, FS_CardinalityType
<1>5. Ended(s)
  <2> SUFFICES ASSUME ~ Ended(s) PROVE FALSE
    OBVIOUS
  <2>1. Cardinality(s.open) <= Cardinality(targets) - Cardinality(targets)
    BY <1>2 DEF Shared
  <2>2. Cardinality(s.open) = 0
    BY <1>1, <1>4, <2>1
  <2>3. s.open = {}
    BY <1>4, <2>2, FS_EmptySet
  <2>4. QED
    BY <2>3 DEF Ended
<1>6. ASSUME s.rest = k, NEW t \in targets PROVE Paid(t, s.each, k).available > 0
  <2>1. s.open = {}
    <3>1. ~ (s.rest < Cardinality(s.open))
      BY <1>1, <1>4, <1>6
    <3>2. QED
      BY <1>5, <3>1 DEF Ended
  <2>2. Paid(t, s.each, k).spillover > 0
    BY <1>2, <2>1 DEF Shared
  <2>3. Bucket(t) /\ k * 5 \in Nat /\ k * 5 > 0
    BY <1>1 DEF BucketsOK
  <2>4. QED
    BY <1>3, <2>2, <2>3, TokensPay DEF Paid
<1>7. QED
  BY <1>1, <1>2, <1>3, <1>5, <1>6 DEF Shared

-----------------------------------------------------------------------------
(* The inductive invariant.                                                *)

\* What was granted covers what the socket has, and when its reader is paused
\* also the bytes it is going to be handed.
CreditOK ==
  \A t \in Target :
    /\ credit[t] >= available[t]
    /\ paused[t] # NoHandler => credit[t] >= available[t] - missing[t] + paused[t]

\* A paused reader belongs to a socket the limiter knows, and the timer that is
\* to resume it runs.
TimerOK ==
  /\ timerRunning => waiting \/ fired \/ stopping = "yes"
  /\ \A t \in Target : paused[t] # NoHandler =>
       t \in targets /\ (timerRunning \/ starved \/ stopping = "yes")

LimiterInv ==
  TypeOK /\ (\A t \in Target : available[t] = 0 \/ missing[t] = 0) /\ CreditOK /\ TimerOK

LEMMA BucketsOfTypes ==
  ASSUME LimiterInv
  PROVE  BucketsOK /\ (\A t \in Target : Bucket(t)) /\ Cardinality(targets) \in Nat
<1>1. targets \subseteq Target /\ IsFiniteSet(targets)
  BY RateLimiterAssumption, FS_Subset DEF LimiterInv, TypeOK
<1>2. \A t \in Target : Bucket(t)
  BY DEF LimiterInv, TypeOK, Bucket
<1>3. QED
  BY <1>1, <1>2, FS_CardinalityType DEF BucketsOK

LEMMA LimiterStarts ==
  ASSUME Init
  PROVE  LimiterInv
<1>1. TypeOK
  <2>1. inserts \in 0 .. MaxInserts
    BY RateLimiterAssumption DEF Init
  <2>2. /\ targets = {} /\ posted = {} /\ late = {} /\ stopping = "no"
        /\ available \in [Target -> Nat] /\ missing \in [Target -> Nat]
        /\ credit \in [Target -> Int] /\ limited \in [Target -> BOOLEAN]
    BY DEF Init
  <2>3. paused \in [Target -> Nat \cup {NoHandler}]
    BY DEF Init
  <2>4. QED
    BY <2>1, <2>2, <2>3 DEF Init, TypeOK
<1>2. QED
  BY <1>1 DEF Init, LimiterInv, CreditOK, TimerOK, NoHandler

LEMMA InsertTargetKeeps ==
  ASSUME LimiterInv, NEW t \in Target, InsertTarget(t)
  PROVE  LimiterInv'
<1> USE DEF LimiterInv
<1>1. TypeOK'
  <2>1. inserts' \in 0 .. MaxInserts
    BY RateLimiterAssumption DEF InsertTarget, TypeOK
  <2>2. /\ available' \in [Target -> Nat] /\ missing' \in [Target -> Nat]
        /\ credit' \in [Target -> Int] /\ limited' \in [Target -> BOOLEAN]
    BY DEF InsertTarget, TypeOK
  <2>3. targets' \subseteq Target /\ late' \subseteq Target
    BY DEF InsertTarget, TypeOK
  <2>4. timerRunning' \in BOOLEAN /\ waiting' \in BOOLEAN
    BY DEF InsertTarget, TypeOK, SetNextTimerEvent
  <2>5. QED
    BY <2>1, <2>2, <2>3, <2>4 DEF InsertTarget, TypeOK
<1>2. paused[t] = NoHandler /\ paused' = paused
  BY DEF InsertTarget, TimerOK
<1>3. /\ available'[t] = 0 /\ missing'[t] = 0 /\ credit'[t] = 0
      /\ \A u \in Target \ {t} : /\ available'[u] = available[u] /\ missing'[u] = missing[u]
                                 /\ credit'[u] = credit[u]
  BY DEF InsertTarget, TypeOK
<1>4. CreditOK' /\ (\A u \in Target : available[u] = 0 \/ missing[u] = 0)'
  BY <1>2, <1>3 DEF CreditOK
<1>5. TimerOK'
  BY DEF InsertTarget, TimerOK, SetNextTimerEvent
<1>6. QED
  BY <1>1, <1>4, <1>5

LEMMA AddRXBytesKeeps ==
  ASSUME LimiterInv, NEW t \in Target, NEW n \in Sizes, AddRXBytes(t, n)
  PROVE  LimiterInv'
<1> USE DEF LimiterInv
<1>1. n \in Nat /\ n # NoHandler /\ paused[t] = NoHandler /\ t \in targets
  BY RateLimiterAssumption DEF AddRXBytes, NoHandler
<1>2. /\ available[t] \in Nat /\ missing[t] \in Nat /\ credit[t] \in Int
      /\ (available[t] = 0 \/ missing[t] = 0) /\ credit[t] >= available[t]
  BY DEF TypeOK, CreditOK
<1>3. /\ \A u \in Target \ {t} : /\ available'[u] = available[u] /\ missing'[u] = missing[u]
                                 /\ credit'[u] = credit[u] /\ paused'[u] = paused[u]
      /\ \/ UNCHANGED <<bucket, paused, credit>>
         \/ /\ available[t] >= n /\ available'[t] = available[t] - n /\ missing'[t] = missing[t]
            /\ credit'[t] = credit[t] - n /\ paused' = paused
         \/ /\ available[t] < n /\ available'[t] = 0 /\ missing'[t] = missing[t] + n - available[t]
            /\ credit'[t] = credit[t] /\ paused'[t] = n
  BY DEF AddRXBytes, TypeOK, bucket
<1>4. /\ timerRunning' => waiting' \/ fired' \/ stopping' = "yes"
      /\ timerRunning'
  BY DEF AddRXBytes, StartTimer, SetNextTimerEvent, TimerOK, TypeOK
<1>5. TypeOK'
  <2>1. /\ available' \in [Target -> Nat] /\ missing' \in [Target -> Nat]
        /\ paused' \in [Target -> Nat \cup {NoHandler}] /\ credit' \in [Target -> Int]
    <3>1. CASE UNCHANGED <<bucket, paused, credit>>
      BY <3>1 DEF TypeOK, bucket
    <3>2. CASE /\ available[t] >= n /\ available' = [available EXCEPT ![t] = @ - n]
               /\ credit' = [credit EXCEPT ![t] = @ - n] /\ UNCHANGED <<missing, paused>>
      BY <1>1, <1>2, <3>2 DEF TypeOK
    <3>3. CASE /\ available[t] < n /\ missing' = [missing EXCEPT ![t] = @ + n - available[t]]
               /\ available' = [available EXCEPT ![t] = 0]
               /\ paused' = [paused EXCEPT ![t] = n] /\ UNCHANGED credit
      <4>1. missing[t] + n - available[t] \in Nat
        BY <1>1, <1>2, <3>3
      <4>2. QED
        BY <1>1, <3>3, <4>1 DEF TypeOK
    <3>4. QED
      BY <3>1, <3>2, <3>3 DEF AddRXBytes, bucket
  <2>2. received' \in Nat
    BY <1>1 DEF AddRXBytes, TypeOK
  <2>3. QED
    BY <2>1, <2>2 DEF AddRXBytes, StartTimer, SetNextTimerEvent, TypeOK
<1>6. CreditOK' /\ (\A u \in Target : available[u] = 0 \/ missing[u] = 0)'
  <2>1. /\ available'[t] = 0 \/ missing'[t] = 0
        /\ credit'[t] >= available'[t]
        /\ paused'[t] # NoHandler => credit'[t] >= available'[t] - missing'[t] + paused'[t]
    <3>1. CASE UNCHANGED <<bucket, paused, credit>>
      BY <1>1, <1>2, <3>1 DEF bucket
    <3>2. CASE /\ available[t] >= n /\ available'[t] = available[t] - n /\ missing'[t] = missing[t]
               /\ credit'[t] = credit[t] - n /\ paused' = paused
      <4>1. available'[t] = 0 \/ missing'[t] = 0
        BY <1>1, <1>2, <3>2
      <4>2. QED
        BY <1>1, <1>2, <3>2, <4>1
    <3>3. CASE /\ available[t] < n /\ available'[t] = 0 /\ missing'[t] = missing[t] + n - available[t]
               /\ credit'[t] = credit[t] /\ paused'[t] = n
      <4>1. credit'[t] >= available'[t] - missing'[t] + paused'[t]
        BY <1>1, <1>2, <3>3
      <4>2. QED
        BY <1>2, <3>3, <4>1
    <3>4. QED
      BY <1>3, <3>1, <3>2, <3>3
  <2>2. QED
    BY <1>3, <2>1 DEF CreditOK
<1>7. TimerOK'
  BY <1>1, <1>3, <1>4 DEF TimerOK, AddRXBytes
<1>8. QED
  BY <1>5, <1>6, <1>7

-----------------------------------------------------------------------------
(* The timer.                                                              *)

LEMMA UnpauseKeeps ==
  ASSUME TypeOK, NEW T \in SUBSET targets, Unpause(T)
  PROVE  /\ paused' \in [Target -> Nat \cup {NoHandler}] /\ posted' \subseteq Target
         /\ \A t \in Target : paused'[t] = IF t \in T THEN NoHandler ELSE paused[t]
BY DEF Unpause, TypeOK, NoHandler

\* What Grant leaves a socket, and what was granted it.
LEMMA GrantCredit ==
  ASSUME LimiterInv, NEW k \in Nat, k >= Cardinality(targets), targets # {}, Grant(k),
         NEW t \in Target
  PROVE  /\ available'[t] \in Nat /\ missing'[t] \in Nat /\ credit'[t] \in Int
         /\ available'[t] = 0 \/ missing'[t] = 0
         /\ credit'[t] >= available'[t]
         /\ paused'[t] # NoHandler =>
              paused'[t] = paused[t] /\ credit'[t] >= available'[t] - missing'[t] + paused'[t]
<1> USE DEF LimiterInv
<1> DEFINE s == AddTokens(k)
           p == AddTokenBytes(t, s.each, k * 5)
           resumed == Resumed(k, s.each)
<1>1. BucketsOK /\ Bucket(t)
  BY BucketsOfTypes
<1>2. s.each \in Nat /\ k * 5 \in Nat
  BY <1>1, TokensUsed DEF Shares
<1> HIDE DEF s
<1>3. /\ p.available \in Nat /\ p.missing \in Nat
      /\ p.available = 0 \/ p.missing = 0
      /\ p.missing <= missing[t]
  BY <1>1, <1>2, TokensPay
<1>4. /\ available[t] \in Nat /\ missing[t] \in Nat /\ credit[t] \in Int
      /\ paused[t] \in Nat \cup {NoHandler}
      /\ available[t] = 0 \/ missing[t] = 0
      /\ credit[t] >= available[t]
      /\ paused[t] # NoHandler => credit[t] >= available[t] - missing[t] + paused[t]
  BY DEF TypeOK, CreditOK
<1>5. t \in resumed => t \in targets /\ paused[t] # NoHandler /\ p.available > 0
  BY DEF Resumed
<1>6. resumed \in SUBSET targets
  BY DEF Resumed
<1>7. /\ available' = [u \in Target |-> IF u \in targets THEN AddTokenBytes(u, s.each, k * 5).available ELSE available[u]]
      /\ missing' = [u \in Target |-> IF u \in targets THEN AddTokenBytes(u, s.each, k * 5).missing ELSE missing[u]]
      /\ credit' = [u \in Target |->
                 credit[u] + (available'[u] - missing'[u]) - (available[u] - missing[u])
                 - (IF u \in resumed THEN paused[u] ELSE 0)]
      /\ Unpause(resumed)
  BY Zenon DEF Grant, s
<1>8. paused'[t] = IF t \in resumed THEN NoHandler ELSE paused[t]
  BY <1>6, <1>7, UnpauseKeeps
<1>9. /\ available'[t] = IF t \in targets THEN p.available ELSE available[t]
      /\ missing'[t] = IF t \in targets THEN p.missing ELSE missing[t]
  BY <1>7
<1>10. credit'[t] = credit[t] + (available'[t] - missing'[t]) - (available[t] - missing[t])
                    - (IF t \in resumed THEN paused[t] ELSE 0)
  BY <1>7
<1> HIDE DEF p, resumed
<1>11. CASE t \in resumed
  <2>1. /\ paused[t] \in Nat /\ p.missing = 0 /\ t \in targets
        /\ credit[t] >= available[t] - missing[t] + paused[t]
    BY <1>3, <1>4, <1>5, <1>11
  <2>2. available'[t] = p.available /\ missing'[t] = 0 /\ paused'[t] = NoHandler
    BY <1>8, <1>9, <1>11, <2>1
  <2>3. credit'[t] = credit[t] + (available'[t] - missing'[t]) - (available[t] - missing[t]) - paused[t]
    BY <1>10, <1>11
  <2>4. credit'[t] \in Int /\ credit'[t] >= available'[t]
    BY <1>3, <1>4, <2>1, <2>2, <2>3
  <2>5. QED
    BY <1>3, <2>2, <2>4
<1>12. CASE t \notin resumed
  <2>1. paused'[t] = paused[t]
        /\ credit'[t] = credit[t] + (available'[t] - missing'[t]) - (available[t] - missing[t])
    BY <1>3, <1>4, <1>8, <1>9, <1>10, <1>12
  <2>2. CASE t \in targets
    BY <1>3, <1>4, <1>9, <2>1, <2>2 DEF NoHandler
  <2>3. CASE t \notin targets
    BY <1>4, <1>9, <2>1, <2>3 DEF NoHandler
  <2>4. QED
    BY <2>2, <2>3
<1>13. QED
  BY <1>11, <1>12

LEMMA GrantKeeps ==
  ASSUME LimiterInv, NEW k \in Nat, k >= Cardinality(targets), targets # {}, Grant(k),
         UNCHANGED <<targets, stopping, received, shape, inserts, late>>, fired' = FALSE
  PROVE  LimiterInv'
<1> DEFINE s == AddTokens(k)
           resumed == Resumed(k, s.each)
<1>1. resumed \in SUBSET targets
  BY DEF Resumed
<1>2. /\ available' = [u \in Target |-> IF u \in targets THEN AddTokenBytes(u, s.each, k * 5).available ELSE available[u]]
      /\ missing' = [u \in Target |-> IF u \in targets THEN AddTokenBytes(u, s.each, k * 5).missing ELSE missing[u]]
      /\ credit' = [u \in Target |->
                 credit[u] + (available'[u] - missing'[u]) - (available[u] - missing[u])
                 - (IF u \in resumed THEN paused[u] ELSE 0)]
      /\ limited' = [u \in Target |-> limited[u] \/ u \in targets]
      /\ Unpause(resumed)
      /\ IF s.rest = k THEN EndTimer ELSE SetNextTimerEvent
      /\ starved' = starved
  BY Zenon DEF Grant
<1>3. /\ paused' \in [Target -> Nat \cup {NoHandler}] /\ posted' \subseteq Target
      /\ \A t \in Target : paused'[t] = IF t \in resumed THEN NoHandler ELSE paused[t]
  BY <1>1, <1>2, UnpauseKeeps DEF LimiterInv
<1>4. TypeOK'
  <2>1. \A t \in Target : available'[t] \in Nat /\ missing'[t] \in Nat /\ credit'[t] \in Int
    BY GrantCredit
  <2>2. /\ available' \in [Target -> Nat] /\ missing' \in [Target -> Nat]
        /\ credit' \in [Target -> Int]
    BY <1>2, <2>1
  <2>3. limited' \in [Target -> BOOLEAN]
    BY <1>2 DEF LimiterInv, TypeOK
  <2>4. timerRunning' \in BOOLEAN /\ waiting' \in BOOLEAN
    BY <1>2 DEF EndTimer, SetNextTimerEvent, LimiterInv, TypeOK
  <2>5. QED
    BY <1>2, <1>3, <2>2, <2>3, <2>4 DEF LimiterInv, TypeOK
<1>5. CreditOK' /\ (\A t \in Target : available[t] = 0 \/ missing[t] = 0)'
  BY GrantCredit DEF CreditOK
<1>6. TimerOK'
  <2>1. CASE s.rest = k
    <3>1. \A t \in targets : Paid(t, s.each, k).available > 0
      BY <2>1, BucketsOfTypes, TokensUsed
    <3>2. \A t \in targets : paused[t] # NoHandler => t \in resumed
      BY <3>1 DEF Resumed, Paid
    <3>3. \A t \in Target : paused'[t] = NoHandler
      BY <1>3, <3>2 DEF LimiterInv, TimerOK
    <3>4. timerRunning' = FALSE
      BY <1>2, <2>1 DEF EndTimer
    <3>5. QED
      BY <3>3, <3>4 DEF TimerOK
  <2>2. CASE s.rest # k
    <3>1. timerRunning' = TRUE /\ waiting' = TRUE
      BY <1>2, <2>2 DEF SetNextTimerEvent
    <3>2. \A t \in Target : paused'[t] # NoHandler => t \in targets
      BY <1>3 DEF LimiterInv, TimerOK
    <3>3. QED
      BY <3>1, <3>2 DEF TimerOK
  <2>3. QED
    BY <2>1, <2>2
<1>7. QED
  BY <1>4, <1>5, <1>6 DEF LimiterInv

\* All readers of the sockets go on, and nothing is granted.
LEMMA ResumeAllKeeps ==
  ASSUME LimiterInv, Unpause(targets), UNCHANGED <<targets, bucket, credit, received, shape, inserts, late>>,
         limited' \in [Target -> BOOLEAN], timerRunning' \in BOOLEAN, waiting' \in BOOLEAN,
         fired' \in BOOLEAN, starved' \in BOOLEAN, stopping' \in {"no", "posted", "yes"},
         timerRunning' => waiting' \/ fired' \/ stopping' = "yes"
  PROVE  LimiterInv'
<1>1. /\ paused' \in [Target -> Nat \cup {NoHandler}] /\ posted' \subseteq Target
      /\ \A t \in Target : paused'[t] = IF t \in targets THEN NoHandler ELSE paused[t]
  BY UnpauseKeeps DEF LimiterInv
<1>2. \A t \in Target : paused'[t] = NoHandler
  BY <1>1 DEF LimiterInv, TimerOK
<1>3. TypeOK'
  BY <1>1 DEF LimiterInv, TypeOK, bucket
<1>4. QED
  BY <1>2, <1>3 DEF LimiterInv, CreditOK, TimerOK, bucket

LEMMA AddTokenBytesEventKeeps ==
  ASSUME LimiterInv, AddTokenBytesEvent
  PROVE  LimiterInv'
<1>1. /\ fired' = FALSE
      /\ UNCHANGED <<targets, stopping, received, shape, inserts, late>>
  BY DEF AddTokenBytesEvent
<1>2. CASE stopping = "yes" /\ UNCHANGED <<bucket, limited, paused, posted, timerRunning, waiting, credit, starved>>
  BY <1>1, <1>2 DEF LimiterInv, TypeOK, CreditOK, TimerOK, bucket
<1>3. CASE targets = {} /\ EndTimer /\ UNCHANGED <<bucket, limited, paused, posted, credit, starved>>
  BY <1>1, <1>3 DEF LimiterInv, TypeOK, CreditOK, TimerOK, EndTimer, bucket
<1>4. CASE LiftLimit
  <2>1. /\ Unpause(targets) /\ timerRunning' = FALSE /\ waiting' = waiting
        /\ limited' \in [Target -> BOOLEAN] /\ UNCHANGED <<bucket, credit, starved>>
    BY <1>4 DEF LiftLimit, EndTimer
  <2>2. QED
    BY <1>1, <2>1, ResumeAllKeeps DEF LimiterInv, TypeOK
<1>5. CASE TooFew
  <2>1. /\ timerRunning' = FALSE /\ waiting' = waiting
        /\ starved' = (starved \/ \E t \in targets : paused[t] # NoHandler)
        /\ UNCHANGED <<bucket, limited, paused, posted, credit>>
    BY <1>5 DEF TooFew, EndTimer
  <2>2. TypeOK'
    BY <1>1, <2>1 DEF LimiterInv, TypeOK, bucket
  <2>3. TimerOK'
    BY <1>1, <2>1 DEF LimiterInv, TimerOK
  <2>4. QED
    BY <2>1, <2>2, <2>3 DEF LimiterInv, CreditOK, bucket
<1>6. ASSUME NEW urgent \in BOOLEAN, NEW extra \in Extra, targets # {},
             ~ (Tokens(Parameters(urgent, extra)) < Cardinality(targets)),
             Grant(Tokens(Parameters(urgent, extra)))
      PROVE  LimiterInv'
  <2> DEFINE p == Parameters(urgent, extra)
             k == Tokens(p)
  <2>1. p.rate \in Nat /\ p.extra \in Nat
    BY RateLimiterAssumption DEF Parameters, LimiterInv, TypeOK
  <2>2. k \in Nat
    BY <2>1 DEF Tokens
  <2>3. k >= Cardinality(targets)
    BY <1>6, <2>2, BucketsOfTypes
  <2> HIDE DEF k
  <2>4. Grant(k)
    BY <1>6 DEF k
  <2>5. QED
    BY <1>1, <1>6, <2>2, <2>3, <2>4, GrantKeeps
<1>7. QED
  <2>1. CASE stopping # "yes" /\ targets # {}
    <3>1. PICK urgent \in BOOLEAN, extra \in Extra :
            \/ LiftLimit
            \/ TooFew
            \/ /\ ~ (Tokens(Parameters(urgent, extra)) < Cardinality(targets))
               /\ Grant(Tokens(Parameters(urgent, extra)))
      BY <2>1 DEF AddTokenBytesEvent
    <3>2. QED
      BY <1>4, <1>5, <1>6, <2>1, <3>1
  <2>2. CASE ~ (stopping # "yes" /\ targets # {})
    BY <1>2, <1>3, <2>2 DEF AddTokenBytesEvent
  <2>3. QED
    BY <2>1, <2>2

LEMMA StopHandlerKeeps ==
  ASSUME LimiterInv, StopHandler
  PROVE  LimiterInv'
<1>1. /\ Unpause(targets) /\ stopping' = "yes" /\ waiting' = FALSE
      /\ limited' = [t \in Target |-> limited[t] /\ t \notin targets]
      /\ UNCHANGED <<targets, bucket, timerRunning, fired, received, shape, inserts, credit, late, starved>>
  BY DEF StopHandler, StopTargets, history
<1>2. limited' \in [Target -> BOOLEAN]
  BY <1>1
<1>3. QED
  BY <1>1, <1>2, ResumeAllKeeps DEF LimiterInv, TypeOK

\* The handlers that move no bytes.
LEMMA OthersKeep ==
  ASSUME LimiterInv,
         \/ \E t \in Target : RemoveTarget(t) \/ RunHandler(t)
         \/ Expire \/ Stop \/ UNCHANGED vars
         \/ \E s \in Shapes : SetNetworkThrottling(s)
  PROVE  LimiterInv'
<1>1. /\ UNCHANGED bucket /\ UNCHANGED <<limited, paused, received, inserts>> /\ UNCHANGED history
  BY DEF RemoveTarget, RunHandler, Expire, Stop, SetNetworkThrottling, vars
<1>2. UNCHANGED <<available, missing, limited, paused, received, inserts, credit, late, starved>>
  BY <1>1 DEF bucket, history
<1>3. TypeOK' /\ TimerOK'
  <2>1. CASE \E t \in Target : RemoveTarget(t)
    BY <1>2, <2>1 DEF RemoveTarget, LimiterInv, TypeOK, TimerOK, timer
  <2>2. CASE \E t \in Target : RunHandler(t)
    BY <1>2, <2>2 DEF RunHandler, LimiterInv, TypeOK, TimerOK, timer
  <2>3. CASE Expire
    <3>1. /\ UNCHANGED <<targets, stopping, shape>>
          /\ UNCHANGED <<timerRunning, posted>> /\ waiting' = FALSE /\ fired' = TRUE
      BY <2>3 DEF Expire
    <3>2. QED
      BY <1>2, <3>1 DEF LimiterInv, TypeOK, TimerOK
  <2>4. CASE Stop
    BY <1>2, <2>4 DEF Stop, LimiterInv, TypeOK, TimerOK, timer
  <2>5. CASE UNCHANGED vars
    BY <1>2, <2>5 DEF vars, LimiterInv, TypeOK, TimerOK, timer
  <2>6. CASE \E s \in Shapes : SetNetworkThrottling(s)
    BY <1>2, <2>6 DEF SetNetworkThrottling, LimiterInv, TypeOK, TimerOK, timer
  <2>7. QED
    BY <2>1, <2>2, <2>3, <2>4, <2>5, <2>6
<1>4. QED
  BY <1>2, <1>3 DEF LimiterInv, CreditOK

LEMMA LimiterSteps ==
  ASSUME LimiterInv, [Next]_vars
  PROVE  LimiterInv'
<1>1. CASE Next
  BY <1>1, InsertTargetKeeps, AddRXBytesKeeps, AddTokenBytesEventKeeps, StopHandlerKeeps,
     OthersKeep DEF Next
<1>2. CASE UNCHANGED vars
  BY <1>2, OthersKeep
<1>3. QED
  BY <1>1, <1>2

LEMMA LimiterAlways == Spec => []LimiterInv
  BY LimiterStarts, LimiterSteps, PTL DEF Spec

-----------------------------------------------------------------------------
(* The theorems.                                                           *)

\* The limiter and its sockets keep their types; the counters of a socket,
\* which are unsigned in the code, never go below 0.
THEOREM TypeCorrect == Spec => []TypeOK
<1>1. LimiterInv => TypeOK
  BY DEF LimiterInv
<1>2. QED
  BY <1>1, LimiterAlways, PTL

\* No reader gets bytes under the limit that tokens have not paid for.
THEOREM RateHeldAlways == Spec => []RateHeld
<1>1. LimiterInv => RateHeld
  <2> SUFFICES ASSUME LimiterInv, NEW t \in Target PROVE credit[t] >= 0
    BY DEF RateHeld
  <2>1. available[t] \in Nat /\ credit[t] \in Int /\ credit[t] >= available[t]
    BY DEF LimiterInv, TypeOK, CreditOK
  <2>2. QED
    BY <2>1
<1>2. QED
  BY <1>1, LimiterAlways, PTL

\* While a reader is paused somebody comes back for it.
THEOREM PausedHasTimerAlways == Spec => []PausedHasTimer
<1>1. LimiterInv => PausedHasTimer
  BY DEF LimiterInv, TimerOK, PausedHasTimer
<1>2. QED
  BY <1>1, LimiterAlways, PTL

\* AddTokens loses no token and makes none, and shares all there are while there
\* is room for them.
THEOREM TokensKeptAlways == Spec => []TokensKept
<1>1. LimiterInv => TokensKept
  <2> SUFFICES ASSUME LimiterInv, NEW k \in Cardinality(targets) .. MaxReceived, targets # {}
               PROVE  LET r == AddTokens(k) IN
                      /\ Sum([t \in targets |-> PaidBalance(t, r.each, k)], targets) + r.rest
                           = Sum(Balance, targets) + k
                      /\ Ended(r)
    BY DEF TokensKept, Sum, PaidBalance, Paid, Balance, Ended
  <2> DEFINE r == AddTokens(k)
             new == [t \in targets |-> PaidBalance(t, r.each, k)]
  <2>1. BucketsOK /\ k \in Nat /\ k >= Cardinality(targets)
    BY BucketsOfTypes
  <2>2. /\ r \in Shares /\ Ended(r)
        /\ \A t \in r.open : Paid(t, r.each, k).spillover = 0
        /\ Sum(Held(r, k), targets) + r.rest = Sum(Balance, targets) + k
    BY <2>1, TokensUsed
  <2> HIDE DEF r
  <2>3. \A t \in targets : Held(r, k)[t] = new[t]
    <3> SUFFICES ASSUME NEW t \in targets PROVE Held(r, k)[t] = PaidBalance(t, r.each, k)
      OBVIOUS
    <3>1. CASE t \notin r.open
      BY <3>1 DEF Held
    <3>2. CASE t \in r.open
      <4>1. Bucket(t) /\ r.each \in Nat /\ k * 5 \in Nat
        BY <2>1, <2>2 DEF BucketsOK, Shares
      <4>2. /\ Paid(t, r.each, k).available \in Nat /\ Paid(t, r.each, k).missing \in Nat
            /\ Paid(t, r.each, k).available - Paid(t, r.each, k).missing + Paid(t, r.each, k).spillover
                 = available[t] - missing[t] + r.each
        BY <4>1, TokensPay DEF Paid
      <4>3. Paid(t, r.each, k).spillover = 0
        BY <2>2, <3>2
      <4>4. PaidBalance(t, r.each, k) = Balance[t] + r.each
        BY <4>1, <4>2, <4>3 DEF PaidBalance, Balance, Bucket
      <4>5. QED
        BY <3>2, <4>4 DEF Held
    <3>3. QED
      BY <3>1, <3>2
  <2>4. Sum(new, targets) = Sum(Held(r, k), targets)
    <3> HIDE DEF new
    <3>1. QED
      BY <2>1, <2>3, SumSame DEF BucketsOK
  <2>5. QED
    BY <2>2, <2>4 DEF r
<1>2. QED
  BY <1>1, LimiterAlways, PTL
=============================================================================
