------------------------- MODULE SegmentCache_proofs -------------------------
(***************************************************************************)
(* The bytes a user of the cache sees are those of its segment, for any    *)
(* number of segments, buffers, users and calls.  The argument is about    *)
(* who can have a buffer at the same time: the map has it under one key,   *)
(* and those who hold it hold it for one key, the same if it is in both.   *)
(***************************************************************************)
EXTENDS SegmentCache, SequenceTheorems, TLAPS

Single(S) == \A b, c \in S : b = c

\* No buffer is in two roles.
Roles ==
  /\ \A k \in SegmentKey : Single(segments[k])
  /\ \A u \in User : Single(held[u])
  /\ \A k, l \in SegmentKey : \A b \in segments[k] \cap segments[l] : k = l
  /\ \A u \in User, k \in SegmentKey : \A b \in held[u] \cap segments[k] : for[u] = k
  /\ \A u, v \in User : \A b \in held[u] \cap held[v] : for[u] = for[v]

CacheInv == TypeOK /\ Roles /\ OwnBytes /\ RightKey

\* The empty cache satisfies the invariant.
LEMMA CacheInit == Init => CacheInv
<1> SUFFICES ASSUME Init PROVE CacheInv
  OBVIOUS
<1>1. TypeOK
  BY CacheAssumption DEF Init, TypeOK
<1>2. Roles /\ OwnBytes /\ RightKey
  BY DEF Init, Roles, Single, OwnBytes, RightKey
<1>3. QED
  BY <1>1, <1>2 DEF CacheInv

\* RemoveAt and Append leave a queue of keys.
LEMMA QueueType ==
  ASSUME NEW s \in Seq(SegmentKey), NEW i \in DOMAIN s, NEW k \in SegmentKey
  PROVE  /\ RemoveAt(s, i) \in Seq(SegmentKey)
         /\ Append(s, k) \in Seq(SegmentKey)
         /\ Append(RemoveAt(s, i), k) \in Seq(SegmentKey)
<1>1. i \in 1 .. Len(s)
  OBVIOUS
<1>2. SubSeq(s, 1, i - 1) \in Seq(SegmentKey) /\ SubSeq(s, i + 1, Len(s)) \in Seq(SegmentKey)
  BY <1>1
<1>3. RemoveAt(s, i) \in Seq(SegmentKey)
  BY <1>2 DEF RemoveAt
<1>4. QED
  BY <1>3

\* Create, when it reuses a buffer: the buffer loses its old key, and nobody
\* holds it.
LEMMA CacheReuse ==
  ASSUME CacheInv, NEW u \in User, NEW k \in SegmentKey, Create(u, k), Reuse(u, k)
  PROVE  CacheInv'
<1> USE DEF CacheInv, TypeOK
<1>1. PICK i \in Reusable :
        /\ segments' = [EraseSegment(fifoKeys[i]) EXCEPT ![k] = segments[fifoKeys[i]]]
        /\ held' = [held EXCEPT ![u] = segments[fifoKeys[i]]]
        /\ contents' = [b \in Buffer |-> IF b \in segments[fifoKeys[i]] THEN {} ELSE contents[b]]
        /\ fifoKeys' = Append(DropKey(i), k)
  BY Zenon DEF Reuse
<1>2. i \in DOMAIN fifoKeys /\ fifoKeys[i] \in SegmentKey
  BY <1>1 DEF Reusable
<1> DEFINE old == fifoKeys[i]
<1>3. /\ segments' = [l \in SegmentKey |-> IF l = k THEN segments[old]
                                           ELSE IF l = old THEN {} ELSE segments[l]]
      /\ held' = [v \in User |-> IF v = u THEN segments[old] ELSE held[v]]
      /\ for' = [v \in User |-> IF v = u THEN k ELSE for[v]]
  BY <1>1, <1>2 DEF EraseSegment, Create
<1>4. \A v \in User : \A b \in segments[old] : b \notin held[v]
  BY <1>1, <1>2 DEF Reusable, Unused, InUse, Roles, Single
<1>5. fifoKeys' \in Seq(SegmentKey)
  BY <1>1, <1>2, QueueType DEF DropKey
<1>6. creates' \in 0 .. MaxCreate
  BY CacheAssumption DEF Create
<1>7. segments' \in [SegmentKey -> SUBSET Buffer] /\ held' \in [User -> SUBSET Buffer]
  BY <1>2, <1>3
<1>8. contents' \in [Buffer -> SUBSET SegmentKey]
  BY <1>1
<1>9. TypeOK'
  BY <1>3, <1>5, <1>6, <1>7, <1>8
<1>10. Roles'
  BY <1>2, <1>3, <1>4 DEF Roles, Single
<1>11. OwnBytes' /\ RightKey'
  BY <1>1, <1>2, <1>3, <1>4 DEF OwnBytes, RightKey, Roles
<1>12. QED
  BY <1>9, <1>10, <1>11

\* Create, when it allocates a buffer that nobody has.
LEMMA CacheAllocate ==
  ASSUME CacheInv, NEW u \in User, NEW k \in SegmentKey, Create(u, k), Allocate(u, k)
  PROVE  CacheInv'
<1> USE DEF CacheInv, TypeOK
<1>1. PICK b \in Buffer :
        /\ Free(b)
        /\ segments' = [segments EXCEPT ![k] = {b}]
        /\ held' = [held EXCEPT ![u] = {b}]
        /\ contents' = [contents EXCEPT ![b] = {}]
        /\ fifoKeys' = Append(fifoKeys, k)
  BY Zenon DEF Allocate
<1>2. /\ for' = [for EXCEPT ![u] = k]
      /\ creates' \in 0 .. MaxCreate
  BY CacheAssumption DEF Create
<1>3. TypeOK'
  BY <1>1, <1>2
<1>4. /\ \A l \in SegmentKey : b \notin segments[l]
      /\ \A v \in User : b \notin held[v]
  BY <1>1 DEF Free, InMap, InUse
<1>5. Roles'
  BY <1>1, <1>2, <1>4 DEF Roles, Single
<1>6. OwnBytes' /\ RightKey'
  BY <1>1, <1>2, <1>4 DEF OwnBytes, RightKey
<1>7. QED
  BY <1>3, <1>5, <1>6

\* Write: those who have the buffer have it for the key that is written.
LEMMA CacheWrite ==
  ASSUME CacheInv, NEW u \in User, Write(u)
  PROVE  CacheInv'
<1> USE DEF CacheInv, TypeOK
<1>1. PICK b \in held[u] : contents' = [contents EXCEPT ![b] = {for[u]}]
  BY DEF Write
<1>2. UNCHANGED <<segments, fifoKeys, held, for, creates>>
  BY DEF Write
<1>3. TypeOK'
  BY <1>1, <1>2
<1>4. Roles'
  BY <1>2 DEF Roles
<1>5. OwnBytes' /\ RightKey'
  BY <1>1, <1>2 DEF OwnBytes, RightKey, Roles
<1>6. QED
  BY <1>3, <1>4, <1>5

\* TryGet and Release move shared_ptrs only.
LEMMA CacheHold ==
  ASSUME CacheInv, NEW u \in User,
         Release(u) \/ \E k \in SegmentKey : TryGet(u, k)
  PROVE  CacheInv'
<1> USE DEF CacheInv, TypeOK
<1>1. CASE Release(u)
  BY <1>1 DEF Release, Roles, Single, OwnBytes, RightKey
<1>2. ASSUME NEW k \in SegmentKey, TryGet(u, k) PROVE CacheInv'
  <2>1. TypeOK'
    BY <1>2 DEF TryGet
  <2>2. Roles'
    BY <1>2 DEF TryGet, Roles, Single
  <2>3. OwnBytes' /\ RightKey'
    BY <1>2 DEF TryGet, OwnBytes, RightKey
  <2>4. QED
    BY <2>1, <2>2, <2>3
<1>3. QED
  BY <1>1, <1>2

\* Every step of the cache keeps the invariant.
LEMMA CacheNext == CacheInv /\ [Next]_vars => CacheInv'
<1> SUFFICES ASSUME CacheInv, [Next]_vars PROVE CacheInv'
  OBVIOUS
<1>1. CASE UNCHANGED vars
  BY <1>1 DEF vars, CacheInv, TypeOK, Roles, OwnBytes, RightKey
<1>2. ASSUME NEW u \in User, NEW k \in SegmentKey, Create(u, k) PROVE CacheInv'
  BY <1>2, CacheReuse, CacheAllocate DEF Create
<1>3. QED
  BY <1>1, <1>2, CacheWrite, CacheHold DEF Next

\* A key that stands somewhere else than at i is still in the queue when the entry
\* i was removed and k was put behind.
LEMMA QueueKeeps ==
  ASSUME NEW s \in Seq(SegmentKey), NEW i \in DOMAIN s, NEW k \in SegmentKey,
         NEW j \in DOMAIN s, j # i
  PROVE  \E n \in DOMAIN Append(RemoveAt(s, i), k) : Append(RemoveAt(s, i), k)[n] = s[j]
<1> DEFINE left == SubSeq(s, 1, i - 1)
           right == SubSeq(s, i + 1, Len(s))
           n == IF j < i THEN j ELSE j - 1
<1>1. i \in 1 .. Len(s) /\ Len(s) \in Nat /\ j \in 1 .. Len(s)
  OBVIOUS
<1>2. /\ left \in Seq(SegmentKey) /\ Len(left) = i - 1
      /\ \A m \in 1 .. i - 1 : left[m] = s[m]
  BY <1>1
<1>3. /\ right \in Seq(SegmentKey) /\ Len(right) = Len(s) - i
      /\ \A m \in 1 .. Len(s) - i : right[m] = s[i + m]
  BY <1>1
<1>4. SUFFICES ASSUME NEW l \in Seq(SegmentKey), l = left,
                      NEW r \in Seq(SegmentKey), r = right
               PROVE  \E m \in DOMAIN Append(l \o r, k) : Append(l \o r, k)[m] = s[j]
  BY <1>2, <1>3 DEF RemoveAt
<1>5. /\ Len(l) = i - 1 /\ \A m \in 1 .. i - 1 : l[m] = s[m]
      /\ Len(r) = Len(s) - i /\ \A m \in 1 .. Len(s) - i : r[m] = s[i + m]
  BY <1>2, <1>3, <1>4
<1> HIDE DEF left, right
<1>6. /\ l \o r \in Seq(SegmentKey) /\ Len(l \o r) = Len(s) - 1
      /\ n \in 1 .. Len(s) - 1 /\ (l \o r)[n] = s[j]
  <2>1. l \o r \in Seq(SegmentKey) /\ Len(l \o r) = Len(s) - 1
    BY <1>1, <1>5
  <2>2. CASE j < i
    BY <1>1, <1>5, <2>1, <2>2
  <2>3. CASE j > i
    <3>1. n = j - 1 /\ j - 1 \in 1 .. Len(s) - 1 /\ j - i \in 1 .. Len(s) - i
      BY <1>1, <2>3
    <3>2. /\ j - 1 \in 1 .. Len(l) + Len(r)
          /\ ~ (j - 1 <= Len(l))
          /\ (j - 1) - Len(l) = j - i
      BY <1>1, <1>5, <2>3
    <3>3. (l \o r)[j - 1] = r[j - i]
      <4>1. \A m \in 1 .. Len(l) + Len(r) :
              (l \o r)[m] = IF m <= Len(l) THEN l[m] ELSE r[m - Len(l)]
        BY ConcatProperties
      <4>2. (l \o r)[j - 1] = r[(j - 1) - Len(l)]
        BY <3>2, <4>1, Zenon
      <4>3. QED
        BY <3>2, <4>2, Zenon
    <3>4. r[j - i] = s[j]
      <4>1. r[j - i] = s[i + (j - i)]
        BY <1>5, <3>1, Zenon
      <4>2. i + (j - i) = j
        BY <1>1
      <4>3. QED
        BY <4>1, <4>2, Zenon
    <3>5. QED
      BY <2>1, <3>1, <3>3, <3>4, Zenon
  <2>4. QED
    BY <1>1, <2>2, <2>3
<1>7. SUFFICES ASSUME NEW t \in Seq(SegmentKey), t = l \o r
               PROVE  \E m \in DOMAIN Append(t, k) : Append(t, k)[m] = s[j]
  BY <1>6, Zenon
<1>8. n \in 1 .. Len(t) /\ t[n] = s[j]
  BY <1>6, <1>7
<1> HIDE DEF n
<1>9. n \in DOMAIN Append(t, k) /\ Append(t, k)[n] = s[j]
  BY <1>8
<1>10. QED
  BY <1>9, Zenon

\* Every step of the cache keeps a key for every segment that is in it.
LEMMA QueueNext == CacheInv /\ CanBeReused /\ [Next]_vars => CanBeReused'
<1> SUFFICES ASSUME CacheInv, CanBeReused, [Next]_vars,
                    NEW l \in SegmentKey, segments'[l] # {}
             PROVE  \E n \in DOMAIN fifoKeys' : fifoKeys'[n] = l
  BY DEF CanBeReused
<1> USE DEF CacheInv, TypeOK
<1>1. CASE UNCHANGED <<segments, fifoKeys>>
  BY <1>1 DEF CanBeReused
<1>2. ASSUME NEW u \in User, NEW k \in SegmentKey, Create(u, k), Reuse(u, k)
      PROVE  \E n \in DOMAIN fifoKeys' : fifoKeys'[n] = l
  <2>1. PICK i \in Reusable :
          /\ segments' = [EraseSegment(fifoKeys[i]) EXCEPT ![k] = segments[fifoKeys[i]]]
          /\ fifoKeys' = Append(DropKey(i), k)
    BY <1>2, Zenon DEF Reuse
  <2>2. i \in DOMAIN fifoKeys /\ fifoKeys[i] \in SegmentKey
    BY <2>1 DEF Reusable
  <2>3. fifoKeys' = Append(RemoveAt(fifoKeys, i), k)
    BY <2>1 DEF DropKey
  <2>4. CASE l = k
    <3>1. PICK t \in Seq(SegmentKey) : t = RemoveAt(fifoKeys, i)
      BY <2>2, QueueType
    <3>2. Len(t) + 1 \in DOMAIN Append(t, k) /\ Append(t, k)[Len(t) + 1] = k
      OBVIOUS
    <3>3. QED
      BY <2>3, <2>4, <3>1, <3>2
  <2>5. CASE l # k
    <3>1. l # fifoKeys[i] /\ segments[l] # {}
      BY <2>1, <2>2, <2>5 DEF EraseSegment
    <3>2. PICK j \in DOMAIN fifoKeys : fifoKeys[j] = l
      BY <3>1 DEF CanBeReused
    <3>3. j # i
      BY <3>1, <3>2
    <3>4. QED
      BY <2>2, <2>3, <3>2, <3>3, QueueKeeps
  <2>6. QED
    BY <2>4, <2>5
<1>3. ASSUME NEW u \in User, NEW k \in SegmentKey, Create(u, k), Allocate(u, k)
      PROVE  \E n \in DOMAIN fifoKeys' : fifoKeys'[n] = l
  <2>1. PICK b \in Buffer :
          segments' = [segments EXCEPT ![k] = {b}] /\ fifoKeys' = Append(fifoKeys, k)
    BY <1>3, Zenon DEF Allocate
  <2>2. CASE l = k
    BY <2>1, <2>2
  <2>3. CASE l # k
    <3>1. PICK j \in DOMAIN fifoKeys : fifoKeys[j] = l
      BY <2>1, <2>3 DEF CanBeReused
    <3>2. QED
      BY <2>1, <3>1
  <2>4. QED
    BY <2>2, <2>3
<1>4. ASSUME NEW u \in User, Write(u) \/ Release(u) \/ \E k \in SegmentKey : TryGet(u, k)
      PROVE  UNCHANGED <<segments, fifoKeys>>
  BY <1>4 DEF Write, Release, TryGet
<1>5. CASE UNCHANGED vars
  BY <1>1, <1>5 DEF vars
<1>6. QED
  BY <1>1, <1>2, <1>3, <1>4, <1>5 DEF Next, Create

\* The invariant of the cache holds in every state (SegmentCache.cpp:84).
THEOREM CacheInvariant == Spec => []CacheInv
<1>1. QED
  BY CacheInit, CacheNext, PTL DEF Spec

\* Whoever holds a buffer of the cache sees the bytes of its own segment only,
\* whatever is created, released or reused meanwhile.
THEOREM OwnBytesAlways == Spec => []OwnBytes
<1>1. CacheInv => OwnBytes
  BY DEF CacheInv
<1>2. QED
  BY <1>1, CacheInvariant, PTL

\* TryGet never finds the bytes of another segment.
THEOREM RightKeyAlways == Spec => []RightKey
<1>1. CacheInv => RightKey
  BY DEF CacheInv
<1>2. QED
  BY <1>1, CacheInvariant, PTL

\* No cached segment is forgotten by the queue: when nobody holds its buffer and
\* the cache is full, Create can find it (SegmentCache.cpp:93).
THEOREM CanBeReusedAlways == Spec => []CanBeReused
<1>1. Init => CanBeReused
  BY DEF Init, CanBeReused
<1>2. QED
  BY <1>1, QueueNext, CacheInvariant, PTL DEF Spec
=============================================================================
