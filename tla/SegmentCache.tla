----------------------------- MODULE SegmentCache -----------------------------
(***************************************************************************)
(* The cache of downloaded segments that all files share                   *)
(* (SegmentCache.cpp).  Create hands a buffer to the decoder of a segment, *)
(* a reader takes the buffer with TryGet, copies from it and drops it; a   *)
(* full cache gives the oldest buffer that nobody holds to the next        *)
(* segment.  Create runs on the io thread, TryGet on any thread; both lock *)
(* SegmentCache::m_mutex, but what is done with the buffer is outside of   *)
(* it.  The count of shared_ptrs is the map's one and those of  held.      *)
(***************************************************************************)
EXTENDS Naturals, Sequences, SequencesExt, FiniteSets

CONSTANTS
  SegmentKey,  \* SegmentCache::Key: a file and the index of a segment
  Buffer,      \* the CachedSegment objects
  User,        \* decoders and readers
  MaxKeys,     \* how many m_fifo_keys there may be before a buffer is reused
  Recreate,    \* whether a segment that is in the cache is created again
  MaxCreate    \* bound: calls of Create

ASSUME CacheAssumption ==
  /\ MaxKeys \in Nat
  /\ Recreate \in BOOLEAN
  /\ MaxCreate \in Nat

VARIABLES
  segments,    \* m_segments: the buffer of each key, as a set of at most one
  fifoKeys,    \* m_fifo_keys
  held,        \* the buffer each user has a shared_ptr to, as a set of at most one
  for,         \* the key each user holds its buffer for
  contents,    \* the key whose bytes are in each buffer, as a set
  creates      \* calls of Create

vars == <<segments, fifoKeys, held, for, contents, creates>>

-----------------------------------------------------------------------------

InMap(b) == \E k \in SegmentKey : b \in segments[k]
InUse(b) == \E u \in User : b \in held[u]

\* A buffer that malloc may return: no shared_ptr to the object that had it.
Free(b) == ~ InMap(b) /\ ~ InUse(b)

\* Mutant: use_count() is not asked.
Unused_any(b) == TRUE

\* use_count() = 1
Unused(b) == ~ InUse(b)

\* Positions of keys whose buffer is only in the map.
Reusable == {i \in DOMAIN fifoKeys : \E b \in segments[fifoKeys[i]] : Unused(b)}

\* Mutant: the oldest key is dropped, whatever segment was taken.
DropKey_oldest(i) == Tail(fifoKeys)

DropKey(i) == RemoveAt(fifoKeys, i)

\* Mutant: the reused buffer can still be found under the old key.
EraseSegment_not(old) == segments

EraseSegment(old) == [segments EXCEPT ![old] = {}]

\* Create when the queue is long and a buffer is not in use: the first one.
Reuse(u, k) ==
  \E i \in Reusable :
    /\ Len(fifoKeys) > MaxKeys
    /\ \A j \in Reusable : i <= j
    /\ LET old == fifoKeys[i] IN
       /\ segments' = [EraseSegment(old) EXCEPT ![k] = segments[old]]
       /\ held' = [held EXCEPT ![u] = segments[old]]
       /\ contents' = [b \in Buffer |-> IF b \in segments[old] THEN {} ELSE contents[b]]
    /\ fifoKeys' = Append(DropKey(i), k)

\* Create otherwise: a new buffer.
Allocate(u, k) ==
  \E b \in Buffer :
    /\ Len(fifoKeys) <= MaxKeys \/ Reusable = {}
    /\ Free(b)
    /\ segments' = [segments EXCEPT ![k] = {b}]
    /\ held' = [held EXCEPT ![u] = {b}]
    /\ contents' = [contents EXCEPT ![b] = {}]
    /\ fifoKeys' = Append(fifoKeys, k)

Create(u, k) ==
  /\ held[u] = {}
  /\ segments[k] = {} \/ Recreate
  /\ creates < MaxCreate
  /\ creates' = creates + 1
  /\ for' = [for EXCEPT ![u] = k]
  /\ Reuse(u, k) \/ Allocate(u, k)

\* CachedSegment::Write, by the decoder that created the segment.
Write(u) ==
  /\ \E b \in held[u] : /\ contents[b] = {}
                        /\ contents' = [contents EXCEPT ![b] = {for[u]}]
  /\ UNCHANGED <<segments, fifoKeys, held, for, creates>>

\* TryGet, of a segment that was written (SegmentState::HasData).
TryGet(u, k) ==
  /\ held[u] = {}
  /\ \E b \in segments[k] : contents[b] # {}
  /\ held' = [held EXCEPT ![u] = segments[k]]
  /\ for' = [for EXCEPT ![u] = k]
  /\ UNCHANGED <<segments, fifoKeys, contents, creates>>

\* The shared_ptr goes out of scope: the segment is decoded, or was copied.
Release(u) ==
  /\ held[u] # {}
  /\ held' = [held EXCEPT ![u] = {}]
  /\ UNCHANGED <<segments, fifoKeys, for, contents, creates>>

Init ==
  /\ segments = [k \in SegmentKey |-> {}]
  /\ fifoKeys = <<>>
  /\ held = [u \in User |-> {}]
  /\ for \in [User -> SegmentKey]
  /\ contents = [b \in Buffer |-> {}]
  /\ creates = 0

Next == \E u \in User : \/ \E k \in SegmentKey : Create(u, k) \/ TryGet(u, k)
                        \/ Write(u)
                        \/ Release(u)

Spec == Init /\ [][Next]_vars

-----------------------------------------------------------------------------
(* Properties.                                                             *)

TypeOK ==
  /\ segments \in [SegmentKey -> SUBSET Buffer]
  /\ fifoKeys \in Seq(SegmentKey)
  /\ held \in [User -> SUBSET Buffer]
  /\ for \in [User -> SegmentKey]
  /\ contents \in [Buffer -> SUBSET SegmentKey]
  /\ creates \in 0 .. MaxCreate

\* While a decoder or a reader holds the buffer of a segment, the bytes in it
\* are of that segment: the buffer is not given to another one.
OwnBytes == \A u \in User : \A b \in held[u] : contents[b] \subseteq {for[u]}

\* A segment is in the cache under its own key only.
RightKey == \A k \in SegmentKey : \A b \in segments[k] : contents[b] \subseteq {k}

\* Every cached segment has a key in the queue, so that its buffer is found when
\* the cache is full, also after the segment was created twice and one of its keys
\* was used up.
CanBeReused ==
  \A k \in SegmentKey : segments[k] # {} => \E i \in DOMAIN fifoKeys : fifoKeys[i] = k
=============================================================================
