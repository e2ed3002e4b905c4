---------------------------- MODULE NZBFile_proofs ----------------------------
(***************************************************************************)
(* What holds of a file for any number of segments, chunks, decoders and   *)
(* reads, any range of a read and any number of retries and evictions.     *)
(***************************************************************************)
EXTENDS NZBFile, NZBLoader, FiniteSetTheorems, SequenceTheorems, WellFoundedInduction, TLAPS

-----------------------------------------------------------------------------
(* Sequences of requests.                                                  *)

\* A set of natural numbers that is not empty has a least element.
LEMMA Least ==
  ASSUME NEW T, T \subseteq Nat, T # {}
  PROVE  \E n \in T : \A m \in T : n <= m
<1> DEFINE R == OpToRel(<, Nat)
<1>1. IsWellFoundedOn(R, Nat)
  BY NatLessThanWellFounded
<1>2. \A x, y \in Nat : <<y, x>> \in R <=> y < x
  BY DEF OpToRel
<1> HIDE DEF R
<1>3. PICK x \in T : \A y \in T : ~ (<<y, x>> \in R)
  BY <1>1, WFMin
<1>4. \A y \in T : ~ (y < x)
  BY <1>2, <1>3
<1>5. QED
  BY <1>4

\* What is left of a sequence of requests is one, and has those that stay.
LEMMA WithoutProperties ==
  ASSUME NEW S, NEW s \in Seq(S), NEW W
  PROVE  /\ Without(s, W) \in Seq(S)
         /\ \A i \in DOMAIN s : s[i] \notin W =>
              \E j \in DOMAIN Without(s, W) : Without(s, W)[j] = s[i]
<1> DEFINE Step(f, i) == IF i = 0 THEN <<>>
                         ELSE IF s[i] \in W THEN f[i - 1] ELSE Append(f[i - 1], s[i])
           Good(n) == \E f : f = [i \in 0 .. n |-> Step(f, i)]
           Bad == {n \in Nat : ~ Good(n)}
           Remains(t, n) == \A i \in 1 .. n : s[i] \notin W => \E j \in DOMAIN t : t[j] = s[i]
<1>1. Good(0)
  <2>1. [i \in 0 .. 0 |-> <<>>] = [i \in 0 .. 0 |-> Step([k \in 0 .. 0 |-> <<>>], i)]
    OBVIOUS
  <2>2. QED
    BY <2>1
<1>2. ASSUME NEW n \in Nat, Good(n) PROVE Good(n + 1)
  <2>1. PICK f : f = [i \in 0 .. n |-> Step(f, i)]
    BY <1>2
  <2> DEFINE g == [i \in 0 .. n + 1 |-> IF i = n + 1 THEN Step(f, i) ELSE f[i]]
  <2>2. \A i \in 0 .. n + 1 : g[i] = Step(g, i)
    <3> SUFFICES ASSUME NEW i \in 0 .. n + 1 PROVE g[i] = Step(g, i)
      OBVIOUS
    <3>1. i # 0 => i - 1 \in 0 .. n
      OBVIOUS
    <3>2. i # 0 => g[i - 1] = f[i - 1]
      BY <3>1
    <3>3. CASE i = n + 1
      BY <3>2, <3>3
    <3>4. CASE i # n + 1
      <4>1. i \in 0 .. n /\ g[i] = f[i]
        BY <3>4
      <4>2. f[i] = Step(f, i)
        BY <2>1, <4>1
      <4>3. QED
        BY <3>2, <4>1, <4>2
    <3>5. QED
      BY <3>3, <3>4
  <2>3. g = [i \in 0 .. n + 1 |-> Step(g, i)]
    BY <2>2
  <2>4. QED
    BY <2>3
<1>3. Bad = {}
  <2> SUFFICES ASSUME Bad # {} PROVE FALSE
    OBVIOUS
  <2> HIDE DEF Good
  <2>1. PICK n \in Bad : \A m \in Bad : n <= m
    BY Least
  <2>2. n # 0 /\ n - 1 \in Nat
    BY <1>1, <2>1
  <2>3. Good(n - 1)
    BY <2>1, <2>2
  <2>4. Good((n - 1) + 1)
    BY <1>2, <2>2, <2>3
  <2>5. QED
    BY <2>1, <2>4
<1> DEFINE left == CHOOSE f : f = [i \in 0 .. Len(s) |-> Step(f, i)]
<1>4. left = [i \in 0 .. Len(s) |-> Step(left, i)]
  <2>1. Good(Len(s))
    <3> HIDE DEF Good
    <3>1. QED
      BY <1>3
  <2>2. QED
    BY <2>1
<1>5. Without(s, W) = left[Len(s)]
  BY DEF Without
<1> DEFINE Fine(n) == left[n] \in Seq(S) /\ Remains(left[n], n)
           NotFine == {n \in 0 .. Len(s) : ~ Fine(n)}
<1> HIDE DEF left, Good, Bad
<1>6. Fine(0)
  BY <1>4
<1>7. ASSUME NEW n \in Nat, n + 1 <= Len(s), Fine(n) PROVE Fine(n + 1)
  <2>1. left[n + 1] = IF s[n + 1] \in W THEN left[n] ELSE Append(left[n], s[n + 1])
    <3>1. n + 1 \in 0 .. Len(s) /\ n + 1 # 0 /\ (n + 1) - 1 = n
      BY <1>7
    <3>2. left[n + 1] = Step(left, n + 1)
      BY <1>4, <3>1
    <3>3. QED
      BY <3>1, <3>2
  <2>2. s[n + 1] \in S
    BY <1>7
  <2>3. CASE s[n + 1] \in W
    BY <1>7, <2>1, <2>3
  <2>4. CASE s[n + 1] \notin W
    <3> DEFINE t == left[n]
    <3>1. t \in Seq(S) /\ Remains(t, n) /\ left[n + 1] = Append(t, s[n + 1])
      BY <1>7, <2>1, <2>4
    <3> HIDE DEF t
    <3>2. /\ Append(t, s[n + 1]) \in Seq(S)
          /\ DOMAIN Append(t, s[n + 1]) = 1 .. Len(t) + 1
          /\ Append(t, s[n + 1])[Len(t) + 1] = s[n + 1]
          /\ \A j \in DOMAIN t : j \in 1 .. Len(t) + 1 /\ Append(t, s[n + 1])[j] = t[j]
      BY <2>2, <3>1
    <3>3. Remains(Append(t, s[n + 1]), n + 1)
      BY <3>1, <3>2
    <3>4. QED
      BY <3>1, <3>2, <3>3
  <2>5. QED
    BY <2>3, <2>4
<1>8. NotFine = {}
  <2> SUFFICES ASSUME NotFine # {} PROVE FALSE
    OBVIOUS
  <2> HIDE DEF Fine
  <2>1. PICK n \in NotFine : \A m \in NotFine : n <= m
    <3>1. NotFine \subseteq Nat
      OBVIOUS
    <3> HIDE DEF NotFine
    <3>2. QED
      BY <3>1, Least
  <2>2. n # 0 /\ n - 1 \in Nat /\ n - 1 \in 0 .. Len(s)
    BY <1>6, <2>1
  <2>3. Fine(n - 1)
    BY <2>1, <2>2
  <2>4. Fine((n - 1) + 1)
    BY <1>7, <2>1, <2>2, <2>3
  <2>5. QED
    BY <2>1, <2>4
<1>9. Fine(Len(s))
  <2> HIDE DEF Fine
  <2>1. QED
    BY <1>8
<1>10. QED
  BY <1>5, <1>9

\* The list without the request at i.
LEMMA RequestRemoved ==
  ASSUME NEW S, NEW s \in Seq(S), NEW i \in DOMAIN s
  PROVE  /\ RemoveAt(s, i) \in Seq(S)
         /\ \A j \in DOMAIN s : j < i => j \in DOMAIN RemoveAt(s, i) /\ RemoveAt(s, i)[j] = s[j]
         /\ \A j \in DOMAIN s : j > i =>
              j - 1 \in DOMAIN RemoveAt(s, i) /\ RemoveAt(s, i)[j - 1] = s[j]
<1> DEFINE a == SubSeq(s, 1, i - 1)
           b == SubSeq(s, i + 1, Len(s))
<1>1. i \in 1 .. Len(s) /\ Len(s) \in Nat
  OBVIOUS
<1>2. a \in Seq(S) /\ Len(a) = i - 1 /\ \A j \in 1 .. i - 1 : a[j] = s[j]
  BY <1>1, SubSeqProperties
<1>3. b \in Seq(S) /\ Len(b) = Len(s) - i /\ \A j \in 1 .. Len(s) - i : b[j] = s[i + j]
  BY <1>1, SubSeqProperties
<1>4. RemoveAt(s, i) = a \o b
  BY DEF RemoveAt
<1> HIDE DEF a, b
<1>5. /\ a \o b \in Seq(S) /\ Len(a \o b) = Len(s) - 1
      /\ \A j \in 1 .. Len(s) - 1 :
           (a \o b)[j] = IF j <= i - 1 THEN a[j] ELSE b[j - (i - 1)]
  BY <1>1, <1>2, <1>3, ConcatProperties
<1>6. \A j \in 1 .. Len(s) : j < i => j \in 1 .. Len(s) - 1 /\ (a \o b)[j] = s[j]
  BY <1>1, <1>2, <1>5
<1>7. \A j \in 1 .. Len(s) : j > i => j - 1 \in 1 .. Len(s) - 1 /\ (a \o b)[j - 1] = s[j]
  <2> SUFFICES ASSUME NEW j \in 1 .. Len(s), j > i
               PROVE  j - 1 \in 1 .. Len(s) - 1 /\ (a \o b)[j - 1] = s[j]
    OBVIOUS
  <2>1. j - 1 \in 1 .. Len(s) - 1 /\ ~ (j - 1 <= i - 1) /\ (j - 1) - (i - 1) = j - i
    BY <1>1
  <2>2. j - i \in 1 .. Len(s) - i /\ i + (j - i) = j
    BY <1>1
  <2>3. QED
    BY <1>3, <1>5, <2>1, <2>2
<1>8. DOMAIN (a \o b) = 1 .. Len(s) - 1 /\ DOMAIN s = 1 .. Len(s)
  BY <1>5
<1>9. QED
  BY Zenon, <1>4, <1>5, <1>6, <1>7, <1>8

-----------------------------------------------------------------------------
(* The inductive invariant.                                                *)

\* One decoder writes to the segment in the cache, and while it does the
\* segment is there.
BufferOK ==
  /\ \A d \in Decoder : buffer[d] = "cache" => cache[d.seg] # NoEntry
  /\ \A d, e \in Decoder :
       buffer[d] = "cache" /\ buffer[e] = "cache" /\ d.seg = e.seg => d = e

\* There is room for what an article decodes after the chunks it decoded; one
\* that starts again writes further behind, and one that was never reset does
\* not write any more.
DecodedOK ==
  \A d \in Decoder :
    expect[d] = "Begin" \/ (expect[d] = "End" /\ buffer[d] # "none") =>
      decoded[d] <= offset[d] \/ decoded[d] = Chunks + 1

TypeInv == TypeOK /\ BufferOK /\ DecodedOK

LoadingIn(r) == \E s \in Reads[r] : status[s] = "Loading"
Queued(r) == \E i \in DOMAIN dataRequests : dataRequests[i] = r

\* A read that waits is in the list; those that ProcessAsyncDataRequests has
\* passed wait for a segment that is loading, and the others do when it does
\* not run and need not.
NoArticleLoads == \A s \in NoArticle : status[s] # "Loading"
AllQueued == \A r \in Request : request[r] = "pending" => Queued(r)
RunsToSettle == next > 0 => settle # "no"
PassedLoad == \A i \in DOMAIN dataRequests : i < next => LoadingIn(dataRequests[i])
WaitersLoad ==
  settle = "no" => \A r \in Request : request[r] \in {"pending", "waiting"} => LoadingIn(r)

WaitInv == NoArticleLoads /\ AllQueued /\ RunsToSettle /\ PassedLoad /\ WaitersLoad

\* The decoder wrote what it decoded to the segment in the cache.
Written(d) ==
  /\ buffer[d] = "cache"
  /\ decoded[d] = offset[d] \/ (offset[d] = Chunks /\ decoded[d] = Chunks + 1)
  /\ cache[d.seg] = [i \in 1 .. Chunks |-> IF i <= offset[d] THEN i ELSE 0]

Active(d) == state[d] \in {"Init", "Begin"}

\* Without retries the segment of a decoder is loading until it ends, or refused
\* and not in the cache.
InitOK == \A d \in Decoder : state[d] = "Init" =>
  expect[d] = "Begin" /\ decoded[d] = 0 /\ offset[d] = 0 /\ status[d.seg] = "Loading"
BeginOK == \A d \in Decoder : state[d] = "Begin" =>
  /\ expect[d] = "End"
  /\ d.seg \in Foreign => buffer[d] = "none" /\ status[d.seg] = "DownloadFailed"
  /\ d.seg \notin Foreign => Written(d) /\ status[d.seg] = "Loading"
OverOK == \A d \in Decoder : state[d] \in {"End", "Error"} => expect[d] \in {"Done", "Error"}
OneActive == \A d, e \in Decoder : Active(d) /\ Active(e) /\ d.seg = e.seg => d = e

DecoderInv == InitOK /\ BeginOK /\ OverOK /\ OneActive

\* Whatever a read finds in the cache, or found there before, is whole.
DataInv ==
  /\ \A s \in Foreign : cache[s] = NoEntry
  /\ \A s \in Segment : status[s] = "HasData" => cache[s] \in {NoEntry, Whole}
  /\ \A r \in Request, s \in Segment : got[r][s] \in {NoEntry, Whole}
  /\ WholeData

FirstTry == retries = 0 => DecoderInv /\ DataInv

-----------------------------------------------------------------------------
(* What ReadSegments does.                                                 *)

\* A cache without a segment has no content.
LEMMA Contents ==
  /\ NoEntry \notin Content
  /\ Malloced \in Content
  /\ Whole \in Content
  /\ NoEntry # Whole /\ NoEntry # Malloced
<1>1. Chunks \in Nat /\ Chunks # 0
  BY NZBFileAssumption
<1>2. Malloced \in Content /\ Whole \in Content
  BY <1>1 DEF Malloced, Whole, Content
<1>3. \A f \in Content : f # NoEntry
  <2> SUFFICES ASSUME NEW f \in Content PROVE f # NoEntry
    OBVIOUS
  <2>1. DOMAIN f = 1 .. Chunks /\ 1 \in 1 .. Chunks
    BY <1>1 DEF Content
  <2>2. DOMAIN NoEntry = {}
    BY DEF NoEntry
  <2>3. QED
    BY <2>1, <2>2
<1>4. QED
  BY <1>2, <1>3

\* Each segment gets one decoder, which was free and is new.
NewDecoders(S, D) ==
  /\ D \subseteq Decoder
  /\ \A d \in D : state[d] = "Free" /\ d.seg \in S
  /\ \A s \in S : \E d \in D : d.seg = s
  /\ \A d, e \in D : d.seg = e.seg => d = e

LEMMA ReadSegmentsEffect ==
  ASSUME NEW S, NEW F, NEW c, S \subseteq Segment, ReadSegments(S, F, c)
  PROVE  \E D :
           /\ NewDecoders(S, D)
           /\ status' = [s \in Segment |-> IF s \in S THEN "Loading"
                                        ELSE IF s \in F THEN "DownloadFailed" ELSE status[s]]
           /\ state' = [d \in Decoder |-> IF d \in D THEN "Init" ELSE state[d]]
           /\ expect' = [d \in Decoder |-> IF d \in D THEN "Begin" ELSE expect[d]]
           /\ decoded' = [d \in Decoder |-> IF d \in D THEN 0 ELSE decoded[d]]
           /\ offset' = [d \in Decoder |-> IF d \in D THEN 0 ELSE offset[d]]
           /\ buffer' = [d \in Decoder |-> IF d \in D THEN "none" ELSE buffer[d]]
           /\ linked' = IF c THEN linked \cup D ELSE linked \ D
<1> DEFINE D == UNION {NewDecoder(s) : s \in S}
<1>1. \A s \in Segment : \A d \in NewDecoder(s) :
        d \in Decoder /\ state[d] = "Free" /\ d.seg = s
  BY DEF NewDecoder, Of
<1>2. \A s \in Segment : \A d, e \in NewDecoder(s) : d = e
  <2> SUFFICES ASSUME NEW s \in Segment, NEW d \in NewDecoder(s), NEW e \in NewDecoder(s)
               PROVE d = e
    OBVIOUS
  <2>1. d.gen <= e.gen /\ e.gen <= d.gen
    BY DEF NewDecoder, Of
  <2>2. d.gen \in Nat /\ e.gen \in Nat
    BY NZBFileAssumption DEF NewDecoder, Of, Decoder
  <2>3. d.gen = e.gen /\ d.seg = e.seg
    BY <2>1, <2>2, <1>1
  <2>4. QED
    BY <2>3 DEF NewDecoder, Of, Decoder
<1>3. NewDecoders(S, D)
  <2>1. D \subseteq Decoder /\ \A d \in D : state[d] = "Free" /\ d.seg \in S
    BY <1>1
  <2>2. \A s \in S : \E d \in D : d.seg = s
    <3> SUFFICES ASSUME NEW s \in S PROVE \E d \in D : d.seg = s
      OBVIOUS
    <3>1. PICK d : d \in NewDecoder(s)
      BY DEF ReadSegments
    <3>2. QED
      BY <1>1, <3>1
  <2>3. \A d, e \in D : d.seg = e.seg => d = e
    BY <1>1, <1>2
  <2>4. QED
    BY <2>1, <2>2, <2>3 DEF NewDecoders
<1>4. QED
  BY <1>3 DEF ReadSegments

\* What TryGetData copies, and what it reads.
LEMMA TryGetDataEffect ==
  ASSUME TypeOK, NEW r \in Request, NEW c, TryGetData(r, c)
  PROVE  /\ ReadSegments(Wanting(r) \ NoArticle, {}, c)
         /\ Wanting(r) \ NoArticle \subseteq Segment
         /\ Available(r) \subseteq Segment
         /\ Reads[r] \subseteq Segment
         /\ got' \in [Request -> [Segment -> Content \cup {NoEntry}]]
         /\ \A q \in Request, s \in Segment :
              got'[q][s] = IF q = r /\ s \in Available(r) \ Done(r) THEN cache[s] ELSE got[q][s]
<1>1. Reads[r] \subseteq Segment
  BY NZBFileAssumption
<1>2. Wanting(r) \ NoArticle \subseteq Segment /\ Available(r) \subseteq Segment
  BY <1>1 DEF Wanting, Available
<1>3. got' = [got EXCEPT ![r] = [s \in Segment |-> IF s \in Available(r) \ Done(r)
                                                   THEN cache[s] ELSE got[r][s]]]
  BY DEF TryGetData, TypeOK
<1> DEFINE row == [s \in Segment |-> IF s \in Available(r) \ Done(r) THEN cache[s] ELSE got[r][s]]
<1>4. row \in [Segment -> Content \cup {NoEntry}]
  BY DEF TypeOK
<1>5. got' \in [Request -> [Segment -> Content \cup {NoEntry}]]
  <2> HIDE DEF row
  <2>1. got' = [got EXCEPT ![r] = row]
    BY <1>3 DEF row
  <2>2. QED
    BY <1>4, <2>1 DEF TypeOK
<1>6. \A q \in Request, s \in Segment :
        got'[q][s] = IF q = r /\ s \in Available(r) \ Done(r) THEN cache[s] ELSE got[q][s]
  BY <1>3 DEF TypeOK
<1>7. QED
  BY <1>1, <1>2, <1>5, <1>6 DEF TryGetData

-----------------------------------------------------------------------------
(* Types, buffers and what is decoded.                                     *)

\* The types of what ReadSegments changes, and of what the callers change.
SegmentTypes ==
  /\ status \in [Segment -> {"None", "Loading", "HasData", "DownloadFailed"}]
  /\ state \in [Decoder -> {"Free", "Init", "Begin", "End", "Error", "Canceled"}]
  /\ expect \in [Decoder -> {"Begin", "End", "Done", "Spoiled", "Error"}]
  /\ decoded \in [Decoder -> 0 .. Chunks + 1]
  /\ offset \in [Decoder -> 0 .. Chunks]
  /\ buffer \in [Decoder -> {"none", "cache", "replaced"}]
  /\ linked \subseteq Decoder

LEMMA TypeInit == Init => TypeInv
<1> SUFFICES ASSUME Init PROVE TypeInv
  OBVIOUS
<1>1. MaxRetries \in Nat /\ MaxEvictions \in Nat /\ Chunks \in Nat
  BY NZBFileAssumption
<1>2. got \in [Request -> [Segment -> Content \cup {NoEntry}]] /\ dataRequests \in Seq(Async)
  BY DEF Init
<1>3. SegmentTypes
  BY <1>1 DEF Init, SegmentTypes
<1>6. /\ cache \in [Segment -> Content \cup {NoEntry}]
      /\ filename \in {"none", "asked", "named", "failed", "canceled"}
      /\ request \in [Request -> {"new", "pending", "waiting", "awake", "ok", "error", "canceled"}]
      /\ settle \in {"no", "finished", "failed"} /\ next \in Nat
  BY DEF Init
<1>7. canceled \in BOOLEAN
  BY DEF Init
<1>9. retries \in 0 .. MaxRetries /\ evictions \in 0 .. MaxEvictions
  <2>1. retries = 0 /\ evictions = 0
    BY DEF Init
  <2>2. QED
    BY <1>1, <2>1
<1>8. TypeOK
  BY Zenon, <1>2, <1>3, <1>6, <1>7, <1>9 DEF SegmentTypes, TypeOK
<1>4. BufferOK /\ DecodedOK
  BY DEF Init, BufferOK, DecodedOK
<1>5. QED
  BY <1>4, <1>8 DEF TypeInv

LEMMA ReadSegmentsType ==
  ASSUME TypeInv, NEW S, NEW F, NEW c, S \subseteq Segment,
         ReadSegments(S, F, c), UNCHANGED cache
  PROVE  SegmentTypes' /\ BufferOK' /\ DecodedOK'
<1>1. PICK D :
        /\ NewDecoders(S, D)
        /\ status' = [s \in Segment |-> IF s \in S THEN "Loading"
                                     ELSE IF s \in F THEN "DownloadFailed" ELSE status[s]]
        /\ state' = [d \in Decoder |-> IF d \in D THEN "Init" ELSE state[d]]
        /\ expect' = [d \in Decoder |-> IF d \in D THEN "Begin" ELSE expect[d]]
        /\ decoded' = [d \in Decoder |-> IF d \in D THEN 0 ELSE decoded[d]]
        /\ offset' = [d \in Decoder |-> IF d \in D THEN 0 ELSE offset[d]]
        /\ buffer' = [d \in Decoder |-> IF d \in D THEN "none" ELSE buffer[d]]
        /\ linked' = IF c THEN linked \cup D ELSE linked \ D
  BY ReadSegmentsEffect
<1> USE DEF TypeInv, TypeOK
<1>2. Chunks \in Nat
  BY NZBFileAssumption
<1>3. decoded' \in [Decoder -> 0 .. Chunks + 1] /\ offset' \in [Decoder -> 0 .. Chunks]
  BY <1>1, <1>2
<1>4. SegmentTypes'
  BY <1>1, <1>3 DEF SegmentTypes, NewDecoders
<1>5. BufferOK'
  BY <1>1 DEF BufferOK
<1>6. DecodedOK'
  BY <1>1, <1>2 DEF DecodedOK
<1>7. QED
  BY <1>4, <1>5, <1>6

\* The reads keep TypeInv.
LEMMA TypeReads ==
  ASSUME TypeInv,
         \/ \E r \in Async : AsyncGetFileData(r)
         \/ \E r \in Sync : GetFileData(r)
         \/ Preload
         \/ \E r \in Async : ProcessRequest(r)
  PROVE  TypeInv'
<1> USE DEF TypeInv, decoderVars, requestVars, ioVars, bounds
<1>1. ASSUME NEW r \in Async, AsyncGetFileData(r) PROVE TypeInv'
  <2>1. r \in Request /\ TryGetData(r, r \in WithCancel) /\ UNCHANGED cache
    BY <1>1 DEF AsyncGetFileData, Request
  <2>2. SegmentTypes' /\ BufferOK' /\ DecodedOK'
    BY <2>1, TryGetDataEffect, ReadSegmentsType
  <2>3. got' \in [Request -> [Segment -> Content \cup {NoEntry}]]
    BY <2>1, TryGetDataEffect
  <2>4. request' \in [Request -> {"new", "pending", "waiting", "awake", "ok", "error", "canceled"}]
    <3>1. Outcome(r) \in {"ok", "error"}
      BY DEF Outcome
    <3>2. request' = [request EXCEPT ![r] = Outcome(r)] \/ request' = [request EXCEPT ![r] = "pending"]
      BY <1>1 DEF AsyncGetFileData
    <3>3. QED
      BY <3>1, <3>2 DEF TypeOK
  <2>7. dataRequests' \in Seq(Async)
    <3>1. dataRequests \in Seq(Async)
      BY DEF TypeOK
    <3>2. dataRequests' = dataRequests \/ dataRequests' = Append(dataRequests, r)
      BY <1>1 DEF AsyncGetFileData
    <3>3. QED
      BY <3>1, <3>2
  <2>5. TypeOK'
    BY <1>1, <2>2, <2>3, <2>4, <2>7 DEF AsyncGetFileData, TypeOK, SegmentTypes
  <2>6. QED
    BY <2>2, <2>5
<1>2. ASSUME NEW r \in Sync, GetFileData(r) PROVE TypeInv'
  <2>1. r \in Request /\ TryGetData(r, FALSE) /\ UNCHANGED cache
    BY <1>2 DEF GetFileData, Request
  <2>2. SegmentTypes' /\ BufferOK' /\ DecodedOK'
    BY <2>1, TryGetDataEffect, ReadSegmentsType
  <2>3. got' \in [Request -> [Segment -> Content \cup {NoEntry}]]
    BY <2>1, TryGetDataEffect
  <2>4. request' \in [Request -> {"new", "pending", "waiting", "awake", "ok", "error", "canceled"}]
    BY <1>2, <2>1 DEF GetFileData, TypeOK, Outcome
  <2>5. TypeOK'
    BY <1>2, <2>2, <2>3, <2>4 DEF GetFileData, TypeOK, SegmentTypes
  <2>6. QED
    BY <2>2, <2>5
<1>3. ASSUME Preload PROVE TypeInv'
  <2> DEFINE first == Firsts(Segment \ NoArticle)
  <2>1. first \subseteq Segment /\ ReadSegments(first, Firsts(NoArticle), TRUE) /\ UNCHANGED cache
    BY <1>3 DEF Preload, Firsts
  <2>2. SegmentTypes' /\ BufferOK' /\ DecodedOK'
    <3> HIDE DEF first
    <3>1. QED
      BY <2>1, ReadSegmentsType
  <2>3. TypeOK'
    BY <1>3, <2>2 DEF Preload, TypeOK, SegmentTypes
  <2>4. QED
    BY <2>2, <2>3
<1>4. ASSUME NEW r \in Async, ProcessRequest(r) PROVE TypeInv'
  <2>1. r \in Request /\ TryGetData(r, FALSE) /\ UNCHANGED cache
    BY <1>4 DEF ProcessRequest, Request
  <2>2. SegmentTypes' /\ BufferOK' /\ DecodedOK'
    BY <2>1, TryGetDataEffect, ReadSegmentsType
  <2>3. got' \in [Request -> [Segment -> Content \cup {NoEntry}]]
    BY <2>1, TryGetDataEffect
  <2>4. request' \in [Request -> {"new", "pending", "waiting", "awake", "ok", "error", "canceled"}]
    BY <1>4, <2>1 DEF ProcessRequest, TypeOK, Outcome
  <2>5. dataRequests' \in Seq(Async) /\ next' \in Nat
    BY <1>4, RequestRemoved DEF ProcessRequest, TypeOK
  <2>6. TypeOK'
    BY <1>4, <2>2, <2>3, <2>4, <2>5 DEF ProcessRequest, TypeOK, SegmentTypes
  <2>7. QED
    BY <2>2, <2>6
<1>5. QED
  BY <1>1, <1>2, <1>3, <1>4

\* The steps that start, end or cancel reads and the list keep TypeInv.
LEMMA TypeRequests ==
  ASSUME TypeInv,
         AsyncGetFilename \/ Cancel \/ ProcessBegin \/ ProcessEnd \/ \E s \in Segment : Evict(s)
  PROVE  TypeInv'
<1> USE DEF TypeInv, decoderVars, requestVars, ioVars, bounds
<1>1. CASE AsyncGetFilename
  <2>1. TypeOK'
    BY <1>1 DEF AsyncGetFilename, TypeOK
  <2>2. BufferOK' /\ DecodedOK'
    BY <1>1 DEF AsyncGetFilename, BufferOK, DecodedOK
  <2>3. QED
    BY <2>1, <2>2
<1>2. CASE Cancel
  <2>1. dataRequests' \in Seq(Async)
    BY <1>2, WithoutProperties DEF Cancel, TypeOK
  <2>2. /\ request' \in [Request -> {"new", "pending", "waiting", "awake", "ok", "error", "canceled"}]
        /\ filename' \in {"none", "asked", "named", "failed", "canceled"}
    BY <1>2 DEF Cancel, TypeOK
  <2>3. state' \in [Decoder -> {"Free", "Init", "Begin", "End", "Error", "Canceled"}]
    BY <1>2 DEF Cancel, TypeOK
  <2>4. TypeOK'
    BY <1>2, <2>1, <2>2, <2>3 DEF Cancel, TypeOK
  <2>5. BufferOK' /\ DecodedOK'
    BY <1>2 DEF Cancel, BufferOK, DecodedOK
  <2>6. QED
    BY <2>4, <2>5
<1>3. CASE ProcessBegin
  <2>1. TypeOK'
    BY <1>3 DEF ProcessBegin, TypeOK
  <2>2. BufferOK' /\ DecodedOK'
    BY <1>3 DEF ProcessBegin, BufferOK, DecodedOK
  <2>3. QED
    BY <2>1, <2>2
<1>4. CASE ProcessEnd
  <2>1. request' \in [Request -> {"new", "pending", "waiting", "awake", "ok", "error", "canceled"}]
    BY <1>4 DEF ProcessEnd, Notified, TypeOK
  <2>2. TypeOK'
    BY <1>4, <2>1 DEF ProcessEnd, TypeOK
  <2>3. BufferOK' /\ DecodedOK'
    BY <1>4 DEF ProcessEnd, BufferOK, DecodedOK
  <2>4. QED
    BY <2>2, <2>3
<1>5. ASSUME NEW s \in Segment, Evict(s) PROVE TypeInv'
  <2>1. evictions' \in 0 .. MaxEvictions
    BY <1>5, NZBFileAssumption DEF Evict, TypeOK
  <2>2. cache' \in [Segment -> Content \cup {NoEntry}]
    BY <1>5 DEF Evict, TypeOK
  <2>3. TypeOK'
    BY <1>5, <2>1, <2>2 DEF Evict, TypeOK
  <2>4. BufferOK'
    <3>1. \A d \in Decoder : buffer[d] = "cache" => d.seg # s
      BY <1>5 DEF Evict, Of
    <3>2. \A d \in Decoder : d.seg \in Segment
      BY DEF Decoder
    <3>3. QED
      BY <1>5, <3>1, <3>2 DEF Evict, BufferOK, TypeOK
  <2>5. DecodedOK'
    BY <1>5 DEF Evict, DecodedOK
  <2>6. QED
    BY <2>3, <2>4, <2>5
<1>6. QED
  BY <1>1, <1>2, <1>3, <1>4, <1>5

\* A decoder at the start of an article keeps TypeInv.
LEMMA TypeBegins ==
  ASSUME TypeInv, NEW d \in Decoder, OnBeginSegment(d) \/ OnBeginMismatch(d)
  PROVE  TypeInv'
<1> USE DEF TypeInv, decoderVars, requestVars, ioVars, bounds, Decoding
<1>0. d.seg \in Segment /\ \A e \in Decoder : e.seg \in Segment
  BY DEF Decoder
<1>1. request' \in [Request -> {"new", "pending", "waiting", "awake", "ok", "error", "canceled"}]
  BY DEF OnBeginSegment, OnBeginMismatch, Notified, TypeOK
<1>2. /\ state' \in [Decoder -> {"Free", "Init", "Begin", "End", "Error", "Canceled"}]
      /\ expect' \in [Decoder -> {"Begin", "End", "Done", "Spoiled", "Error"}]
  BY DEF OnBeginSegment, OnBeginMismatch, TypeOK
<1>3. CASE OnBeginSegment(d)
  <2>1. cache' \in [Segment -> Content \cup {NoEntry}]
    BY <1>3, Contents DEF OnBeginSegment, TypeOK
  <2>2. buffer' \in [Decoder -> {"none", "cache", "replaced"}]
    BY <1>3 DEF OnBeginSegment, TypeOK
  <2>3. TypeOK'
    BY <1>1, <1>2, <1>3, <2>1, <2>2 DEF OnBeginSegment, SetFileInfo, TypeOK
  <2>4. BufferOK'
    BY <1>0, <1>3, Contents DEF OnBeginSegment, BufferOK, TypeOK
  <2>5. DecodedOK'
    BY <1>3 DEF OnBeginSegment, DecodedOK, TypeOK
  <2>6. QED
    BY <2>3, <2>4, <2>5
<1>4. CASE OnBeginMismatch(d)
  <2>1. buffer' \in [Decoder -> {"none", "cache", "replaced"}]
    BY <1>4 DEF OnBeginMismatch, TypeOK
  <2>2. /\ status' \in [Segment -> {"None", "Loading", "HasData", "DownloadFailed"}]
        /\ settle' \in {"no", "finished", "failed"}
    BY <1>4 DEF OnBeginMismatch, SetDownloadFailed, TypeOK
  <2>3. TypeOK'
    BY <1>1, <1>2, <1>4, <2>1, <2>2 DEF OnBeginMismatch, TypeOK
  <2>4. BufferOK'
    BY <1>4 DEF OnBeginMismatch, BufferOK, TypeOK
  <2>5. DecodedOK'
    BY <1>4 DEF OnBeginMismatch, DecodedOK, TypeOK
  <2>6. QED
    BY <2>3, <2>4, <2>5
<1>5. QED
  BY <1>3, <1>4

\* A decoder that gets data keeps TypeInv: what it writes are chunks.
LEMMA TypeData ==
  ASSUME TypeInv, NEW d \in Decoder, OnData(d)
  PROVE  TypeInv'
<1> USE DEF TypeInv, decoderVars, requestVars, ioVars, bounds
<1>0. d.seg \in Segment /\ (\A e \in Decoder : e.seg \in Segment) /\ Chunks \in Nat
  BY NZBFileAssumption DEF Decoder
<1>1. /\ expect[d] \in {"End", "Spoiled"}
      /\ decoded[d] <= Chunks /\ decoded' = [decoded EXCEPT ![d] = @ + 1]
      /\ UNCHANGED <<status, state, expect, buffer, linked, filename, requestVars, ioVars,
                     canceled, bounds>>
  BY DEF OnData, Decoding
<1>2. decoded[d] \in 0 .. Chunks + 1 /\ offset[d] \in 0 .. Chunks
  BY DEF TypeOK
<1>3. decoded' \in [Decoder -> 0 .. Chunks + 1]
  BY <1>0, <1>1, <1>2 DEF TypeOK
<1>4. CASE buffer[d] = "none" \/ offset[d] = Chunks
  <2>1. UNCHANGED <<offset, cache>>
    BY <1>4 DEF OnData
  <2>2. TypeOK'
    BY <1>1, <1>3, <2>1 DEF TypeOK
  <2>3. BufferOK'
    BY <1>1, <2>1 DEF BufferOK
  <2>4. DecodedOK'
    BY <1>0, <1>1, <1>2, <1>4, <2>1 DEF DecodedOK, TypeOK
  <2>5. QED
    BY <2>2, <2>3, <2>4
<1>5. CASE ~ (buffer[d] = "none" \/ offset[d] = Chunks)
  <2>1. /\ offset' = [offset EXCEPT ![d] = @ + 1]
        /\ cache' = IF buffer[d] = "cache"
                    THEN [cache EXCEPT ![d.seg][offset[d] + 1] =
                                       IF expect[d] = "End" THEN decoded[d] + 1 ELSE 0]
                    ELSE cache
    BY <1>5 DEF OnData
  <2>2. offset' \in [Decoder -> 0 .. Chunks] /\ offset[d] + 1 \in 1 .. Chunks
    BY <1>0, <1>2, <1>5, <2>1 DEF TypeOK
  <2>3. cache' \in [Segment -> Content \cup {NoEntry}] /\ \A s \in Segment : cache[s] # NoEntry => cache'[s] # NoEntry
    <3>1. CASE buffer[d] = "cache"
      <4> DEFINE chunk == IF expect[d] = "End" THEN decoded[d] + 1 ELSE 0
                 new == [cache[d.seg] EXCEPT ![offset[d] + 1] = chunk]
      <4>1. cache[d.seg] \in Content
        BY <1>0, <3>1 DEF BufferOK, TypeOK
      <4>2. chunk \in 0 .. Chunks
        BY <1>0, <1>1, <1>2, <1>5, <3>1 DEF DecodedOK
      <4>3. new \in Content
        <5> HIDE DEF chunk
        <5>1. QED
          BY <2>2, <4>1, <4>2 DEF Content
      <4>4. cache' = [cache EXCEPT ![d.seg] = new]
        BY <2>1, <3>1
      <4> HIDE DEF new
      <4>5. QED
        BY <1>0, <4>3, <4>4, Contents DEF TypeOK
    <3>2. CASE buffer[d] # "cache"
      BY <2>1, <3>2 DEF TypeOK
    <3>3. QED
      BY <3>1, <3>2
  <2>4. TypeOK'
    BY <1>1, <1>3, <2>2, <2>3 DEF TypeOK
  <2>5. BufferOK'
    BY <1>0, <1>1, <2>3 DEF BufferOK
  <2>6. DecodedOK'
    BY <1>0, <1>1, <1>2, <1>5, <2>1 DEF DecodedOK, TypeOK
  <2>7. QED
    BY <2>4, <2>5, <2>6
<1>6. QED
  BY <1>4, <1>5

\* A decoder that ends, fails, starts again or is destroyed keeps TypeInv.
LEMMA TypeEnds ==
  ASSUME TypeInv, NEW d \in Decoder,
         OnEndSegment(d) \/ OnError(d) \/ OnErrorRetry(d) \/ OnErrorCancel(d) \/ Destroy(d)
  PROVE  TypeInv'
<1> USE DEF TypeInv, decoderVars, requestVars, ioVars, bounds
<1>0. d.seg \in Segment /\ Chunks \in Nat /\ MaxRetries \in Nat
  BY NZBFileAssumption DEF Decoder
<1>1. CASE OnEndSegment(d)
  <2>1. /\ status' \in [Segment -> {"None", "Loading", "HasData", "DownloadFailed"}]
        /\ settle' \in {"no", "finished", "failed"}
    BY <1>1 DEF OnEndSegment, SetSegmentFinished, TypeOK
  <2>2. TypeOK'
    BY <1>1, <2>1 DEF OnEndSegment, TypeOK
  <2>3. BufferOK' /\ DecodedOK'
    BY <1>1 DEF OnEndSegment, BufferOK, DecodedOK, TypeOK
  <2>4. QED
    BY <2>2, <2>3
<1>2. CASE OnError(d)
  <2>1. /\ status' \in [Segment -> {"None", "Loading", "HasData", "DownloadFailed"}]
        /\ settle' \in {"no", "finished", "failed"}
    BY <1>2 DEF OnError, SetDownloadFailed, TypeOK
  <2>2. TypeOK'
    BY <1>2, <2>1 DEF OnError, TypeOK
  <2>3. BufferOK' /\ DecodedOK'
    BY <1>2 DEF OnError, BufferOK, DecodedOK, TypeOK
  <2>4. QED
    BY <2>2, <2>3
<1>3. CASE OnErrorRetry(d)
  <2>1. retries' \in 0 .. MaxRetries /\ decoded' \in [Decoder -> 0 .. Chunks + 1]
    BY <1>0, <1>3 DEF OnErrorRetry, TypeOK
  <2>2. TypeOK'
    BY <1>3, <2>1 DEF OnErrorRetry, TypeOK
  <2>3. BufferOK'
    BY <1>3 DEF OnErrorRetry, BufferOK
  <2>4. DecodedOK'
    BY <1>0, <1>3 DEF OnErrorRetry, DecodedOK, TypeOK
  <2>5. QED
    BY <2>2, <2>3, <2>4
<1>4. CASE OnErrorCancel(d)
  <2>1. retries' \in 0 .. MaxRetries /\ decoded' \in [Decoder -> 0 .. Chunks + 1]
    BY <1>0, <1>4 DEF OnErrorCancel, TypeOK
  <2>2. /\ status' \in [Segment -> {"None", "Loading", "HasData", "DownloadFailed"}]
        /\ settle' \in {"no", "finished", "failed"}
    BY <1>4 DEF OnErrorCancel, SetDownloadFailed, TypeOK
  <2>3. expect' = [expect EXCEPT ![d] = CASE expect[d] = "End"  -> "Spoiled"
                                          [] expect[d] = "Done" -> "Begin"
                                          [] OTHER -> expect[d]]
    BY <1>4 DEF OnErrorCancel, TypeOK
  <2>4. expect' \in [Decoder -> {"Begin", "End", "Done", "Spoiled", "Error"}]
    BY <2>3 DEF TypeOK
  <2>5. TypeOK'
    BY <1>4, <2>1, <2>2, <2>4 DEF OnErrorCancel, TypeOK
  <2>6. BufferOK'
    BY <1>4 DEF OnErrorCancel, BufferOK
  <2>7. DecodedOK'
    <3>1. \A e \in Decoder : e # d => expect'[e] = expect[e] /\ decoded'[e] = decoded[e]
      BY <1>4, <2>3 DEF OnErrorCancel, TypeOK
    <3>2. expect[d] = "Done" => decoded'[d] = Chunks + 1
      BY <1>4 DEF OnErrorCancel, TypeOK
    <3>3. expect[d] # "Done" => decoded'[d] = decoded[d] /\ expect'[d] \notin {"End"}
                                /\ (expect'[d] = "Begin" => expect[d] = "Begin")
      BY <1>4, <2>3 DEF OnErrorCancel, TypeOK
    <3>4. UNCHANGED <<offset, buffer>>
      BY <1>4 DEF OnErrorCancel
    <3>5. QED
      BY <3>1, <3>2, <3>3, <3>4 DEF DecodedOK
  <2>8. QED
    BY <2>5, <2>6, <2>7
<1>5. CASE Destroy(d)
  <2>1. /\ status' \in [Segment -> {"None", "Loading", "HasData", "DownloadFailed"}]
        /\ settle' \in {"no", "finished", "failed"}
    BY <1>5 DEF Destroy, SetDownloadFailed, TypeOK
  <2>2. TypeOK'
    BY <1>5, <2>1 DEF Destroy, TypeOK
  <2>3. BufferOK' /\ DecodedOK'
    BY <1>5 DEF Destroy, BufferOK, DecodedOK, TypeOK
  <2>4. QED
    BY <2>2, <2>3
<1>6. QED
  BY <1>1, <1>2, <1>3, <1>4, <1>5

LEMMA TypeNext == TypeInv /\ [Next]_vars => TypeInv'
<1> SUFFICES ASSUME TypeInv, [Next]_vars PROVE TypeInv'
  OBVIOUS
<1>1. CASE Next
  BY <1>1, TypeReads, TypeRequests, TypeBegins, TypeData, TypeEnds
  DEF Next, ReaderStep, ProcessStep, DecoderStep
<1>2. CASE UNCHANGED vars
  BY <1>2 DEF vars, decoderVars, requestVars, ioVars, bounds, TypeInv, TypeOK, BufferOK, DecodedOK
<1>3. QED
  BY <1>1, <1>2

LEMMA TypeAlways == Spec => []TypeInv
<1>1. QED
  BY TypeInit, TypeNext, PTL DEF Spec

\* The values of the variables are those that the code gives them: no decoder
\* writes behind the end of its segment, or what it did not decode.
THEOREM TypeCorrect == Spec => []TypeOK
<1>1. TypeInv => TypeOK
  BY DEF TypeInv
<1>2. QED
  BY <1>1, TypeAlways, PTL

-----------------------------------------------------------------------------
(* No segment is abandoned.                                                *)

\* Segments that were not loading start to, each with a decoder of its own.
Starts(S, F, D) ==
  /\ S \subseteq Segment \ NoArticle
  /\ F \subseteq NoArticle
  /\ \A s \in S : status[s] \in {"None", "HasData"}
  /\ NewDecoders(S, D)
  /\ status' = [s \in Segment |-> IF s \in S THEN "Loading"
                               ELSE IF s \in F THEN "DownloadFailed" ELSE status[s]]
  /\ state' = [d \in Decoder |-> IF d \in D THEN "Init" ELSE state[d]]
  /\ expect' = [d \in Decoder |-> IF d \in D THEN "Begin" ELSE expect[d]]
  /\ decoded' = [d \in Decoder |-> IF d \in D THEN 0 ELSE decoded[d]]
  /\ offset' = [d \in Decoder |-> IF d \in D THEN 0 ELSE offset[d]]
  /\ buffer' = [d \in Decoder |-> IF d \in D THEN "none" ELSE buffer[d]]
  /\ UNCHANGED <<cache, settle, canceled, retries>>

LEMMA Starting ==
  ASSUME TypeOK,
         \/ \E r \in Async : AsyncGetFileData(r)
         \/ \E r \in Sync : GetFileData(r)
         \/ Preload
         \/ \E r \in Async : ProcessRequest(r)
  PROVE  \E S, F, D : Starts(S, F, D)
<1>1. ASSUME NEW S, NEW F, NEW c, S \subseteq Segment \ NoArticle, F \subseteq NoArticle,
             \A s \in S : status[s] \in {"None", "HasData"},
             ReadSegments(S, F, c), UNCHANGED <<cache, settle, canceled, retries>>
      PROVE  \E D : Starts(S, F, D)
  <2>1. S \subseteq Segment
    BY <1>1
  <2>2. PICK D :
          /\ NewDecoders(S, D)
          /\ status' = [s \in Segment |-> IF s \in S THEN "Loading"
                                       ELSE IF s \in F THEN "DownloadFailed" ELSE status[s]]
          /\ state' = [d \in Decoder |-> IF d \in D THEN "Init" ELSE state[d]]
          /\ expect' = [d \in Decoder |-> IF d \in D THEN "Begin" ELSE expect[d]]
          /\ decoded' = [d \in Decoder |-> IF d \in D THEN 0 ELSE decoded[d]]
          /\ offset' = [d \in Decoder |-> IF d \in D THEN 0 ELSE offset[d]]
          /\ buffer' = [d \in Decoder |-> IF d \in D THEN "none" ELSE buffer[d]]
    BY <1>1, <2>1, ReadSegmentsEffect
  <2>3. QED
    BY Zenon, <1>1, <2>2 DEF Starts
<1>2. ASSUME NEW r \in Request, NEW c, TryGetData(r, c),
             UNCHANGED <<cache, settle, canceled, retries>>
      PROVE  \E S, F, D : Starts(S, F, D)
  <2>1. /\ ReadSegments(Wanting(r) \ NoArticle, {}, c)
        /\ Wanting(r) \ NoArticle \subseteq Segment
    BY <1>2, TryGetDataEffect
  <2>2. \A s \in Wanting(r) \ NoArticle : status[s] \in {"None", "HasData"}
    BY DEF Wanting
  <2>3. Wanting(r) \ NoArticle \subseteq Segment \ NoArticle /\ {} \subseteq NoArticle
    BY <2>1
  <2>4. \E D : Starts(Wanting(r) \ NoArticle, {}, D)
    BY <1>1, <1>2, <2>1, <2>2, <2>3
  <2>5. QED
    BY <2>4
<1>3. ASSUME Preload PROVE \E S, F, D : Starts(S, F, D)
  <2> DEFINE first == Firsts(Segment \ NoArticle)
  <2>1. /\ first \subseteq Segment \ NoArticle /\ Firsts(NoArticle) \subseteq NoArticle
        /\ \A s \in first : status[s] \in {"None", "HasData"}
        /\ ReadSegments(first, Firsts(NoArticle), TRUE)
        /\ UNCHANGED <<cache, settle, canceled, retries>>
    BY <1>3 DEF Preload, Firsts, ioVars, bounds
  <2> HIDE DEF first
  <2>2. \E D : Starts(first, Firsts(NoArticle), D)
    BY <1>1, <2>1
  <2>3. QED
    BY <2>2
<1>4. QED
  BY <1>2, <1>3 DEF AsyncGetFileData, GetFileData, ProcessRequest, Request, ioVars, bounds

\* A segment that starts to load has a decoder, and the last decoder of a
\* segment that loads settles it before it goes.
LEMMA AbandonNext ==
  ASSUME TypeInv, NoSegmentAbandoned, [Next]_vars
  PROVE  NoSegmentAbandoned'
<1> USE DEF decoderVars, requestVars, ioVars, bounds
<1>0. /\ state \in [Decoder -> {"Free", "Init", "Begin", "End", "Error", "Canceled"}]
      /\ status \in [Segment -> {"None", "Loading", "HasData", "DownloadFailed"}]
  BY DEF TypeInv, TypeOK
<1>1. ASSUME UNCHANGED <<status, state, canceled>> PROVE NoSegmentAbandoned'
  BY <1>1 DEF NoSegmentAbandoned, Of
<1>2. ASSUME NEW S, NEW F, NEW D, Starts(S, F, D) PROVE NoSegmentAbandoned'
  <2> SUFFICES ASSUME ~ canceled, NEW s \in Segment, status'[s] = "Loading"
               PROVE  \E d \in Of(s) : state'[d] \in {"Init", "Begin"}
    BY <1>2 DEF NoSegmentAbandoned, Starts, Of
  <2>1. CASE s \in S
    <3>1. PICK d \in D : d.seg = s
      BY <1>2, <2>1 DEF Starts, NewDecoders
    <3>2. d \in Of(s) /\ state'[d] = "Init"
      BY <1>2, <3>1 DEF Starts, NewDecoders, Of
    <3>3. QED
      BY <3>2
  <2>2. CASE s \notin S
    <3>1. status[s] = "Loading"
      BY <1>2, <2>2 DEF Starts
    <3>2. PICK d \in Of(s) : state[d] \in {"Init", "Begin"}
      BY <3>1 DEF NoSegmentAbandoned
    <3>3. state'[d] \in {"Init", "Begin"}
      BY <1>2, <3>2 DEF Starts, Of
    <3>4. QED
      BY <3>3
  <2>3. QED
    BY <2>1, <2>2
<1>3. ASSUME NEW d \in Decoder, OnBeginSegment(d) \/ OnBeginMismatch(d) PROVE NoSegmentAbandoned'
  <2>1. /\ state' = [state EXCEPT ![d] = "Begin"]
        /\ UNCHANGED canceled
        /\ status' = status \/ status' = [status EXCEPT ![d.seg] = "DownloadFailed"]
    BY <1>3 DEF OnBeginSegment, OnBeginMismatch, SetDownloadFailed
  <2>2. \A s \in Segment : status'[s] = "Loading" => status[s] = "Loading"
    BY <1>0, <2>1
  <2>3. \A e \in Decoder : state[e] \in {"Init", "Begin"} => state'[e] \in {"Init", "Begin"}
    BY <1>0, <2>1
  <2>4. QED
    BY <2>1, <2>2, <2>3 DEF NoSegmentAbandoned, Of
<1>4. ASSUME NEW d \in Decoder, UNCHANGED canceled,
             \A e \in Decoder : e # d => state'[e] = state[e],
             \A s \in Segment : s # d.seg => status'[s] = status[s],
             status'[d.seg] # "Loading" \/ (UNCHANGED status /\ ~ Active(d))
      PROVE  NoSegmentAbandoned'
  <2> SUFFICES ASSUME ~ canceled, NEW s \in Segment, status'[s] = "Loading"
               PROVE  \E e \in Of(s) : state'[e] \in {"Init", "Begin"}
    BY <1>4 DEF NoSegmentAbandoned, Of
  <2>1. status[s] = "Loading"
    BY <1>4
  <2>2. PICK e \in Of(s) : state[e] \in {"Init", "Begin"}
    BY <2>1 DEF NoSegmentAbandoned
  <2>3. e # d
    BY <1>4, <2>2 DEF Active, Of
  <2>4. QED
    BY <1>4, <2>2, <2>3 DEF Of
<1>5. ASSUME NEW d \in Decoder, OnEndSegment(d) \/ OnError(d) \/ OnErrorCancel(d) \/ Destroy(d)
      PROVE  NoSegmentAbandoned'
  <2>1. d.seg \in Segment
    BY DEF Decoder
  <2>2. UNCHANGED canceled /\ \A e \in Decoder : e # d => state'[e] = state[e]
    BY <1>0, <1>5 DEF OnEndSegment, OnError, OnErrorCancel, Destroy
  <2>3. \/ status' = [status EXCEPT ![d.seg] = "HasData"]
        \/ status' = [status EXCEPT ![d.seg] = "DownloadFailed"]
        \/ UNCHANGED status /\ ~ Active(d)
    BY <1>5 DEF OnEndSegment, OnError, OnErrorCancel, Destroy, SetSegmentFinished,
                SetDownloadFailed, Unfinished, Active
  <2>4. \A s \in Segment : s # d.seg => status'[s] = status[s]
    BY <1>0, <2>3
  <2>5. status'[d.seg] # "Loading" \/ (UNCHANGED status /\ ~ Active(d))
    BY <1>0, <2>1, <2>3
  <2>6. QED
    BY <1>4, <2>2, <2>4, <2>5
<1>6. CASE ReaderStep
  <2>1. AsyncGetFilename => UNCHANGED <<status, state, canceled>>
    BY DEF AsyncGetFilename
  <2>2. QED
    BY <1>1, <1>2, <1>6, <2>1, Starting DEF ReaderStep, TypeInv
<1>7. CASE Cancel
  BY <1>7 DEF Cancel, NoSegmentAbandoned
<1>8. ASSUME NEW s \in Segment, Evict(s) PROVE NoSegmentAbandoned'
  BY <1>1, <1>8 DEF Evict
<1>9. CASE Preload
  BY <1>2, <1>9, Starting DEF TypeInv
<1>10. CASE ProcessStep
  <2>1. ProcessBegin \/ ProcessEnd => UNCHANGED <<status, state, canceled>>
    BY DEF ProcessBegin, ProcessEnd
  <2>2. QED
    BY <1>1, <1>2, <1>10, <2>1, Starting DEF ProcessStep, TypeInv
<1>11. CASE DecoderStep
  <2>1. \A d \in Decoder : OnData(d) \/ OnErrorRetry(d) => UNCHANGED <<status, state, canceled>>
    BY DEF OnData, OnErrorRetry
  <2>2. QED
    BY <1>1, <1>3, <1>5, <1>11, <2>1 DEF DecoderStep
<1>12. CASE UNCHANGED vars
  BY <1>1, <1>12 DEF vars
<1>13. QED
  BY <1>6, <1>7, <1>8, <1>9, <1>10, <1>11, <1>12 DEF Next

\* As long as the mount is not canceled, a segment that is loading has a decoder
\* that ends it or fails it: whatever steps of reads, retries and evictions go
\* before, no segment stays in "Loading" with nobody to fill it.
THEOREM SegmentsNotAbandoned == Spec => []NoSegmentAbandoned
<1>1. Init => NoSegmentAbandoned
  BY DEF Init, NoSegmentAbandoned
<1>2. TypeInv /\ NoSegmentAbandoned /\ [Next]_vars => NoSegmentAbandoned'
  BY AbandonNext
<1>3. QED
  BY <1>1, <1>2, TypeAlways, PTL DEF Spec

-----------------------------------------------------------------------------
(* No read is forgotten.                                                   *)

\* Segments that load go on when others start.
LEMMA StartsKeepLoading ==
  ASSUME NEW S, NEW F, NEW D, Starts(S, F, D), \A s \in NoArticle : status[s] # "Loading"
  PROVE  /\ \A s \in Segment : status[s] = "Loading" => status'[s] = "Loading"
         /\ \A s \in NoArticle : status'[s] # "Loading"
<1>1. NoArticle \subseteq Segment
  BY NZBFileAssumption
<1>2. QED
  BY <1>1 DEF Starts

\* A call that is not answered waits for a segment that loads.
LEMMA UnansweredLoads ==
  ASSUME TypeOK, NEW r \in Request, NEW c, TryGetData(r, c), ~ Ready(r), ~ Failing(r)
  PROVE  LoadingIn(r)'
<1>1. ReadSegments(Wanting(r) \ NoArticle, {}, c) /\ Reads[r] \subseteq Segment
  BY TryGetDataEffect
<1>2. PICK s \in Reads[r] : status[s] # "DownloadFailed" /\ s \notin Available(r) \cup OutOfOrder(r)
  BY DEF Ready
<1>3. status[s] \in {"None", "Loading", "HasData"}
  BY <1>1, <1>2 DEF TypeOK
<1>4. status'[s] = IF s \in Wanting(r) \ NoArticle THEN "Loading" ELSE status[s]
  BY <1>1 DEF ReadSegments
<1>5. CASE status[s] = "Loading"
  BY <1>4, <1>5 DEF LoadingIn
<1>6. CASE status[s] # "Loading"
  <2>1. s \in Wanting(r)
    BY <1>2, <1>3, <1>6 DEF Wanting
  <2>2. s \notin NoArticle
    BY <2>1 DEF Failing
  <2>3. QED
    BY <1>4, <2>1, <2>2 DEF LoadingIn
<1>7. QED
  BY <1>5, <1>6

\* A segment of the range of r loads after the step.
StillLoading(r) == \E s \in Reads[r] : status'[s] = "Loading"

\* What loads goes on to, for every read.
LEMMA LoadingStays ==
  ASSUME \A s \in Segment : status[s] = "Loading" => status'[s] = "Loading",
         NEW r \in Request, LoadingIn(r)
  PROVE  LoadingIn(r)'
<1>1. Reads[r] \subseteq Segment
  BY NZBFileAssumption
<1>2. QED
  BY <1>1 DEF LoadingIn

\* Calls of the readers.
LEMMA WaitReads ==
  ASSUME TypeOK, WaitInv,
         (\E r \in Async : AsyncGetFileData(r)) \/ (\E r \in Sync : GetFileData(r))
  PROVE  WaitInv'
<1> USE DEF decoderVars, requestVars, ioVars, bounds
<1>0. /\ \A s \in Segment : status[s] = "Loading" => status'[s] = "Loading"
      /\ NoArticleLoads'
  BY Starting, StartsKeepLoading DEF WaitInv, NoArticleLoads
<1>1. PICK r \in Request, c \in BOOLEAN :
        /\ TryGetData(r, c)
        /\ next = 0 /\ UNCHANGED <<settle, next>>
        /\ \/ (Ready(r) \/ Failing(r)) /\ request' = [request EXCEPT ![r] = Outcome(r)]
                /\ UNCHANGED dataRequests
           \/ ~ Ready(r) /\ ~ Failing(r) /\ request' = [request EXCEPT ![r] = "pending"]
                /\ r \in Async /\ dataRequests' = Append(dataRequests, r)
           \/ ~ Ready(r) /\ ~ Failing(r) /\ request' = [request EXCEPT ![r] = "waiting"]
                /\ UNCHANGED dataRequests
  <2>1. ASSUME NEW r \in Async, AsyncGetFileData(r)
        PROVE  /\ TryGetData(r, r \in WithCancel)
               /\ next = 0 /\ UNCHANGED <<settle, next>>
               /\ \/ (Ready(r) \/ Failing(r)) /\ request' = [request EXCEPT ![r] = Outcome(r)]
                       /\ UNCHANGED dataRequests
                  \/ ~ Ready(r) /\ ~ Failing(r) /\ request' = [request EXCEPT ![r] = "pending"]
                       /\ dataRequests' = Append(dataRequests, r)
    BY <2>1 DEF AsyncGetFileData, Unlocked
  <2>2. ASSUME NEW r \in Sync, GetFileData(r)
        PROVE  /\ TryGetData(r, FALSE)
               /\ next = 0 /\ UNCHANGED <<settle, next>>
               /\ \/ (Ready(r) \/ Failing(r)) /\ request' = [request EXCEPT ![r] = Outcome(r)]
                  \/ ~ Ready(r) /\ ~ Failing(r) /\ request' = [request EXCEPT ![r] = "waiting"]
               /\ UNCHANGED dataRequests
    BY <2>2 DEF GetFileData, Unlocked
  <2>3. CASE \E q \in Async : AsyncGetFileData(q)
    <3>1. PICK q \in Async : AsyncGetFileData(q)
      BY <2>3
    <3>2. q \in Request /\ (q \in WithCancel) \in BOOLEAN
      BY DEF Request
    <3>3. QED
      BY <2>1, <3>1, <3>2
  <2>4. CASE \E q \in Sync : GetFileData(q)
    BY <2>2, <2>4 DEF Request
  <2>5. QED
    BY <2>3, <2>4
<1>2. Outcome(r) \in {"ok", "error"}
  BY DEF Outcome
<1>3. request \in [Request -> {"new", "pending", "waiting", "awake", "ok", "error", "canceled"}]
  BY DEF TypeOK
<1>4. \A q \in Request : q # r => request'[q] = request[q]
  BY <1>1, <1>3
<1>5. request'[r] \in {"pending", "waiting"} => LoadingIn(r)'
  BY <1>1, <1>2, <1>3, UnansweredLoads
<1>6. AllQueued'
  <2>1. dataRequests \in Seq(Async)
    BY DEF TypeOK
  <2>2. \A q \in Request : Queued(q) => Queued(q)'
    BY <1>1, <2>1 DEF Queued
  <2>3. request'[r] = "pending" => Queued(r)'
    <3> SUFFICES ASSUME request'[r] = "pending" PROVE Queued(r)'
      OBVIOUS
    <3>1. dataRequests' = Append(dataRequests, r)
      BY <1>1, <1>2, <1>3
    <3>2. Len(dataRequests) + 1 \in DOMAIN dataRequests' /\ dataRequests'[Len(dataRequests) + 1] = r
      BY <2>1, <3>1, <1>1
    <3>3. QED
      BY <3>2 DEF Queued
  <2>4. QED
    BY <1>4, <2>2, <2>3 DEF WaitInv, AllQueued
<1>7. PassedLoad'
  <2>1. dataRequests \in Seq(Async) /\ (dataRequests' = dataRequests \/ (r \in Async /\ dataRequests' = Append(dataRequests, r)))
    BY <1>1 DEF TypeOK
  <2>2. DOMAIN dataRequests' \subseteq Nat \ {0}
    BY <2>1
  <2>3. next' = 0
    BY <1>1
  <2>4. QED
    BY <2>2, <2>3 DEF PassedLoad
<1>8. WaitersLoad'
  BY <1>0, <1>1, <1>4, <1>5, LoadingStays DEF WaitInv, WaitersLoad
<1>9. QED
  BY <1>0, <1>1, <1>6, <1>7, <1>8 DEF WaitInv, RunsToSettle

\* The io thread looks through the list.
LEMMA WaitProcess ==
  ASSUME TypeOK, WaitInv, ProcessStep
  PROVE  WaitInv'
<1> USE DEF decoderVars, requestVars, ioVars, bounds
<1>1. dataRequests \in Seq(Async) /\ next \in Nat /\ Async \subseteq Request
      /\ request \in [Request -> {"new", "pending", "waiting", "awake", "ok", "error", "canceled"}]
  BY DEF TypeOK, Request
<1>2. CASE ProcessBegin
  <2>1. UNCHANGED <<status, request, dataRequests, settle>> /\ settle # "no" /\ next' = 1
    BY <1>2 DEF ProcessBegin
  <2>2. PassedLoad'
    BY <1>1, <2>1 DEF PassedLoad
  <2>3. AllQueued'
    BY <2>1 DEF WaitInv, AllQueued, Queued
  <2>4. QED
    BY <2>1, <2>2, <2>3 DEF WaitInv, RunsToSettle, WaitersLoad, NoArticleLoads
<1>3. CASE ProcessEnd
  <2>1. /\ next > Len(dataRequests) /\ next' = 0
        /\ request' = Notified /\ UNCHANGED <<status, dataRequests>>
    BY <1>3 DEF ProcessEnd
  <2>2. \A r \in Request : request'[r] = "pending" => request[r] = "pending"
    BY <1>1, <2>1 DEF Notified
  <2>3. \A r \in Request : request'[r] # "waiting"
    BY <1>1, <2>1 DEF Notified
  <2>4. \A r \in Request : Queued(r) => LoadingIn(r)'
    <3> SUFFICES ASSUME NEW r \in Request, Queued(r) PROVE LoadingIn(r)'
      OBVIOUS
    <3>1. PICK i \in DOMAIN dataRequests : dataRequests[i] = r
      BY DEF Queued
    <3>2. i < next
      BY <1>1, <2>1, <3>1
    <3>3. LoadingIn(r)
      BY <3>1, <3>2 DEF WaitInv, PassedLoad
    <3>4. QED
      BY <2>1, <3>3 DEF LoadingIn
  <2>5. AllQueued' /\ WaitersLoad'
    BY <2>1, <2>2, <2>3, <2>4 DEF WaitInv, AllQueued, WaitersLoad, Queued
  <2>6. PassedLoad'
    BY <1>1, <2>1 DEF PassedLoad
  <2>7. QED
    BY <2>1, <2>5, <2>6 DEF WaitInv, NoArticleLoads, RunsToSettle
<1>4. ASSUME NEW r \in Async, ProcessRequest(r) PROVE WaitInv'
  <2>0. r \in Request
    BY <1>1
  <2>1. /\ \A s \in Segment : status[s] = "Loading" => status'[s] = "Loading"
        /\ NoArticleLoads'
    BY <1>4, Starting, StartsKeepLoading DEF WaitInv, NoArticleLoads
  <2>2. /\ next \in DOMAIN dataRequests /\ r = dataRequests[next] /\ TryGetData(r, FALSE)
        /\ UNCHANGED settle
    BY <1>4 DEF ProcessRequest
  <2>3. settle # "no" /\ next > 0
    BY <1>1, <2>2 DEF WaitInv, RunsToSettle
  <2>4. \A i \in DOMAIN dataRequests : i < next => StillLoading(dataRequests[i])
    <3> SUFFICES ASSUME NEW i \in DOMAIN dataRequests, i < next PROVE StillLoading(dataRequests[i])
      OBVIOUS
    <3>1. dataRequests[i] \in Request /\ LoadingIn(dataRequests[i])
      BY <1>1 DEF WaitInv, PassedLoad
    <3>2. Reads[dataRequests[i]] \subseteq Segment
      BY <3>1, NZBFileAssumption
    <3>3. QED
      BY <2>1, <3>1, <3>2 DEF LoadingIn, StillLoading
  <2>5. CASE Ready(r) \/ Failing(r)
    <3>1. /\ request' = [request EXCEPT ![r] = Outcome(r)]
          /\ dataRequests' = RemoveAt(dataRequests, next) /\ UNCHANGED next
      BY <1>4, <2>5 DEF ProcessRequest
    <3>2. /\ dataRequests' \in Seq(Async)
          /\ \A j \in DOMAIN dataRequests : j < next =>
               j \in DOMAIN dataRequests' /\ dataRequests'[j] = dataRequests[j]
          /\ \A j \in DOMAIN dataRequests : j > next =>
               j - 1 \in DOMAIN dataRequests' /\ dataRequests'[j - 1] = dataRequests[j]
      BY <1>1, <2>2, <3>1, RequestRemoved
    <3>3. AllQueued'
      <4> SUFFICES ASSUME NEW q \in Request, request'[q] = "pending" PROVE Queued(q)'
        BY DEF AllQueued
      <4>1. q # r /\ request[q] = "pending"
        BY <1>1, <3>1 DEF Outcome
      <4>2. PICK j \in DOMAIN dataRequests : dataRequests[j] = q
        BY <4>1 DEF WaitInv, AllQueued, Queued
      <4>3. j # next /\ j \in Nat
        BY <1>1, <2>2, <4>1, <4>2
      <4>4. j < next \/ j > next
        BY <1>1, <4>3
      <4>5. QED
        BY <3>2, <4>2, <4>4 DEF Queued
    <3>4. PassedLoad'
      <4> SUFFICES ASSUME NEW i \in DOMAIN dataRequests', i < next'
                   PROVE  StillLoading(dataRequests'[i])
        BY DEF PassedLoad, LoadingIn, StillLoading
      <4>1. i \in DOMAIN dataRequests /\ i < next
        BY <1>1, <2>2, <3>1, <3>2
      <4>2. dataRequests'[i] = dataRequests[i]
        BY <3>2, <4>1
      <4>3. QED
        BY <2>4, <4>1, <4>2
    <3>5. QED
      BY <2>1, <2>2, <2>3, <3>1, <3>3, <3>4 DEF WaitInv, RunsToSettle, WaitersLoad
  <2>6. CASE ~ (Ready(r) \/ Failing(r))
    <3>1. next' = next + 1 /\ UNCHANGED <<request, dataRequests>>
      BY <1>4, <2>6 DEF ProcessRequest
    <3>2. LoadingIn(r)'
      BY <2>0, <2>2, <2>6, UnansweredLoads
    <3>3. PassedLoad'
      <4> SUFFICES ASSUME NEW i \in DOMAIN dataRequests, i < next'
                   PROVE  StillLoading(dataRequests[i])
        BY <3>1 DEF PassedLoad, LoadingIn, StillLoading
      <4>1. i < next \/ i = next
        BY <1>1, <3>1
      <4>2. CASE i < next
        BY <2>4, <4>2
      <4>3. CASE i = next
        BY <2>2, <3>2, <4>3 DEF LoadingIn, StillLoading
      <4>4. QED
        BY <4>1, <4>2, <4>3
    <3>4. AllQueued'
      BY <3>1 DEF WaitInv, AllQueued, Queued
    <3>5. QED
      BY <2>1, <2>2, <2>3, <3>3, <3>4 DEF WaitInv, RunsToSettle, WaitersLoad
  <2>7. QED
    BY <2>5, <2>6
<1>5. QED
  BY <1>2, <1>3, <1>4 DEF ProcessStep

\* Preload, the decoders, the cancel signal and the cache.
LEMMA WaitOthers ==
  ASSUME TypeOK, WaitInv,
         AsyncGetFilename \/ Cancel \/ Preload \/ DecoderStep \/ \E s \in Segment : Evict(s)
  PROVE  WaitInv'
<1> USE DEF decoderVars, requestVars, ioVars, bounds
<1>1. /\ dataRequests \in Seq(Async) /\ next \in Nat
      /\ status \in [Segment -> {"None", "Loading", "HasData", "DownloadFailed"}]
      /\ request \in [Request -> {"new", "pending", "waiting", "awake", "ok", "error", "canceled"}]
  BY DEF TypeOK
<1>2. ASSUME \A s \in NoArticle : status'[s] # "Loading", UNCHANGED <<dataRequests, next>>,
             \A r \in Request : request'[r] = "pending" => request[r] = "pending",
             \A r \in Request : request'[r] = "waiting" => request[r] = "waiting",
             \/ next = 0 /\ settle' # "no"
             \/ UNCHANGED settle /\ \A s \in Segment : status[s] = "Loading" => status'[s] = "Loading"
      PROVE  WaitInv'
  <2>1. AllQueued'
    BY <1>2 DEF WaitInv, AllQueued, Queued
  <2>2. PassedLoad'
    <3>1. CASE next = 0
      BY <1>1, <1>2, <3>1 DEF PassedLoad
    <3>2. CASE next # 0
      <4> SUFFICES ASSUME NEW i \in DOMAIN dataRequests, i < next PROVE LoadingIn(dataRequests[i])'
        BY <1>2 DEF PassedLoad, LoadingIn
      <4>1. PICK q \in Request : q = dataRequests[i]
        BY <1>1 DEF Request
      <4>2. LoadingIn(q)
        BY <4>1 DEF WaitInv, PassedLoad
      <4>3. \E s \in Reads[q] : status'[s] = "Loading"
        BY <1>2, <3>2, <4>2, LoadingStays DEF LoadingIn
      <4>4. QED
        BY <1>2, <4>1, <4>3 DEF LoadingIn
    <3>3. QED
      BY <3>1, <3>2
  <2>3. WaitersLoad'
    <3>1. CASE settle' # "no"
      BY <3>1 DEF WaitersLoad
    <3>2. CASE settle' = "no"
      <4>1. settle = "no" /\ \A s \in Segment : status[s] = "Loading" => status'[s] = "Loading"
        BY <1>2, <3>2
      <4>2. \A r \in Request : LoadingIn(r) => LoadingIn(r)'
        BY <4>1, LoadingStays
      <4>3. QED
        BY <1>2, <4>1, <4>2 DEF WaitInv, WaitersLoad
    <3>3. QED
      BY <3>1, <3>2
  <2>4. RunsToSettle'
    BY <1>1, <1>2 DEF WaitInv, RunsToSettle
  <2>5. NoArticleLoads'
    BY <1>2 DEF NoArticleLoads
  <2>6. QED
    BY <2>1, <2>2, <2>3, <2>4, <2>5 DEF WaitInv, RunsToSettle
<1>3. CASE AsyncGetFilename \/ \E s \in Segment : Evict(s)
  <2>1. UNCHANGED <<status, request, dataRequests, settle, next>>
    BY <1>3 DEF AsyncGetFilename, Evict
  <2>2. QED
    BY <1>2, <2>1 DEF WaitInv, NoArticleLoads
<1>4. CASE Cancel
  <2>1. UNCHANGED <<status, settle, next>> /\ next = 0 /\ dataRequests' = Without(dataRequests, WithCancel)
    BY <1>4 DEF Cancel, Unlocked
  <2>2. /\ dataRequests' \in Seq(Async)
        /\ \A i \in DOMAIN dataRequests : dataRequests[i] \notin WithCancel =>
             \E j \in DOMAIN dataRequests' : dataRequests'[j] = dataRequests[i]
    BY <1>1, <2>1, WithoutProperties
  <2>3. \A r \in Request : request'[r] \in {"pending", "waiting"} =>
          request'[r] = request[r] /\ (request[r] = "pending" => r \notin WithCancel)
    BY <1>1, <1>4 DEF Cancel
  <2>4. AllQueued'
    BY <2>2, <2>3 DEF WaitInv, AllQueued, Queued
  <2>5. PassedLoad'
    BY <2>1, <2>2 DEF PassedLoad
  <2>6. WaitersLoad'
    BY <2>1, <2>3 DEF WaitInv, WaitersLoad, LoadingIn
  <2>7. QED
    BY <2>1, <2>4, <2>5, <2>6 DEF WaitInv, NoArticleLoads, RunsToSettle
<1>5. CASE Preload
  <2>1. UNCHANGED <<request, dataRequests, settle, next>>
    BY <1>5 DEF Preload
  <2>2. /\ \A s \in Segment : status[s] = "Loading" => status'[s] = "Loading"
        /\ \A s \in NoArticle : status'[s] # "Loading"
    BY <1>5, Starting, StartsKeepLoading DEF WaitInv, NoArticleLoads
  <2>3. QED
    BY <1>2, <2>1, <2>2
<1>6. CASE DecoderStep
  <2>1. NoArticle \subseteq Segment
    BY NZBFileAssumption
  <2>2. PICK d \in Decoder :
          \/ OnBeginSegment(d) \/ OnBeginMismatch(d) \/ OnData(d) \/ OnEndSegment(d) \/ OnError(d)
          \/ OnErrorRetry(d) \/ OnErrorCancel(d) \/ Destroy(d)
    BY <1>6 DEF DecoderStep
  <2>3. UNCHANGED <<dataRequests, next>> /\ next = 0
    BY <2>2 DEF OnBeginSegment, OnBeginMismatch, OnData, OnEndSegment, OnError, OnErrorRetry,
                OnErrorCancel, Destroy, Decoding, IoIdle
  <2>4. request' = request \/ request' = Notified
    BY <2>2 DEF OnBeginSegment, OnBeginMismatch, OnData, OnEndSegment, OnError, OnErrorRetry,
                OnErrorCancel, Destroy
  <2>5. /\ \A r \in Request : request'[r] = "pending" => request[r] = "pending"
        /\ \A r \in Request : request'[r] = "waiting" => request[r] = "waiting"
    BY <1>1, <2>4 DEF Notified
  <2>6. \/ UNCHANGED <<status, settle>>
        \/ status' = [status EXCEPT ![d.seg] = "HasData"] /\ settle' # "no"
        \/ status' = [status EXCEPT ![d.seg] = "DownloadFailed"] /\ settle' # "no"
    BY <2>2 DEF OnBeginSegment, OnBeginMismatch, OnData, OnEndSegment, OnError, OnErrorRetry,
                OnErrorCancel, Destroy, SetSegmentFinished, SetDownloadFailed
  <2>7. \A s \in NoArticle : status'[s] # "Loading"
    BY <1>1, <2>1, <2>6 DEF WaitInv, NoArticleLoads
  <2>8. QED
    BY <1>2, <2>3, <2>5, <2>6, <2>7
<1>7. QED
  BY <1>3, <1>4, <1>5, <1>6

LEMMA WaitNext == TypeInv /\ WaitInv /\ [Next]_vars => WaitInv'
<1> SUFFICES ASSUME TypeInv, WaitInv, [Next]_vars PROVE WaitInv'
  OBVIOUS
<1>1. CASE Next
  BY <1>1, WaitReads, WaitProcess, WaitOthers DEF Next, ReaderStep, TypeInv
<1>2. CASE UNCHANGED vars
  BY <1>2 DEF vars, requestVars, ioVars, WaitInv, NoArticleLoads, AllQueued, RunsToSettle,
              PassedLoad, WaitersLoad, LoadingIn, Queued
<1>3. QED
  BY <1>1, <1>2

LEMMA WaitAlways == Spec => []WaitInv
<1>1. ASSUME Init PROVE WaitInv
  <2>1. NoArticle \subseteq Segment
    BY NZBFileAssumption
  <2>2. NoArticleLoads
    BY <1>1, <2>1 DEF Init, NoArticleLoads
  <2>3. PassedLoad /\ RunsToSettle
    BY <1>1 DEF Init, PassedLoad, RunsToSettle
  <2>4. AllQueued /\ WaitersLoad
    BY <1>1 DEF Init, AllQueued, WaitersLoad
  <2>5. QED
    BY <2>2, <2>3, <2>4 DEF WaitInv
<1>2. QED
  BY <1>1, WaitNext, TypeAlways, PTL DEF Spec

\* No read is forgotten: whenever the io thread is done with the list, each read
\* that still waits has a segment in its range that is loading.
THEOREM ReadsNotForgotten == Spec => []WaitsForLoading
<1>1. WaitInv => WaitsForLoading
  BY DEF WaitInv, WaitersLoad, WaitsForLoading, IoIdle, LoadingIn
<1>2. QED
  BY <1>1, WaitAlways, PTL

-----------------------------------------------------------------------------
(* Reads get what was decoded.                                             *)

\* New decoders find their segments free.
LEMMA FirstStarts ==
  ASSUME TypeOK, DecoderInv, NoArticleLoads, NEW S, NEW F, NEW D, Starts(S, F, D)
  PROVE  DecoderInv'
<1>0. /\ NoArticle \subseteq Segment /\ Foreign \subseteq Segment \ NoArticle
      /\ \A d \in Decoder : d.seg \in Segment
  BY NZBFileAssumption DEF Decoder
<1>1. \A d \in Decoder \ D :
        /\ state'[d] = state[d] /\ expect'[d] = expect[d] /\ decoded'[d] = decoded[d]
        /\ offset'[d] = offset[d] /\ buffer'[d] = buffer[d]
  BY DEF Starts
<1>2. \A d \in D :
        /\ d \in Decoder /\ d.seg \in S /\ state'[d] = "Init" /\ expect'[d] = "Begin"
        /\ decoded'[d] = 0 /\ offset'[d] = 0 /\ status'[d.seg] = "Loading"
  BY <1>0 DEF Starts, NewDecoders
<1>3. \A s \in Segment :
        /\ status[s] = "Loading" => status'[s] = "Loading"
        /\ s \notin NoArticle /\ status[s] = "DownloadFailed" => status'[s] = "DownloadFailed"
  BY <1>0 DEF Starts, NoArticleLoads
<1>4. \A d \in Decoder : Active(d) => status[d.seg] \in {"Loading", "DownloadFailed"}
  BY DEF DecoderInv, InitOK, BeginOK, Active
<1>5. InitOK'
  BY <1>0, <1>1, <1>2, <1>3 DEF DecoderInv, InitOK
<1>6. BeginOK'
  <2> SUFFICES ASSUME NEW d \in Decoder, state'[d] = "Begin"
               PROVE  /\ expect'[d] = "End"
                      /\ d.seg \in Foreign => buffer'[d] = "none" /\ status'[d.seg] = "DownloadFailed"
                      /\ d.seg \notin Foreign => Written(d)' /\ status'[d.seg] = "Loading"
    BY DEF BeginOK
  <2>1. d \notin D
    BY <1>2
  <2>2. state[d] = "Begin"
    BY <1>1, <2>1
  <2>3. Written(d) => Written(d)'
    BY <1>1, <2>1 DEF Written, Starts
  <2>4. QED
    BY <1>0, <1>1, <1>3, <2>1, <2>2, <2>3 DEF DecoderInv, BeginOK
<1>7. OverOK'
  BY <1>1, <1>2 DEF DecoderInv, OverOK
<1>8. OneActive'
  <2> SUFFICES ASSUME NEW d \in Decoder, NEW e \in Decoder, Active(d)', Active(e)', d.seg = e.seg
               PROVE  d = e
    BY DEF OneActive, Active
  <2>1. \A f \in Decoder \ D : Active(f)' => Active(f) /\ f.seg \notin S
    BY <1>1, <1>4 DEF Active, Starts
  <2>2. CASE d \in D /\ e \in D
    BY <2>2 DEF Starts, NewDecoders
  <2>3. CASE d \notin D /\ e \notin D
    BY <2>1, <2>3 DEF DecoderInv, OneActive
  <2>4. QED
    BY <1>2, <2>1, <2>2, <2>3
<1>9. QED
  BY <1>5, <1>6, <1>7, <1>8 DEF DecoderInv

\* What a call copies is whole, and one that succeeds has all of its range.
LEMMA FirstCopies ==
  ASSUME TypeOK, DataInv, NEW r \in Request, NEW c, TryGetData(r, c), UNCHANGED cache,
         \A q \in Request : q # r => request'[q] = request[q],
         request'[r] = "ok" => (Ready(r) /\ ~ Failing(r)) \/ request[r] = "ok"
  PROVE  DataInv'
<1>1. /\ ReadSegments(Wanting(r) \ NoArticle, {}, c)
      /\ Reads[r] \subseteq Segment
      /\ \A q \in Request, s \in Segment :
           got'[q][s] = IF q = r /\ s \in Available(r) \ Done(r) THEN cache[s] ELSE got[q][s]
  BY TryGetDataEffect
<1>2. \A s \in Segment : status'[s] = "HasData" => status[s] = "HasData"
  BY <1>1 DEF ReadSegments
<1>3. \A q \in Request, s \in Segment :
        /\ got'[q][s] \in {NoEntry, Whole}
        /\ got[q][s] = Whole => got'[q][s] = Whole
  <2> SUFFICES ASSUME NEW q \in Request, NEW s \in Segment
               PROVE  got'[q][s] \in {NoEntry, Whole} /\ (got[q][s] = Whole => got'[q][s] = Whole)
    OBVIOUS
  <2>1. CASE q = r /\ s \in Available(r) \ Done(r)
    <3>1. s \in Reads[r] /\ status[s] = "HasData" /\ got[q][s] = NoEntry
      BY <2>1 DEF Available, Done
    <3>2. cache[s] \in {NoEntry, Whole}
      BY <3>1 DEF DataInv
    <3>3. QED
      BY <1>1, <2>1, <3>1, <3>2, Contents
  <2>2. CASE ~ (q = r /\ s \in Available(r) \ Done(r))
    BY <1>1, <2>2 DEF DataInv
  <2>3. QED
    BY <2>1, <2>2
<1>4. Ready(r) /\ ~ Failing(r) => \A s \in Reads[r] : got'[r][s] = Whole
  <2> SUFFICES ASSUME Ready(r), ~ Failing(r), NEW s \in Reads[r] PROVE got'[r][s] = Whole
    OBVIOUS
  <2>1. s \in Available(r)
    BY DEF Ready, Failing
  <2>2. s \in Segment
    BY <1>1
  <2>3. CASE s \in Done(r)
    BY <1>3, <2>2, <2>3 DEF Done, DataInv
  <2>4. CASE s \notin Done(r)
    <3>1. cache[s] # NoEntry /\ got'[r][s] = cache[s]
      BY <1>1, <2>1, <2>2, <2>4 DEF Available
    <3>2. QED
      BY <1>3, <2>2, <3>1
  <2>5. QED
    BY <2>3, <2>4
<1>5. WholeData'
  <2> SUFFICES ASSUME NEW q \in Request, request'[q] = "ok", NEW s \in Reads[q]
               PROVE  got'[q][s] = Whole
    BY DEF WholeData
  <2>1. s \in Segment
    BY NZBFileAssumption
  <2>2. CASE request[q] = "ok"
    BY <1>3, <2>1, <2>2 DEF DataInv, WholeData
  <2>3. CASE request[q] # "ok"
    BY <1>4, <2>3
  <2>4. QED
    BY <2>2, <2>3
<1>6. QED
  BY <1>2, <1>3, <1>5 DEF DataInv

LEMMA FirstReads ==
  ASSUME TypeOK, WaitInv, DecoderInv, DataInv,
         \/ \E r \in Async : AsyncGetFileData(r)
         \/ \E r \in Sync : GetFileData(r)
         \/ Preload
         \/ \E r \in Async : ProcessRequest(r)
  PROVE  DecoderInv' /\ DataInv'
<1> USE DEF decoderVars, requestVars, ioVars, bounds
<1>1. DecoderInv'
  BY Starting, FirstStarts DEF WaitInv
<1>2. ASSUME NEW r \in Request, NEW c, TryGetData(r, c), UNCHANGED cache,
             \/ (Ready(r) \/ Failing(r)) /\ request' = [request EXCEPT ![r] = Outcome(r)]
             \/ request' = request
             \/ request' = [request EXCEPT ![r] = "pending"]
             \/ request' = [request EXCEPT ![r] = "waiting"]
      PROVE  DataInv'
  <2>1. request \in [Request -> {"new", "pending", "waiting", "awake", "ok", "error", "canceled"}]
    BY DEF TypeOK
  <2>2. \A q \in Request : q # r => request'[q] = request[q]
    BY <1>2, <2>1
  <2>3. request'[r] = "ok" => (Ready(r) /\ ~ Failing(r)) \/ request[r] = "ok"
    BY <1>2, <2>1 DEF Outcome
  <2>4. QED
    BY <1>2, <2>2, <2>3, FirstCopies
<1>3. ASSUME NEW r \in Async, AsyncGetFileData(r) PROVE DataInv'
  <2>1. /\ TryGetData(r, r \in WithCancel) /\ UNCHANGED cache
        /\ \/ (Ready(r) \/ Failing(r)) /\ request' = [request EXCEPT ![r] = Outcome(r)]
           \/ request' = [request EXCEPT ![r] = "pending"]
    BY <1>3 DEF AsyncGetFileData
  <2>2. r \in Request
    BY DEF Request
  <2>3. QED
    BY <1>2, <2>1, <2>2
<1>4. ASSUME NEW r \in Sync, GetFileData(r) PROVE DataInv'
  <2>1. /\ TryGetData(r, FALSE) /\ UNCHANGED cache
        /\ \/ (Ready(r) \/ Failing(r)) /\ request' = [request EXCEPT ![r] = Outcome(r)]
           \/ request' = [request EXCEPT ![r] = "waiting"]
    BY <1>4 DEF GetFileData
  <2>2. r \in Request
    BY DEF Request
  <2>3. QED
    BY <1>2, <2>1, <2>2
<1>5. ASSUME NEW r \in Async, ProcessRequest(r) PROVE DataInv'
  <2>1. /\ TryGetData(r, FALSE) /\ UNCHANGED cache
        /\ \/ (Ready(r) \/ Failing(r)) /\ request' = [request EXCEPT ![r] = Outcome(r)]
           \/ request' = request
    BY <1>5 DEF ProcessRequest
  <2>2. r \in Request
    BY DEF Request
  <2>3. QED
    BY <1>2, <2>1, <2>2
<1>6. ASSUME Preload PROVE DataInv'
  <2>1. PICK S, F, D : Starts(S, F, D)
    BY <1>6, Starting
  <2>2. \A s \in Segment : status'[s] = "HasData" => status[s] = "HasData"
    BY <2>1 DEF Starts
  <2>3. UNCHANGED <<cache, request, got>>
    BY <1>6 DEF Preload
  <2>4. QED
    BY <2>2, <2>3 DEF DataInv, WholeData
<1>7. QED
  BY <1>1, <1>3, <1>4, <1>5, <1>6

\* Calls of the readers that read nothing, the signal and the cache.
LEMMA FirstRequests ==
  ASSUME TypeOK, DecoderInv, DataInv,
         AsyncGetFilename \/ Cancel \/ ProcessBegin \/ ProcessEnd \/ \E s \in Segment : Evict(s)
  PROVE  DecoderInv' /\ DataInv'
<1> USE DEF decoderVars, requestVars, ioVars, bounds
<1>0. /\ state \in [Decoder -> {"Free", "Init", "Begin", "End", "Error", "Canceled"}]
      /\ cache \in [Segment -> Content \cup {NoEntry}]
      /\ request \in [Request -> {"new", "pending", "waiting", "awake", "ok", "error", "canceled"}]
  BY DEF TypeOK
<1>1. ASSUME UNCHANGED <<status, cache, expect, decoded, offset, buffer, got>>,
             \A d \in Decoder : state'[d] = state[d] \/ state'[d] = "Canceled",
             \A r \in Request : request'[r] = "ok" => request[r] = "ok"
      PROVE  DecoderInv' /\ DataInv'
  <2>1. \A d \in Decoder : state'[d] # "Canceled" => state'[d] = state[d]
    BY <1>1
  <2>2. InitOK' /\ BeginOK'
    BY <1>1, <2>1 DEF DecoderInv, InitOK, BeginOK, Written
  <2>3. OverOK' /\ OneActive'
    BY <1>1, <2>1 DEF DecoderInv, OverOK, OneActive, Active
  <2>4. DataInv'
    BY <1>1 DEF DataInv, WholeData
  <2>5. QED
    BY <2>2, <2>3, <2>4 DEF DecoderInv
<1>2. CASE AsyncGetFilename \/ ProcessBegin
  BY <1>1, <1>2 DEF AsyncGetFilename, ProcessBegin
<1>3. CASE Cancel
  BY <1>0, <1>1, <1>3 DEF Cancel
<1>4. CASE ProcessEnd
  BY <1>0, <1>1, <1>4 DEF ProcessEnd, Notified
<1>5. ASSUME NEW s \in Segment, Evict(s) PROVE DecoderInv' /\ DataInv'
  <2>1. /\ UNCHANGED <<status, state, expect, decoded, offset, buffer, request, got>>
        /\ cache' = [cache EXCEPT ![s] = NoEntry]
        /\ \A d \in Decoder : buffer[d] = "cache" => d.seg # s
    BY <1>5 DEF Evict, Of
  <2>2. \A d \in Decoder : Written(d) => Written(d)'
    BY <1>0, <2>1 DEF Written, Decoder
  <2>3. InitOK' /\ BeginOK'
    BY <2>1, <2>2 DEF DecoderInv, InitOK, BeginOK
  <2>4. DataInv'
    BY <1>0, <2>1, NZBFileAssumption DEF DataInv, WholeData
  <2>5. QED
    BY <2>1, <2>3, <2>4 DEF DecoderInv, OverOK, OneActive, Active
<1>6. QED
  BY <1>2, <1>3, <1>4, <1>5

\* A decoder at the start of an article.
LEMMA FirstBegins ==
  ASSUME TypeOK, DecoderInv, DataInv, NEW d \in Decoder, OnBeginSegment(d) \/ OnBeginMismatch(d)
  PROVE  DecoderInv' /\ DataInv'
<1> USE DEF decoderVars, requestVars, ioVars, bounds
<1>0. /\ d.seg \in Segment
      /\ state \in [Decoder -> {"Free", "Init", "Begin", "End", "Error", "Canceled"}]
      /\ status \in [Segment -> {"None", "Loading", "HasData", "DownloadFailed"}]
      /\ cache \in [Segment -> Content \cup {NoEntry}]
      /\ expect \in [Decoder -> {"Begin", "End", "Done", "Spoiled", "Error"}]
      /\ buffer \in [Decoder -> {"none", "cache", "replaced"}]
      /\ request \in [Request -> {"new", "pending", "waiting", "awake", "ok", "error", "canceled"}]
  BY DEF TypeOK, Decoder
<1>1. /\ state' = [state EXCEPT ![d] = "Begin"] /\ expect' = [expect EXCEPT ![d] = "End"]
      /\ UNCHANGED <<decoded, offset, got>> /\ request' = Notified
      /\ state[d] \notin {"Free", "Canceled"} /\ expect[d] = "Begin"
  BY DEF OnBeginSegment, OnBeginMismatch, Decoding
<1>2. state[d] = "Init" /\ decoded[d] = 0 /\ offset[d] = 0 /\ status[d.seg] = "Loading"
  BY <1>0, <1>1 DEF DecoderInv, InitOK, BeginOK, OverOK
<1>3. /\ \A e \in Decoder : e # d => state'[e] = state[e] /\ expect'[e] = expect[e]
      /\ state'[d] = "Begin" /\ expect'[d] = "End"
  BY <1>0, <1>1
<1>4. \A e \in Decoder : e # d /\ Active(e) => e.seg # d.seg
  BY <1>2 DEF DecoderInv, OneActive, Active
<1>5. OverOK' /\ OneActive'
  BY <1>2, <1>3 DEF DecoderInv, OverOK, OneActive, Active
<1>6. \A r \in Request : request'[r] = "ok" => request[r] = "ok"
  BY <1>0, <1>1 DEF Notified
<1>7. CASE OnBeginSegment(d)
  <2>1. /\ UNCHANGED status /\ d.seg \notin Foreign
        /\ cache' = [cache EXCEPT ![d.seg] = Malloced]
        /\ buffer'[d] = "cache"
        /\ \A e \in Decoder : e # d => buffer'[e] =
             IF e.seg = d.seg /\ buffer[e] = "cache" THEN "replaced" ELSE buffer[e]
    BY <1>7 DEF OnBeginSegment
  <2>2. InitOK'
    BY <1>1, <1>3, <2>1 DEF DecoderInv, InitOK
  <2>3. Written(d)'
    <3>1. cache'[d.seg] = [i \in 1 .. Chunks |-> IF i <= 0 THEN i ELSE 0]
      <4>1. cache'[d.seg] = [i \in 1 .. Chunks |-> 0]
        BY <1>0, <2>1 DEF Malloced
      <4>2. \A i \in 1 .. Chunks : (IF i <= 0 THEN i ELSE 0) = 0
        BY NZBFileAssumption
      <4>3. QED
        BY <4>1, <4>2
    <3>2. offset'[d] = 0 /\ decoded'[d] = 0
      BY <1>1, <1>2
    <3>3. QED
      BY <2>1, <3>1, <3>2 DEF Written
  <2>4. \A e \in Decoder : e # d /\ Active(e) /\ Written(e) => Written(e)'
    BY <1>0, <1>1, <1>4, <2>1 DEF Written
  <2>5. BeginOK'
    <3> SUFFICES ASSUME NEW e \in Decoder, state'[e] = "Begin"
                 PROVE  /\ expect'[e] = "End"
                        /\ e.seg \in Foreign => buffer'[e] = "none" /\ status'[e.seg] = "DownloadFailed"
                        /\ e.seg \notin Foreign => Written(e)' /\ status'[e.seg] = "Loading"
      BY DEF BeginOK
    <3>1. CASE e = d
      BY <1>2, <1>3, <2>1, <2>3, <3>1
    <3>2. CASE e # d
      <4>1. state[e] = "Begin" /\ Active(e)
        BY <1>3, <3>2 DEF Active
      <4>2. QED
        BY <1>3, <2>1, <2>4, <3>2, <4>1 DEF DecoderInv, BeginOK
    <3>3. QED
      BY <3>1, <3>2
  <2>6. DataInv'
    BY <1>0, <1>1, <1>2, <1>6, <2>1 DEF DataInv, WholeData
  <2>7. QED
    BY <1>5, <2>2, <2>5, <2>6 DEF DecoderInv
<1>8. CASE OnBeginMismatch(d)
  <2>1. /\ d.seg \in Foreign /\ status' = [status EXCEPT ![d.seg] = "DownloadFailed"]
        /\ UNCHANGED cache /\ buffer' = [buffer EXCEPT ![d] = "none"]
    BY <1>8 DEF OnBeginMismatch, SetDownloadFailed
  <2>2. /\ \A s \in Segment : s # d.seg => status'[s] = status[s]
        /\ status'[d.seg] = "DownloadFailed" /\ buffer'[d] = "none"
        /\ \A e \in Decoder : e # d => buffer'[e] = buffer[e]
    BY <1>0, <2>1
  <2>3. InitOK'
    BY <1>1, <1>3, <1>4, <2>2 DEF DecoderInv, InitOK, Active, Decoder
  <2>4. BeginOK'
    <3> SUFFICES ASSUME NEW e \in Decoder, state'[e] = "Begin"
                 PROVE  /\ expect'[e] = "End"
                        /\ e.seg \in Foreign => buffer'[e] = "none" /\ status'[e.seg] = "DownloadFailed"
                        /\ e.seg \notin Foreign => Written(e)' /\ status'[e.seg] = "Loading"
      BY DEF BeginOK
    <3>1. CASE e = d
      BY <1>3, <2>1, <2>2, <3>1
    <3>2. CASE e # d
      <4>1. state[e] = "Begin" /\ e.seg # d.seg /\ e.seg \in Segment
        BY <1>3, <1>4, <3>2 DEF Active, Decoder
      <4>2. Written(e) => Written(e)'
        BY <1>1, <2>1, <2>2, <3>2 DEF Written
      <4>3. QED
        BY <1>3, <2>2, <3>2, <4>1, <4>2 DEF DecoderInv, BeginOK
    <3>3. QED
      BY <3>1, <3>2
  <2>5. DataInv'
    BY <1>0, <1>1, <1>6, <2>1, <2>2 DEF DataInv, WholeData
  <2>6. QED
    BY <1>5, <2>3, <2>4, <2>5 DEF DecoderInv
<1>9. QED
  BY <1>7, <1>8

\* A decoder that gets data puts it where it belongs.
LEMMA FirstData ==
  ASSUME TypeOK, DecoderInv, DataInv, NEW d \in Decoder, OnData(d)
  PROVE  DecoderInv' /\ DataInv'
<1> USE DEF decoderVars, requestVars, ioVars, bounds
<1>0. /\ d.seg \in Segment /\ Chunks \in Nat /\ \A e \in Decoder : e.seg \in Segment
      /\ state \in [Decoder -> {"Free", "Init", "Begin", "End", "Error", "Canceled"}]
      /\ cache \in [Segment -> Content \cup {NoEntry}]
      /\ decoded \in [Decoder -> 0 .. Chunks + 1] /\ offset \in [Decoder -> 0 .. Chunks]
  BY NZBFileAssumption DEF TypeOK, Decoder
<1>1. /\ state[d] \notin {"Free", "Canceled"} /\ expect[d] \in {"End", "Spoiled"}
      /\ decoded[d] <= Chunks /\ decoded' = [decoded EXCEPT ![d] = @ + 1]
      /\ UNCHANGED <<status, state, expect, buffer, request, got>>
  BY DEF OnData, Decoding
<1>2. state[d] = "Begin" /\ expect[d] = "End" /\ Active(d)
  BY <1>0, <1>1 DEF DecoderInv, InitOK, BeginOK, OverOK, Active
<1>3. \A e \in Decoder : e # d /\ Active(e) => e.seg # d.seg
  BY <1>2 DEF DecoderInv, OneActive
<1>4. \/ UNCHANGED <<offset, cache>> /\ (buffer[d] = "none" \/ offset[d] = Chunks)
      \/ /\ buffer[d] # "none" /\ offset[d] # Chunks
         /\ offset' = [offset EXCEPT ![d] = @ + 1]
         /\ cache' = IF buffer[d] = "cache"
                     THEN [cache EXCEPT ![d.seg][offset[d] + 1] =
                                        IF expect[d] = "End" THEN decoded[d] + 1 ELSE 0]
                     ELSE cache
  BY DEF OnData
<1>5. /\ \A e \in Decoder : e # d => decoded'[e] = decoded[e] /\ offset'[e] = offset[e]
      /\ \A s \in Segment : s # d.seg => cache'[s] = cache[s]
  BY <1>0, <1>1, <1>4
<1>6. InitOK' /\ OverOK' /\ OneActive'
  BY <1>1, <1>2, <1>5 DEF DecoderInv, InitOK, OverOK, OneActive, Active
<1>7. CASE d.seg \in Foreign
  <2>1. buffer[d] = "none" /\ UNCHANGED <<offset, cache>>
    BY <1>2, <1>4, <1>7 DEF DecoderInv, BeginOK
  <2>2. \A e \in Decoder : e # d /\ Written(e) => Written(e)'
    BY <1>1, <1>5, <2>1 DEF Written
  <2>3. BeginOK'
    BY <1>1, <1>7, <2>1, <2>2 DEF DecoderInv, BeginOK
  <2>4. DataInv'
    BY <1>1, <2>1 DEF DataInv, WholeData
  <2>5. QED
    BY <1>6, <2>3, <2>4 DEF DecoderInv
<1>8. CASE d.seg \notin Foreign
  <2>1. Written(d) /\ status[d.seg] = "Loading"
    BY <1>2, <1>8 DEF DecoderInv, BeginOK
  <2>2. buffer[d] = "cache" /\ decoded[d] = offset[d]
    BY <1>0, <1>1, <2>1 DEF Written
  <2>3. Written(d)'
    <3>1. CASE offset[d] = Chunks
      <4>1. UNCHANGED <<offset, cache>> /\ decoded'[d] = Chunks + 1
        BY <1>0, <1>1, <1>4, <2>2, <3>1
      <4>2. QED
        BY <1>1, <2>1, <3>1, <4>1 DEF Written
    <3>2. CASE offset[d] # Chunks
      <4>1. cache[d.seg] = [i \in 1 .. Chunks |-> IF i <= offset[d] THEN i ELSE 0]
        BY <2>1 DEF Written
      <4>2. /\ offset'[d] = offset[d] + 1 /\ decoded'[d] = decoded[d] + 1
            /\ cache' = [cache EXCEPT ![d.seg] = [cache[d.seg] EXCEPT ![offset[d] + 1] = offset[d] + 1]]
        BY <1>0, <1>1, <1>2, <1>4, <2>2, <3>2
      <4>3. offset[d] \in 0 .. Chunks - 1
        BY <1>0, <3>2
      <4>4. [cache[d.seg] EXCEPT ![offset[d] + 1] = offset[d] + 1]
              = [i \in 1 .. Chunks |-> IF i <= offset[d] + 1 THEN i ELSE 0]
        <5>1. \A i \in 1 .. Chunks :
                (IF i = offset[d] + 1 THEN offset[d] + 1 ELSE IF i <= offset[d] THEN i ELSE 0)
                  = (IF i <= offset[d] + 1 THEN i ELSE 0)
          BY <1>0, <4>3
        <5>2. [cache[d.seg] EXCEPT ![offset[d] + 1] = offset[d] + 1]
                = [i \in 1 .. Chunks |-> IF i = offset[d] + 1 THEN offset[d] + 1
                                        ELSE IF i <= offset[d] THEN i ELSE 0]
          BY <4>1
        <5>3. QED
          BY <5>1, <5>2
      <4>5. cache'[d.seg] = [i \in 1 .. Chunks |-> IF i <= offset'[d] THEN i ELSE 0]
        BY <1>0, <4>2, <4>4
      <4>6. QED
        BY <1>1, <2>2, <4>2, <4>5 DEF Written
    <3>3. QED
      BY <3>1, <3>2
  <2>4. \A e \in Decoder : e # d /\ Active(e) /\ Written(e) => Written(e)'
    BY <1>0, <1>1, <1>3, <1>5 DEF Written
  <2>5. BeginOK'
    BY <1>1, <1>8, <2>1, <2>3, <2>4 DEF DecoderInv, BeginOK, Active
  <2>6. DataInv'
    BY <1>1, <1>5, <1>8, <2>1, NZBFileAssumption DEF DataInv, WholeData
  <2>7. QED
    BY <1>6, <2>5, <2>6 DEF DecoderInv
<1>9. QED
  BY <1>7, <1>8

\* A decoder that ends, fails or is destroyed.
LEMMA FirstEnds ==
  ASSUME TypeOK, DecoderInv, DataInv, NEW d \in Decoder,
         OnEndSegment(d) \/ OnError(d) \/ Destroy(d)
  PROVE  DecoderInv' /\ DataInv'
<1> USE DEF decoderVars, requestVars, ioVars, bounds
<1>0. /\ d.seg \in Segment /\ Chunks \in Nat /\ \A e \in Decoder : e.seg \in Segment
      /\ state \in [Decoder -> {"Free", "Init", "Begin", "End", "Error", "Canceled"}]
      /\ status \in [Segment -> {"None", "Loading", "HasData", "DownloadFailed"}]
      /\ expect \in [Decoder -> {"Begin", "End", "Done", "Spoiled", "Error"}]
      /\ buffer \in [Decoder -> {"none", "cache", "replaced"}]
      /\ decoded \in [Decoder -> 0 .. Chunks + 1] /\ offset \in [Decoder -> 0 .. Chunks]
  BY NZBFileAssumption DEF TypeOK, Decoder
<1>1. ASSUME UNCHANGED <<cache, decoded, offset, request, got>>,
             \A e \in Decoder : e # d =>
               state'[e] = state[e] /\ expect'[e] = expect[e] /\ buffer'[e] = buffer[e],
             state'[d] = "Free" \/ (state'[d] \in {"End", "Error"} /\ expect'[d] \in {"Done", "Error"}),
             \A s \in Segment : s # d.seg => status'[s] = status[s],
             UNCHANGED status \/ Active(d),
             \/ status'[d.seg] = status[d.seg]
             \/ status'[d.seg] = "DownloadFailed"
             \/ status'[d.seg] = "HasData" /\ cache[d.seg] \in {NoEntry, Whole}
      PROVE  DecoderInv' /\ DataInv'
  <2>1. \A e \in Decoder : Active(e)' =>
          e # d /\ Active(e) /\ state'[e] = state[e] /\ status'[e.seg] = status[e.seg]
    <3> SUFFICES ASSUME NEW e \in Decoder, Active(e)'
                 PROVE  e # d /\ Active(e) /\ state'[e] = state[e] /\ status'[e.seg] = status[e.seg]
      OBVIOUS
    <3>1. e # d
      BY <1>1 DEF Active
    <3>2. state'[e] = state[e] /\ Active(e)
      BY <1>1, <3>1 DEF Active
    <3>3. Active(d) => e.seg # d.seg
      BY <3>1, <3>2 DEF DecoderInv, OneActive
    <3>4. QED
      BY <1>0, <1>1, <3>1, <3>2, <3>3
  <2>2. \A e \in Decoder : e # d /\ Written(e) => Written(e)'
    BY <1>1 DEF Written
  <2>3. InitOK' /\ BeginOK'
    <3>1. \A e \in Decoder : state'[e] \in {"Init", "Begin"} => Active(e)'
      BY DEF Active
    <3>2. InitOK'
      BY <1>1, <2>1, <3>1 DEF DecoderInv, InitOK
    <3>3. BeginOK'
      BY <1>1, <2>1, <2>2, <3>1 DEF DecoderInv, BeginOK
    <3>4. QED
      BY <3>2, <3>3
  <2>4. OverOK'
    BY <1>1 DEF DecoderInv, OverOK
  <2>5. OneActive'
    BY <2>1 DEF DecoderInv, OneActive
  <2>6. DataInv'
    <3>1. \A s \in Segment : status'[s] = "HasData" => cache[s] \in {NoEntry, Whole}
      BY <1>0, <1>1 DEF DataInv
    <3>2. QED
      BY <1>1, <3>1 DEF DataInv, WholeData
  <2>7. QED
    BY <2>3, <2>4, <2>5, <2>6 DEF DecoderInv
<1>2. CASE OnEndSegment(d)
  <2>1. /\ state[d] \notin {"Free", "Canceled"} /\ expect[d] = "End" /\ decoded[d] = Chunks
        /\ state' = [state EXCEPT ![d] = "End"] /\ expect' = [expect EXCEPT ![d] = "Done"]
        /\ buffer' = [buffer EXCEPT ![d] = "none"]
        /\ status' = [status EXCEPT ![d.seg] = "HasData"]
        /\ UNCHANGED <<cache, decoded, offset, request, got>>
    BY <1>2 DEF OnEndSegment, Decoding, Complete, SetSegmentFinished
  <2>2. state[d] = "Begin" /\ Active(d)
    BY <1>0, <2>1 DEF DecoderInv, InitOK, OverOK, Active
  <2>3. cache[d.seg] \in {NoEntry, Whole}
    <3>1. CASE d.seg \in Foreign
      BY <3>1 DEF DataInv
    <3>2. CASE d.seg \notin Foreign
      <4>1. Written(d)
        BY <2>2, <3>2 DEF DecoderInv, BeginOK
      <4>2. offset[d] = Chunks
        BY <1>0, <2>1, <4>1 DEF Written
      <4>3. cache[d.seg] = [i \in 1 .. Chunks |-> IF i <= Chunks THEN i ELSE 0]
        BY <4>1, <4>2 DEF Written
      <4>4. QED
        BY <1>0, <4>3 DEF Whole
    <3>3. QED
      BY <3>1, <3>2
  <2>4. /\ state'[d] = "End" /\ expect'[d] = "Done"
        /\ \A e \in Decoder : e # d =>
             state'[e] = state[e] /\ expect'[e] = expect[e] /\ buffer'[e] = buffer[e]
        /\ status'[d.seg] = "HasData" /\ \A s \in Segment : s # d.seg => status'[s] = status[s]
    BY <1>0, <2>1
  <2>5. QED
    BY <1>1, <2>1, <2>2, <2>3, <2>4
<1>3. CASE OnError(d)
  <2>1. /\ state[d] \notin {"Free", "Canceled"} /\ expect[d] \in {"Begin", "End", "Spoiled"}
        /\ state' = [state EXCEPT ![d] = "Error"] /\ expect' = [expect EXCEPT ![d] = "Error"]
        /\ buffer' = [buffer EXCEPT ![d] = "none"]
        /\ status' = [status EXCEPT ![d.seg] = "DownloadFailed"]
        /\ UNCHANGED <<cache, decoded, offset, request, got>>
    BY <1>3 DEF OnError, Decoding, SetDownloadFailed
  <2>2. Active(d)
    BY <1>0, <2>1 DEF DecoderInv, OverOK, Active
  <2>3. /\ state'[d] = "Error" /\ expect'[d] = "Error"
        /\ \A e \in Decoder : e # d =>
             state'[e] = state[e] /\ expect'[e] = expect[e] /\ buffer'[e] = buffer[e]
        /\ status'[d.seg] = "DownloadFailed" /\ \A s \in Segment : s # d.seg => status'[s] = status[s]
    BY <1>0, <2>1
  <2>4. QED
    BY <1>1, <2>1, <2>2, <2>3
<1>4. CASE Destroy(d)
  <2>1. /\ state' = [state EXCEPT ![d] = "Free"] /\ buffer' = [buffer EXCEPT ![d] = "none"]
        /\ \/ Active(d) /\ status' = [status EXCEPT ![d.seg] = "DownloadFailed"]
           \/ UNCHANGED status
        /\ UNCHANGED <<cache, expect, decoded, offset, request, got>>
    BY <1>4 DEF Destroy, SetDownloadFailed, Unfinished, Active
  <2>2. /\ state'[d] = "Free"
        /\ \A e \in Decoder : e # d =>
             state'[e] = state[e] /\ expect'[e] = expect[e] /\ buffer'[e] = buffer[e]
        /\ status'[d.seg] \in {"DownloadFailed", status[d.seg]}
        /\ \A s \in Segment : s # d.seg => status'[s] = status[s]
    BY <1>0, <2>1
  <2>3. QED
    BY <1>1, <2>1, <2>2
<1>5. QED
  BY <1>2, <1>3, <1>4

LEMMA FirstNext == TypeInv /\ WaitInv /\ FirstTry /\ [Next]_vars => FirstTry'
<1> SUFFICES ASSUME TypeInv, WaitInv, FirstTry, [Next]_vars, retries' = 0
             PROVE  DecoderInv' /\ DataInv'
  BY DEF FirstTry
<1> USE DEF decoderVars, requestVars, ioVars, bounds
<1>0. TypeOK /\ retries \in Nat
  BY NZBFileAssumption DEF TypeInv, TypeOK
<1>1. \A d \in Decoder : ~ OnErrorRetry(d) /\ ~ OnErrorCancel(d)
  BY <1>0 DEF OnErrorRetry, OnErrorCancel
<1>2. retries = 0
  <2>1. CASE Next
    BY <1>1, <2>1 DEF Next, ReaderStep, ProcessStep, DecoderStep, AsyncGetFilename,
      AsyncGetFileData, GetFileData, Cancel, Evict, Preload, ProcessBegin, ProcessRequest,
      ProcessEnd, OnBeginSegment, OnBeginMismatch, OnData, OnEndSegment, OnError, Destroy
  <2>2. CASE UNCHANGED vars
    BY <2>2 DEF vars
  <2>3. QED
    BY <2>1, <2>2
<1>3. DecoderInv /\ DataInv
  BY <1>2 DEF FirstTry
<1>4. CASE Next
  BY <1>0, <1>1, <1>3, <1>4, FirstReads, FirstRequests, FirstBegins, FirstData, FirstEnds
  DEF Next, ReaderStep, ProcessStep, DecoderStep
<1>5. CASE UNCHANGED vars
  BY <1>3, <1>5 DEF vars, DecoderInv, InitOK, BeginOK, OverOK, OneActive, Written, Active, DataInv,
                    WholeData
<1>6. QED
  BY <1>4, <1>5

\* Until an article breaks off and is asked for again, a read that ends without
\* an error got the decoded bytes of every segment of its range: whatever was
\* evicted and downloaded again, refused or canceled meanwhile, and however
\* many decoders a segment has had.
THEOREM ReadsGetData == Spec => []RightData
<1>1. Init => FirstTry
  BY NZBFileAssumption DEF Init, FirstTry, DecoderInv, InitOK, BeginOK, OverOK, OneActive, Active,
                           DataInv, WholeData
<1>2. FirstTry => RightData
  BY DEF FirstTry, DataInv, RightData
<1>3. QED
  BY <1>1, <1>2, FirstNext, TypeAlways, WaitAlways, PTL DEF Spec

-----------------------------------------------------------------------------
(* What every document that mounts gives to the files: the assumption on   *)
(* NoArticle above is justified.                                           *)

\* The files that loadnzb makes of a document, or that a program hands over.
Files(files) == files \in Seq(File)

\* The number of an element of a file is among the numbers.
LEMMA NumberOf ==
  ASSUME NEW files, Files(files), NEW i \in DOMAIN files,
         NEW j \in DOMAIN files[i].segments
  PROVE  /\ files[i].segments[j].number \in Numbers(files)
         /\ files[i].segments[j].number \in Nat
<1>1. files[i] \in File
  BY DEF Files
<1>2. files[i].segments[j] \in SegmentElement
  BY <1>1 DEF File
<1>3. files[i].segments[j].number \in NumbersOf(files[i])
  BY DEF NumbersOf
<1> QED
  BY <1>2, <1>3 DEF Numbers, SegmentElement

\* The numbers are natural numbers.
LEMMA NumbersInNat ==
  ASSUME NEW files, Files(files)
  PROVE  Numbers(files) \subseteq Nat
<1> SUFFICES ASSUME NEW n \in Numbers(files) PROVE n \in Nat
  OBVIOUS
<1>1. PICK i \in DOMAIN files : n \in NumbersOf(files[i])
  BY DEF Numbers
<1>2. PICK j \in DOMAIN files[i].segments : n = files[i].segments[j].number
  BY <1>1 DEF NumbersOf
<1> QED
  BY <1>2, NumberOf

\* The numbers of a valid nzb are 1 .. n without a gap, though Validate only
\* compares the largest with how many there are.
THEOREM ValidNumbers ==
  ASSUME NEW files, Files(files), Validate(files)
  PROVE  Numbers(files) = 1 .. Cardinality(Numbers(files))
<1> DEFINE N == Numbers(files)
           size == Cardinality(N)
<1>1. size \in Nat /\ N \subseteq 1 .. size
  BY NumbersInNat DEF Validate
<1>2. IsFiniteSet(1 .. size) /\ Cardinality(1 .. size) = size
  <2>1. 1 \in Int /\ size \in Int
    BY <1>1
  <2>2. Cardinality(1 .. size) = IF 1 > size THEN 0 ELSE size - 1 + 1
    BY <2>1, FS_Interval
  <2> QED
    BY <1>1, <2>1, <2>2, FS_Interval
<1> QED
  BY <1>1, <1>2, FS_Subset

\* m_segments[s.number-1] is inside of the vector: the constructor of NZBFile
\* goes on with a number it has just reported as invalid.
THEOREM InBounds ==
  ASSUME NEW files, Files(files), Validate(files),
         NEW i \in DOMAIN files, NEW j \in Kept(files[i])
  PROVE  files[i].segments[j].number - 1 \in Indexes(files[i])
<1> DEFINE n == files[i].segments[j].number
<1>1. n \in Nat /\ n \in Numbers(files)
  BY NumberOf DEF Kept
<1>2. 1 <= n
  BY <1>1 DEF Validate
<1>3. n - 1 \in 0 .. n - 1
  BY <1>1, <1>2
<1> QED
  BY <1>3 DEF Indexes

\* Behind every missing segment is one with an article: the last one has some,
\* which NZBFile assumes of NoArticle.
THEOREM LastHasArticle ==
  ASSUME NEW files, Files(files), Validate(files),
         NEW i \in DOMAIN files, NEW s \in Missing(files[i])
  PROVE  \E o \in Indexes(files[i]) \ Missing(files[i]) : s < o
<1> DEFINE f == files[i]
<1>1. PICK j \in Kept(f) : s \in 0 .. f.segments[j].number - 1
  BY DEF Missing, Indexes
<1> DEFINE o == f.segments[j].number - 1
<1>2. f.segments[j].number \in Nat
  BY NumberOf DEF Kept
<1>3. o \in Indexes(f)
  BY InBounds
<1>4. MsgIDs(f, o) # {}
  BY DEF MsgIDs
<1>5. s # o
  BY <1>4 DEF Missing
<1> QED
  BY <1>1, <1>2, <1>3, <1>4, <1>5 DEF Missing
=============================================================================
