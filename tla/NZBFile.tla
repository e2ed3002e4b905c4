------------------------------- MODULE NZBFile -------------------------------
(***************************************************************************)
(* One file of a mounted NZB (NZBFile.cpp): its segments, the article      *)
(* decoders that fill them, and the reads that wait for them.              *)
(*                                                                         *)
(* Threads.  The io thread runs the callbacks of the decoders and Preload; *)
(* the threads of the file system call GetFileData and block in m_cond;    *)
(* the archive readers call AsyncGetFileData from any thread.  m_mutex     *)
(* guards the segments and m_data_requests; a step of this module is what  *)
(* a thread does under the lock, and  next # 0  says that the io thread    *)
(* holds it in ProcessAsyncDataRequests.                                   *)
(*                                                                         *)
(* A segment is Chunks flushes of the yEnc decoder long.  The content of a *)
(* cached segment is the sequence of chunks in it, 0 for what malloc left. *)
(* A decoder belongs to a command of NewsClientCache, which delivers an    *)
(* article, starts over, or is released (see CommandService).              *)
(***************************************************************************)
EXTENDS Naturals, Sequences, SequencesExt, FiniteSets

CONSTANTS
  Segment,      \* the indexes of m_segments
  NoArticle,    \* segments without message-ID in the NZB (NZBLoader: one that has
                \* an article follows)
  Foreign,      \* segments whose article is part of another file; the one
                \* that gives the file its name is not
  Misplaced,    \* segments whose =ypart begins before the end of each segment
                \* before them; the others begin where the last one ends or behind
  Chunks,       \* flushes per segment
  Gen,          \* bound: decoders of one segment that coexist
  Async,        \* the calls of AsyncGetFileData
  Sync,         \* the calls of GetFileData
  Reads,        \* Reads[r]: the segments read by call r (FindSegmentIdxRange)
  WithCancel,   \* the calls that pass the cancel signal of the mount
  MayCancel,    \* whether the mount may be canceled
  MaxRetries,   \* bound: articles that break off and start over
  MaxEvictions  \* bound: segments that other files push out of the cache

Request == Async \cup Sync

ASSUME NZBFileAssumption ==
  /\ Segment \subseteq Nat
  /\ NoArticle \subseteq Segment
  /\ \A s \in NoArticle : \E o \in Segment \ NoArticle : s < o
  /\ Foreign \subseteq Segment \ NoArticle
  /\ \A s \in Foreign : \E o \in Segment \ (NoArticle \cup Foreign) : o < s
  /\ Misplaced \subseteq Segment
  /\ Chunks \in Nat \ {0}
  /\ Gen \subseteq Nat
  /\ Async \cap Sync = {}
  /\ Reads \in [Request -> SUBSET Segment]
  /\ WithCancel \subseteq Async
  /\ MayCancel \in BOOLEAN
  /\ MaxRetries \in Nat
  /\ MaxEvictions \in Nat

\* A MyArticleDecoder and the MyDecoder and yDecoder it has.
Decoder == [seg : Segment, gen : Gen]

\* What a CachedSegment has, and a cache without one.
Content == [1 .. Chunks -> 0 .. Chunks]
Malloced == [i \in 1 .. Chunks |-> 0]
Whole == [i \in 1 .. Chunks |-> i]
NoEntry == <<>>

VARIABLES
  status,      \* SegmentInfo::status
  cache,       \* the file's entries of SegmentCache::m_segments
  state,       \* MyDecoder::m_state, "Free" for a decoder that does not exist
  expect,      \* yDecoder::m_decodingState: "Begin", "End" or "Error"; "Done" after
               \* =yend, "Spoiled" when another article follows in state "End"
  decoded,     \* chunks decoded since yDecoder::Reset, up to Chunks + 1
  offset,      \* MyDecoder::m_offset
  buffer,      \* MyDecoder::m_cached_segment: "none", the entry in the "cache"
               \* or one that was "replaced" there
  linked,      \* decoders connected to the cancel signal
  filename,    \* the request AsyncGetFilename made, and its answer
  request,     \* where each read is
  got,         \* what each read copied: AsyncDataRequest::done, with the content
  dataRequests,\* m_data_requests
  settle,      \* what the io thread still does of SetSegmentFinished or
               \* SetDownloadFailed
  next,        \* its iterator in ProcessAsyncDataRequests
  canceled,    \* the cancel signal was raised
  retries, evictions

decoderVars == <<state, expect, decoded, offset, buffer, linked>>
requestVars == <<request, got, dataRequests>>
ioVars == <<settle, next>>
bounds == <<retries, evictions>>
vars == <<status, cache, decoderVars, filename, requestVars, ioVars, canceled, bounds>>

-----------------------------------------------------------------------------

Unlocked == next = 0
IoIdle == settle = "no" /\ next = 0

Of(s) == {d \in Decoder : d.seg = s}

\* The decoder ReadSegment makes, at most one.
NewDecoder(s) ==
  {d \in Of(s) : /\ state[d] = "Free"
                 /\ \A o \in Of(s) : state[o] = "Free" => d.gen <= o.gen}

\* ReadSegment for each segment of S, and no download for those of F; c says
\* whether it passes the signal.
ReadSegments(S, F, c) ==
  LET D == UNION {NewDecoder(s) : s \in S} IN
  /\ \A s \in S : NewDecoder(s) # {}
  /\ status' = [s \in Segment |-> IF s \in S THEN "Loading"
                               ELSE IF s \in F THEN "DownloadFailed" ELSE status[s]]
  /\ state' = [d \in Decoder |-> IF d \in D THEN "Init" ELSE state[d]]
  /\ expect' = [d \in Decoder |-> IF d \in D THEN "Begin" ELSE expect[d]]
  /\ decoded' = [d \in Decoder |-> IF d \in D THEN 0 ELSE decoded[d]]
  /\ offset' = [d \in Decoder |-> IF d \in D THEN 0 ELSE offset[d]]
  /\ buffer' = [d \in Decoder |-> IF d \in D THEN "none" ELSE buffer[d]]
  /\ linked' = IF c THEN linked \cup D ELSE linked \ D

-----------------------------------------------------------------------------
(* TryGetData.                                                             *)

Done(r) == {s \in Reads[r] : got[r][s] # NoEntry}

\* "Segment address order mismatch": behind another one with data of the range.
OutOfOrder(r) ==
  {s \in Reads[r] \cap Misplaced :
     status[s] = "HasData" /\ \E o \in Reads[r] : o < s /\ status[o] = "HasData"}

\* Segments with data that call r has, or finds in the cache.
Available(r) ==
  {s \in Reads[r] \ OutOfOrder(r) :
     status[s] = "HasData" /\ (s \in Done(r) \/ cache[s] # NoEntry)}

\* Segments to read: not read yet, or gone from the cache.
Wanting(r) ==
  {s \in Reads[r] \ OutOfOrder(r) :
     status[s] = "None" \/ (status[s] = "HasData" /\ s \notin Available(r))}

Failing(r) ==
  \/ \E s \in Reads[r] : status[s] = "DownloadFailed"
  \/ Wanting(r) \cap NoArticle # {}
  \/ OutOfOrder(r) # {}

Ready(r) ==
  \A s \in Reads[r] : status[s] = "DownloadFailed" \/ s \in Available(r) \cup OutOfOrder(r)

\* Mutant: segments that are loading are copied too.
TryGetData_loading(r, c) ==
  /\ got' = [got EXCEPT ![r] =
       [s \in Segment |-> IF s \in Reads[r] \ Done(r) /\ cache[s] # NoEntry
                          THEN cache[s] ELSE @[s]]]
  /\ ReadSegments(Wanting(r) \ NoArticle, {}, c)

TryGetData(r, c) ==
  /\ got' = [got EXCEPT ![r] =
       [s \in Segment |-> IF s \in Available(r) \ Done(r) THEN cache[s] ELSE @[s]]]
  /\ ReadSegments(Wanting(r) \ NoArticle, {}, c)

\* GetFileData and AsyncGetFileData only tell a caller that data is missing.
Outcome(r) == IF Failing(r) THEN "error" ELSE "ok"

-----------------------------------------------------------------------------
(* Calls from other threads.                                               *)

AsyncGetFilename ==
  /\ filename = "none"
  /\ filename' = "asked"
  /\ UNCHANGED <<status, cache, decoderVars, requestVars, ioVars, canceled, bounds>>

\* The file is registered, and so read, when it has a name.
AsyncGetFileData(r) ==
  /\ filename = "named" /\ request[r] = "new" /\ Unlocked
  /\ TryGetData(r, r \in WithCancel)
  /\ IF Ready(r) \/ Failing(r)
     THEN /\ request' = [request EXCEPT ![r] = Outcome(r)]
          /\ UNCHANGED dataRequests
     ELSE /\ request' = [request EXCEPT ![r] = "pending"]
          /\ dataRequests' = Append(dataRequests, r)
  /\ UNCHANGED <<cache, filename, ioVars, canceled, bounds>>

\* GetFileData: the loop around m_cond.wait.
GetFileData(r) ==
  /\ filename = "named" /\ request[r] \in {"new", "awake"} /\ Unlocked
  /\ TryGetData(r, FALSE)
  /\ request' = [request EXCEPT ![r] =
                   IF Ready(r) \/ Failing(r) THEN Outcome(r) ELSE "waiting"]
  /\ UNCHANGED <<cache, filename, dataRequests, ioVars, canceled, bounds>>

\* What is left of the requests s.
Without(s, canceling) ==
  LET left[i \in 0 .. Len(s)] ==
        IF i = 0 THEN <<>>
        ELSE IF s[i] \in canceling THEN left[i - 1] ELSE Append(left[i - 1], s[i])
  IN left[Len(s)]

\* The signal is raised: CancelAsyncGetFilename, CancelAsyncGetFileData and the
\* slots of the decoders.
Cancel ==
  /\ MayCancel /\ ~ canceled /\ Unlocked
  /\ canceled' = TRUE
  /\ filename' = IF filename = "asked" THEN "canceled" ELSE filename
  /\ request' = [r \in Request |-> IF request[r] = "pending" /\ r \in WithCancel
                                   THEN "canceled" ELSE request[r]]
  /\ dataRequests' = Without(dataRequests, WithCancel)
  /\ state' = [d \in Decoder |-> IF d \in linked /\ state[d] # "Free"
                                 THEN "Canceled" ELSE state[d]]
  /\ UNCHANGED <<status, cache, expect, decoded, offset, buffer, linked, got, ioVars, bounds>>

\* SegmentCache::Create, called for another segment or another file, takes a
\* segment that no decoder holds.
Evict(s) ==
  /\ cache[s] # NoEntry
  /\ \A d \in Of(s) : buffer[d] # "cache"
  /\ evictions < MaxEvictions
  /\ evictions' = evictions + 1
  /\ cache' = [cache EXCEPT ![s] = NoEntry]
  /\ UNCHANGED <<status, decoderVars, filename, requestVars, ioVars, canceled, retries>>

-----------------------------------------------------------------------------
(* The io thread.                                                          *)

\* The first segment with a message-ID, and the first one without.
Firsts(S) == {s \in S : \A o \in S : s <= o}

\* Preload, which AsyncGetFilename posted.
Preload ==
  LET first == Firsts(Segment \ NoArticle) IN
  /\ IoIdle
  /\ filename # "none" /\ first # {} /\ \A s \in first : status[s] = "None"
  /\ ReadSegments(first, Firsts(NoArticle), TRUE)
  /\ UNCHANGED <<cache, filename, requestVars, ioVars, canceled, bounds>>

\* A line is decoded unless the decoder was canceled.
Decoding(d, e) ==
  /\ IoIdle
  /\ state[d] \notin {"Free", "Canceled"}
  /\ expect[d] = e

\* SetFileInfo: the first header gives the file its name.
SetFileInfo == filename' = IF filename = "asked" THEN "named" ELSE filename

\* Mutant: the readers are not notified.
Notified_nobody == request

\* SetFileInfo and SetSegmentFinished notify the readers.
Notified == [r \in Request |-> IF request[r] = "waiting" THEN "awake" ELSE request[r]]

\* SetSegmentFinished, up to the end of the locked part.
SetSegmentFinished(s) ==
  /\ status' = [status EXCEPT ![s] = "HasData"]
  /\ settle' = "finished"

\* Mutant: m_data_requests are not processed.
SetDownloadFailed_quiet(s) ==
  /\ status' = [status EXCEPT ![s] = "DownloadFailed"]
  /\ UNCHANGED settle

\* SetDownloadFailed, up to the end of the locked part.
SetDownloadFailed(s) ==
  /\ status' = [status EXCEPT ![s] = "DownloadFailed"]
  /\ settle' = "failed"

\* OnBeginSegment: Create puts a new segment into the cache.
OnBeginSegment(d) ==
  /\ Decoding(d, "Begin")
  /\ d.seg \notin Foreign
  /\ state' = [state EXCEPT ![d] = "Begin"]
  /\ expect' = [expect EXCEPT ![d] = "End"]
  /\ SetFileInfo
  /\ request' = Notified
  /\ cache' = [cache EXCEPT ![d.seg] = Malloced]
  /\ buffer' = [o \in Decoder |-> IF o = d THEN "cache"
                                  ELSE IF o.seg = d.seg /\ buffer[o] = "cache" THEN "replaced"
                                  ELSE buffer[o]]
  /\ UNCHANGED <<status, decoded, offset, linked, got, dataRequests, ioVars, canceled, bounds>>

\* OnBeginSegment with another name or size than the file has.
OnBeginMismatch(d) ==
  /\ Decoding(d, "Begin")
  /\ d.seg \in Foreign
  /\ filename = "named"
  /\ state' = [state EXCEPT ![d] = "Begin"]
  /\ expect' = [expect EXCEPT ![d] = "End"]
  /\ buffer' = [buffer EXCEPT ![d] = "none"]
  /\ SetDownloadFailed(d.seg)
  /\ request' = Notified
  /\ UNCHANGED <<cache, decoded, offset, linked, filename, got, dataRequests, next, canceled, bounds>>

\* Mutant: data that does not fit is written.
OnData_unclamped(d) ==
  /\ Decoding(d, "End")
  /\ decoded[d] <= Chunks
  /\ decoded' = [decoded EXCEPT ![d] = @ + 1]
  /\ offset' = [offset EXCEPT ![d] = @ + 1]
  /\ UNCHANGED <<status, cache, state, expect, buffer, linked, filename, requestVars, ioVars,
                 canceled, bounds>>

\* OnData: m_offset is where the next chunk goes, what does not fit is ignored.
OnData(d) ==
  /\ Decoding(d, "End") \/ Decoding(d, "Spoiled")
  /\ decoded[d] <= Chunks
  /\ decoded' = [decoded EXCEPT ![d] = @ + 1]
  /\ IF buffer[d] = "none" \/ offset[d] = Chunks THEN UNCHANGED <<offset, cache>>
     ELSE /\ offset' = [offset EXCEPT ![d] = @ + 1]
          /\ cache' = IF buffer[d] = "cache"
                      THEN [cache EXCEPT ![d.seg][offset[d] + 1] =
                                         IF expect[d] = "End" THEN decoded[d] + 1 ELSE 0]
                      ELSE cache
  /\ UNCHANGED <<status, state, expect, buffer, linked, filename, requestVars, ioVars,
                 canceled, bounds>>

\* =yend agrees with the number of decoded bytes.
Complete(d) == decoded[d] = Chunks

OnEndSegment(d) ==
  /\ Decoding(d, "End") /\ Complete(d)
  /\ state' = [state EXCEPT ![d] = "End"]
  /\ expect' = [expect EXCEPT ![d] = "Done"]
  /\ buffer' = [buffer EXCEPT ![d] = "none"]
  /\ SetSegmentFinished(d.seg)
  /\ UNCHANGED <<cache, decoded, offset, linked, filename, requestVars, next, canceled, bounds>>

\* OnError: the yEnc data is bad.
OnError(d) ==
  /\ \E e \in {"Begin", "End", "Spoiled"} : Decoding(d, e)
  /\ state' = [state EXCEPT ![d] = "Error"]
  /\ expect' = [expect EXCEPT ![d] = "Error"]
  /\ buffer' = [buffer EXCEPT ![d] = "none"]
  /\ SetDownloadFailed(d.seg)
  /\ UNCHANGED <<cache, decoded, offset, linked, filename, requestVars, next, canceled, bounds>>

\* OnErrorRetry: the article starts over, on this connection or another.
OnErrorRetry(d) ==
  /\ IoIdle /\ state[d] # "Free"
  /\ retries < MaxRetries
  /\ retries' = retries + 1
  /\ expect' = [expect EXCEPT ![d] = "Begin"]
  /\ decoded' = [decoded EXCEPT ![d] = 0]
  /\ UNCHANGED <<status, cache, state, offset, buffer, linked, filename, requestVars, ioVars,
                 canceled, evictions>>

\* OnErrorCancel: the segment failed, but the command goes to another server
\* and the decoder, which is not reset, gets an article from its start.
OnErrorCancel(d) ==
  /\ IoIdle /\ state[d] # "Free"
  /\ retries < MaxRetries
  /\ retries' = retries + 1
  /\ expect' = [expect EXCEPT ![d] = CASE @ = "End"  -> "Spoiled"
                                        [] @ = "Done" -> "Begin"
                                        [] OTHER      -> @]
  /\ decoded' = [decoded EXCEPT ![d] = IF expect[d] = "Done" THEN Chunks + 1 ELSE @]
  /\ SetDownloadFailed(d.seg)
  /\ UNCHANGED <<cache, state, offset, buffer, linked, filename, requestVars, next,
                 canceled, evictions>>

\* Mutants: the segment is left as it is, always or after =ybegin.
Unfinished_none(d) == FALSE
Unfinished_init(d) == state[d] = "Init"

\* An article that ended without =yend, or never came.
Unfinished(d) == state[d] \in {"Init", "Begin"}

\* ~MyArticleDecoder: the command was released.
Destroy(d) ==
  /\ IoIdle /\ state[d] # "Free"
  /\ state' = [state EXCEPT ![d] = "Free"]
  /\ buffer' = [buffer EXCEPT ![d] = "none"]
  /\ IF Unfinished(d) THEN SetDownloadFailed(d.seg) ELSE UNCHANGED <<status, settle>>
  /\ UNCHANGED <<cache, expect, decoded, offset, linked, filename, requestVars, next, canceled,
                 bounds>>

\* ProcessAsyncDataRequests takes the lock,
ProcessBegin ==
  /\ settle # "no" /\ next = 0
  /\ next' = 1
  /\ UNCHANGED <<status, cache, decoderVars, filename, requestVars, settle, canceled, bounds>>

\* tries the next request,
ProcessRequest(r) ==
  /\ next \in DOMAIN dataRequests /\ r = dataRequests[next]
  /\ TryGetData(r, FALSE)
  /\ IF Ready(r) \/ Failing(r)
     THEN /\ request' = [request EXCEPT ![r] = Outcome(r)]
          /\ dataRequests' = RemoveAt(dataRequests, next)
          /\ UNCHANGED next
     ELSE next' = next + 1 /\ UNCHANGED <<request, dataRequests>>
  /\ UNCHANGED <<cache, filename, settle, canceled, bounds>>

\* and calls the functions of those that are ready.  Then the readers are
\* notified and, after a failure, a file without a name is given up.
ProcessEnd ==
  /\ next > Len(dataRequests)
  /\ next' = 0
  /\ settle' = "no"
  /\ request' = Notified
  /\ filename' = IF settle = "failed" /\ filename = "asked" THEN "failed" ELSE filename
  /\ UNCHANGED <<status, cache, decoderVars, got, dataRequests, canceled, bounds>>

-----------------------------------------------------------------------------

Init ==
  /\ status = [s \in Segment |-> "None"]
  /\ cache = [s \in Segment |-> NoEntry]
  /\ state = [d \in Decoder |-> "Free"]
  /\ expect = [d \in Decoder |-> "Begin"]
  /\ decoded = [d \in Decoder |-> 0]
  /\ offset = [d \in Decoder |-> 0]
  /\ buffer = [d \in Decoder |-> "none"]
  /\ linked = {}
  /\ filename = "none"
  /\ request = [r \in Request |-> "new"]
  /\ got = [r \in Request |-> [s \in Segment |-> NoEntry]]
  /\ dataRequests = <<>>
  /\ settle = "no"
  /\ next = 0
  /\ canceled = FALSE
  /\ retries = 0
  /\ evictions = 0

ReaderStep ==
  \/ AsyncGetFilename
  \/ \E r \in Async : AsyncGetFileData(r)
  \/ \E r \in Sync : GetFileData(r)

ProcessStep == ProcessBegin \/ (\E r \in Async : ProcessRequest(r)) \/ ProcessEnd

DecoderStep ==
  \E d \in Decoder : \/ OnBeginSegment(d)
                     \/ OnBeginMismatch(d)
                     \/ OnData(d)
                     \/ OnEndSegment(d)
                     \/ OnError(d)
                     \/ OnErrorRetry(d)
                     \/ OnErrorCancel(d)
                     \/ Destroy(d)

Next ==
  \/ ReaderStep
  \/ Cancel
  \/ \E s \in Segment : Evict(s)
  \/ Preload
  \/ ProcessStep
  \/ DecoderStep

Spec == Init /\ [][Next]_vars

\* The io thread runs what was posted; a released command is what a decoder
\* gets from NewsClientCache in the end; a reader whose condition variable was
\* notified takes the lock when it is free.
Fairness ==
  /\ WF_vars(Preload)
  /\ WF_vars(ProcessStep)
  /\ \A d \in Decoder : WF_vars(Destroy(d))
  /\ \A r \in Sync : WF_vars(GetFileData(r) /\ request[r] = "awake")

LiveSpec == Spec /\ Fairness

-----------------------------------------------------------------------------
(* Properties.                                                             *)

TypeOK ==
  /\ status \in [Segment -> {"None", "Loading", "HasData", "DownloadFailed"}]
  /\ cache \in [Segment -> Content \cup {NoEntry}]
  /\ state \in [Decoder -> {"Free", "Init", "Begin", "End", "Error", "Canceled"}]
  /\ expect \in [Decoder -> {"Begin", "End", "Done", "Spoiled", "Error"}]
  /\ decoded \in [Decoder -> 0 .. Chunks + 1]
  /\ offset \in [Decoder -> 0 .. Chunks]
  /\ buffer \in [Decoder -> {"none", "cache", "replaced"}]
  /\ linked \subseteq Decoder
  /\ filename \in {"none", "asked", "named", "failed", "canceled"}
  /\ request \in [Request -> {"new", "pending", "waiting", "awake", "ok", "error", "canceled"}]
  /\ got \in [Request -> [Segment -> Content \cup {NoEntry}]]
  /\ dataRequests \in Seq(Async)
  /\ settle \in {"no", "finished", "failed"}
  /\ next \in Nat
  /\ canceled \in BOOLEAN
  /\ retries \in 0 .. MaxRetries
  /\ evictions \in 0 .. MaxEvictions

\* A read that ends without an error got the decoded bytes of every segment of
\* its range, however often it waited, segments were pushed out of the cache
\* and downloaded again, or an older decoder of a segment was still there.
\* RightData is what holds of the code: as long as no article broke off and was
\* asked for again.
WholeData ==
  \A r \in Request : request[r] = "ok" => \A s \in Reads[r] : got[r][s] = Whole

RightData == retries = 0 => WholeData

\* A read only waits while a segment of its range is loading: the end of a
\* download reaches every read that waits for it (m_data_requests, m_cond).
WaitsForLoading ==
  IoIdle => \A r \in Request : request[r] \in {"pending", "waiting"}
                                 => \E s \in Reads[r] : status[s] = "Loading"

\* A segment that is loading has a decoder that will finish it or, when it is
\* destroyed, report that it has no data, unless the mount was canceled.
NoSegmentAbandoned ==
  canceled \/ \A s \in Segment :
    status[s] = "Loading" => \E d \in Of(s) : state[d] \in {"Init", "Begin"}

\* A read that waits ends: its range is complete or one of its segments failed,
\* unless an article of another file answers one or the mount is canceled.
ReadsEnd ==
  \A r \in Request : request[r] \in {"pending", "waiting"}
                       ~> request[r] \in {"ok", "error", "canceled"} \/ canceled

\* A request for the file's name is answered, with the name or with none.
FilenameAnswered == filename = "asked" ~> filename # "asked"
=============================================================================
