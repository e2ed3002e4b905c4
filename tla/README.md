# NZBDrive: specifications of the download engine

NZBDrive mounts NZB files as a file system: an NZB lists the articles of some
Usenet files, and the segments of a file are downloaded when somebody reads it.
These modules specify the part where its difficulty is, `Source/NZBDriveLib`:
commands that move between servers and connections, segments that are decoded
while readers wait for them, a cache everybody shares. `C` below stands for
`src/Source/NZBDriveLib`.

## 1. The system

| Component | State | Operations | Talks to |
|---|---|---|---|
| Command dispatcher `C/NewsClientCache.*` | `m_connections` (clients of each server), `m_connectionsBin`, `m_commandsWaiting`, the commands of each client, failed and timed-out servers of a command | AddServer, RemoveServer, Stop, GetArticleStream, DispatchCommands, ClientDone, StopClient, RestartClient | posts to `m_strand`; runs commands on connections; releases handlers of files |
| NNTP connection `C/NewsClient.*`, commands `C/NewsClient{Command,Connect,ReadArticleStream}.*` | socket, timer, handle count, `Disconnecting`, `TimeoutOccurred` | Run, AsyncWriteRequest, AsyncRead..., OnDone, Disconnect, CloseTimeout | calls `m_done` (ClientDone) and OnStopped of the dispatcher; hands lines to the article handler |
| Socket and rate limiter `C/NewsClientSocket.*` | tokens, paused handler and limit of each socket; the timer | AddRXBytes, AddTokens, InsertTarget, Stop | delays the read handlers of connections |
| File of segments `C/NZBFile.*` | state of each segment, `m_data_requests`, `m_filename_requests`, decoders | Preload, GetFileData (blocking), AsyncGetFileData, AsyncGetFilename, callbacks of the decoders, cancel slots | GetArticleStream; Create and TryGet of the cache; callbacks to archives and mounter |
| yEnc decoder `C/yDecoder.*` | decoding state, bytes decoded, checksum, header info | ReadLine, Reset | calls OnBeginSegment, OnData, OnEndSegment, OnError |
| Segment cache `C/SegmentCache.*` | `m_segments`, `m_fifo_keys` | Create, TryGet; Read and Write of a buffer | shared by all files and threads |
| Multi-part files `C/MultipartFile.*`, `C/SplitFile.*` | parts with offset and size | GetFileData, AsyncGetFileData, Finalize | reads of the parts |
| Archives `C/RARFile.*`, `C/ZIPFile.*` | volumes found so far | AddFile, header parsing, Finalize | reads of NZBFile, registers files |
| Mounter, drive `C/NZBDriveMounter.*`, `C/NZBDriveIMPL.*` | mount states with cancel signals, threads, lifecycle | Start, AddServer, Mount, Unmount, Stop, HeartBeat | everything above |
| Directory tree `C/NZBDirectory.*` | entries under a mutex | RegisterFile, GetFile, Unmount | front ends |
| Loader `C/nzb_fileloader.*` | the document read so far | text of elements and attributes to files with numbered segments | gives the mounter the segments of each file |
| HTTP `C/HTTPDownloader.*` | socket of one download | load the NZB of a URL | the mounter's drive |
| Text, log `C/text_tool.cpp`, `C/Logger.*` | level and output | format, compare, print | used by all |
| Front ends (FUSE, Dokan, GUI, DLL) | open handles, settings | open, read, readdir and getattr of the operating system; Mount, Unmount, Start and Stop for the user | IFile, IDirectory, the drive |

**Threads.** One thread runs `m_io_service`: sockets, timers, the strand of the
dispatcher, decoders, callbacks. One runs events. Readers of the file system
come on threads of their own and block; API callers come on others.

**What is hard.** Completion callbacks that run inline or queued depending on
who holds the strand; objects that are replaced by others with the same ID;
retries on decoders with state; segments that are evicted and loaded again while
somebody waits; cancellation at any time; estimates that are corrected while a
read uses them. `PROJECT.json` lists the hazards one by one with their lines and the
properties about them.

**What makes each part correct.** *Dispatcher*: a command has one owner and is never
lost; a server that refused it is not asked again; a connection's pipeline is
respected; nothing waits without a reason; every posted article ends. *File*: a read that
succeeds has the right bytes of every segment; nobody waits for a download that
is not under way; every read ends. *Cache*: a buffer in use belongs to one
segment. *Rate limiter*: a paused read is resumed. *Connection*: every request ends
in a DoneCode, also under timeouts. *Multi-part files*: readsize is what was
read, each request is answered once. *Lifecycle*: Stop returns; nothing refers
to what Unmount removed.

## 2. Plan

Done, in this order: `CommandService` and `NewsClientCache` with its proofs; `NZBFile` with its proofs;
`SegmentRange` with its proofs; `SegmentCache` with its proofs; `ClientService` and `Connection` with its proofs, the refinement first;
`RateLimiter` with its proofs; `MultipartFile`, `NZBDirectory`, `NZBDriveMounter` and `NZBDriveIMPL` with its proofs; `NZBLoader` with its proofs (in `NZBFile_proofs`).

What is left, most important first:

1. `FileService`, the abstract file (a read ends with the right bytes or with an
   error), and `NZBFile` shown to implement it when no article is retried.
2. The lines of `yDecoder` (escapes at the end of a buffer, sizes, part offsets).
3. `NZBFile` and `NewsClientCache` in one module, with the mutex that is held while
   a command is posted; today it is too large for TLC.

## 3. Modules

How they fit together:

| Module | Uses | Is used by |
|---|---|---|
| CommandService | | NewsClientCache implements it |
| ClientService | | Connection implements it; what NewsClientCache assumes of a client (`Finish`, `CloseTimeout`, `Drain`) |
| NewsClientCache | | its command is released in the end (`PostedEnds`): the fairness of NZBFile |
| NZBLoader | | its theorems are the assumption of NZBFile on `NoArticle`; its operators give the files of the runs |
| NZBFile, SegmentRange | | a read of it ends (`ReadsEnd`): what NZBDriveMounter assumes of the articles |
| SegmentCache | | `OwnBytes`: NZBFile's `Evict` takes no buffer that is held |
| MultipartFile, NZBDirectory | | NZBDriveMounter extends them |
| NZBDriveMounter | MultipartFile, NZBDirectory | NZBDriveIMPL extends it |
| RateLimiter | | delays the reads of Connection; nothing else depends on it |

### NewsClientCache (with CommandService, MCNewsClientCache)

The io thread is one process. Its closures on `m_strand` are the sequence
`strand`; handlers of sockets and timers run between two closures. A closure or
handler that loops is several steps that nothing else of the io thread
interrupts: `scan` is the iterator of DispatchCommands, `unwind` the loop of
NewsClient::OnDone, `disconnecting` that of AsyncDisconnectClients, `redispatch`
the call of DispatchCommands that a closure still owes. Other threads only append to the strand or
set `m_canceled`.

| Code | Specification |
|---|---|
| `m_strand.dispatch` inline or queued | `CommandDone`: ClientDone at once if the strand is free, else a "done" closure |
| ClientDone, StopClient, RestartClient | `ClientDone(k, c, code)`, `StopClient`, `RestartClient` |
| DispatchCommands | `DispatchBegin`, then `DispatchCanceled`, `DispatchRun`, `DispatchFailed` or `DispatchSkip` for each command, `DispatchEnd` |
| NewsClient::OnDone, and what commands end with | `Finish(k, code, n)`, `Codes` |
| CloseTimeout, Disconnect, ~HandleCount | `CloseTimeout`, `Disconnect`, `Drain`, then `OnStopped...` |
| `std::set` ordered by clientID | `SameID`: insert, find and erase do not tell a client from its successor |
| `~NewsClient` raising SIGABRT, `set_value` throwing | `crashed` |

A client is a record of server, clientID and `gen`; `gen` tells objects with the same
clientID apart and is not in the program. The login of a client is a command named after the client.

`CommandService` is what the dispatcher promises: a command is at one server at a
time, never again at one that refused it, at a backup server only after all
connected primaries refused, given up only when all did or it was canceled. `ServiceSpec`
states that NewsClientCache implements it for the articles.

### Connection (with ClientService, MCConnection)

One NewsClient, the login and the articles it runs, and the server. An action is a completion
handler of the io thread with everything it calls; handlers are functions from the
NewsClient's state to its next state. `timer` is the deadline all commands share, `op` is where
each command is, `response` what the server sent or will send. ~NewsClient, Disconnect and the
restart by the dispatcher are there as far as the client sees them. `ClientService` says what
the dispatcher relies on: each command ends once, with a code that fits the way the connection went,
and the client stops only without commands.

| Code | Specification |
|---|---|
| SetTimeout, CancelTimeout, OnTimeout | `SetTimeout`, `CancelTimeout`, the timer actions |
| AsyncWriteRequest, AsyncReadResponse, `m_active`, `m_pipeline` | operators of these names |
| OnDone and m_done | `Ending`, and the client's `life` |
| `m_request` of a command | `article[a].request` |

### RateLimiter (with MCRateLimiter)

The sockets as targets of the token bucket: `AddRXBytes` hands bytes over or pauses the handler, the timer's
callback shares tokens in rounds (`AddTokens`, each a `Round`; the code stops when nothing changes, the model
after as many rounds as there are targets, when nothing can) and resumes who has paid, Stop lifts the limit.
`GetRateLimiterConfiguration` is `Parameters`. The history variable `credit` is what was granted less what was
handed over.

### NZBFile (with MCNZBFile)

A step is what one thread does under `m_mutex`. `settle` and `next` say that the
io thread is between the locked part of SetSegmentFinished or SetDownloadFailed and their
end: `ProcessBegin`, one `ProcessRequest` for each request (lock held, so
readers wait for `next = 0`), `ProcessEnd` with the notification. A decoder is a
segment and `gen`; it takes the article as chunks, and `cache` has the chunk
numbers that were written, 0 for memory malloc gave. `expect` is the state of
the yDecoder, `state` that of MyDecoder. `filename` merges `m_beginInfo` and the
request of the mounter.

| Code | Specification |
|---|---|
| TryGetData, ReadSegment | `TryGetData(r, c)`, `ReadSegments` |
| GetFileData and its `m_cond.wait` | `GetFileData` from "new" or "awake"; "waiting" is the wait |
| _AsyncGetFileData, ProcessAsyncDataRequests | `AsyncGetFileData`, `ProcessBegin/Request/End` |
| OnBeginSegment, OnData, OnEndSegment, OnError | actions of these names; `OnBeginMismatch` is the refused header |
| OnErrorRetry, OnErrorCancel, ~MyArticleDecoder | `OnErrorRetry`, `OnErrorCancel`, `Destroy` |
| cancel slots | `Cancel` |
| eviction by SegmentCache::Create for others | `Evict`, only when no decoder holds the buffer (this is `OwnBytes` of SegmentCache) |

### SegmentRange

The arithmetic NZBFile leaves out: estimated segment ends (`EndBoundary`), the two
binary searches (`FindSegmentIdxRange`), the part of each segment that is copied (`Copy`), and
the loop that downloads and tries again.

### SegmentCache

`m_segments`, `m_fifo_keys`, and who has a shared_ptr to which buffer (`use_count`).
The content of a buffer is the key whose bytes are in it.

### NZBLoader

What `loadnzb` demands of a document (`Loads`), `Validate`, and what the constructor of NZBFile makes of the
segments of a file (`Indexes`, `MsgIDs`, `Missing`). No state: operators.

### MultipartFile, NZBDirectory

A file made of parts is a record; `Ends` are the end addresses of its parts, `Finalize` makes the map that is keyed by them,
`Reads` are the reads of the parts that a read of the file makes, `Ranges` what BufferNextSegmentInRange asks, `NZBReads` the reads of files
of the NZB in the end. What a read should get is said without the map: `ByteAt` looks for the part a byte is in.
The directory is the set of its files, [path, file]; `Throws` says where RegisterFile throws, `Unmount` is the
recursion with the iterator that never moves, `Attributes`, `Readdir`, `Opens` are what FUSE asks.

### NZBDriveMounter and NZBDriveIMPL (with MCNZBDrive)

The mount of one NZB. A *chain* is one archive file that is being parsed: the stage it is in, the
`rar_data` or `zip_data` it has, and the read that is going on. A handler on the io thread is
one action (`Filename`, `FileRead`, `PartRead`) and dispatches to the callback of the stage. A chain has an id in place of the
address of its `rar_data` or `zip_data`, as two archives may have one name. A chain, a name
request and the call of Mount hold scopes; when a step leaves none, the destructor of the mounter is
part of that step (`Settle`). Sizes are in units; a header is its kind, name, size and flags.
NZBDriveIMPL adds the calls Start, Mount, Unmount and Stop, each at the points where another thread can come between,
`m_mutex` (`Locked`), the end of the io thread, and the FUSE thread with one read at a time.

| Code | Specification |
|---|---|
| loop of NZBDriveMounter::Mount, `m_parts_total++` | `ReadTotal`, `AsyncGetFilename`, `MountReturns` |
| GetMarkHead, GetMainHeader, GetFileHeader, GetHighSize, GetFilename | operators of these names start the read, `MarkHeadRead`, ... are the callbacks |
| StartInsertFile | `ChainsOf`, `PartsOf`, `EntriesOf` |
| RawInsertFile, RegisterFile and its exception | `Register`, `Refused`; `mountState` "terminated": no exception leaves the io thread |
| MultipartFile::_AsyncGetFileData and its callback | `Reading`, `HasScope`, `PartRead` |
| Unmount, Stop | `UnmountCancels`, `UnmountErases`; `StopFuse`, `StopCancels`, `StopClears`, `StopJoins` |

## 4. Runs

| Run | Instance | Shows |
|---|---|---|
| dispatch | a primary and a backup server, a connection with pipeline 2 each, two articles, one fault | types, `OneOwner`, `NoCommandLost`, `NeverAskedTwice`, `PipelineBound`, `NoLostWakeup`, refinement of CommandService |
| stop | two servers, an article that may be canceled, Stop and RemoveServer of the primary at any time, no fault | refinement of CommandService, `PostedEnds` |
| connection | a server with pipeline 2 and no login, and one with TLS, login and pipeline 1; two articles, one fault, one restart | `OneReader`, `RightArticle`, `MissingIsMissing`, `CommandsEnd`, refinement of ClientService |
| limiter | two sockets, reads of 3 bytes, 6 bytes in all, limits of 20 and 5 and none | types, `RateHeld`, `TokensKept`, `PausedHasTimer`, `PausedResumes` |
| file | two segments of two chunks, one foreign article, the same segment out of order, an asynchronous and a blocking read, one retry | types, `RightData`, `WaitsForLoading`, `NoSegmentAbandoned` |
| filelive | three segments, the first without an article, the cancel signal, one eviction | `RightData`, `ReadsEnd`, `FilenameAnswered` |
| range | four segments of 1 or 2 bytes, estimates 0 or 3, all reads over at most two segments | `AllBytes`, `ReadyAtLast` |
| cache | three segments that may be created again, four buffers, two users, the limit at 1 | `OwnBytes`, `RightKey`, `CanBeReused` |
| mount | eight NZBs, one failure, two Starts, Unmount, Stop with a connection under way or not, a FUSE reader | types, `ScopesCounted`, `NoLateUse`, `NothingMissing`, `VolumesInOrder`, `ReadsRight`, `Browsable`, `MountEnds`, `StopReturns` |

The NZBs of `mount` are two volumes in the wrong order with a file in both, a ZIP archive with two files,
an archive with a block of every kind, an archive in the volumes of another with a header that lies in both,
a split file, a file that has the name of an archive's directory, two split files, one with the name of the
directory of the archive that holds the other, and a volume that was posted twice.

Three runs show where the code does otherwise than it says (`findings` in PROJECT.json):

* `abort`: a completion that was queued behind other closures is for a client that was
  replaced meanwhile; it erases the new client, which aborts the process.
* `fileoffset`: an article that breaks off and is retried is written behind what the
  first attempt wrote; the read succeeds with wrong bytes.
* `tryagain`: DispatchCommands clears the timeouts of an article that timed out everywhere ("Try again",
  NewsClientCache.cpp:326) but goes on to the next command, and nothing calls it again: the article waits for ever
  beside a free connection, when the other connection of the server drained before its RestartClient ran and is never restarted
  (NewsClientCache.cpp:434).

**Where a property stops.** Each exception is what the code does, found by TLC:

* `RightData` is claimed where no article is retried after =ybegin (`fileoffset` has the other case), `AllBytes`
  for reads over two segments: over three the second search loses the first (NZBFile.cpp:533).
* `ReadsEnd` is claimed without foreign articles: one that is refused at =ybegin and goes on to =yend is
  downloaded for ever (NZBFile.cpp:321).
* `NoSegmentAbandoned` is claimed until the mount is canceled: a canceled decoder leaves its segment loading.
* `NoLostWakeup` leaves out the commands whose timeouts DispatchCommands has just cleared (the history variable `tryAgain`;
  what becomes of them is the run `tryagain`) and is claimed without RemoveServer, which may make the backup
  servers the ones to ask and calls no DispatchCommands. `PostedEnds` is claimed without RemoveServer and Stop, after which nothing wakes
  the commands that are left, and without network faults.
* `OneReader`, `RightArticle`, `MissingIsMissing` are claimed for `Orderly` settings: with a pipeline of three, or an
  nzb without groups, a command that ends gives the connection to a third. `CommandsEnd` is claimed
  for pipeline 1 but for the handshake, which has no timeout (`Unguarded`).
* `PausedResumes` names the timer that stopped for want of tokens and the socket made after Stop.
* `NoLateUse` names an Unmount that meets a handler (`raced`) and a header in two parts (`parted`);
  `MountEnds` and `StopReturns` name the second Start, after which no handler runs;
  `StopReturns` also names the Stop that hangs (`clients = "hanging"`): AsyncDisconnectClients sets its promise only if
  m_connectionsBin is empty when one of Stop's own clients leaves it (NewsClientCache.cpp:620-632), so when a client that
  StopClient or RestartClient had put there (lines 415, 433) is the last to leave, `future.get()` never returns, with `m_mutex` held;
  `NothingMissing` counts the bytes of what was in volumes, as ZIPFile gives MultipartFile the end of the data for its size (ZIPFile.cpp:146), and
  of NZBs that have each volume once: a part that comes twice counts as complete (MultipartFile.cpp:173), so the file is
  registered without bytes and the parts of later volumes go to a new one. What holds of a file with bytes whatever comes is `VolumesInOrder`.
* `ReadsRight` leaves out a byte if a file on the way to it has a part without bytes, which overwrites the part
  before it in m_parts_map (MultipartFile.cpp:162), or ends before the byte, as one in a ZIP archive may (the same line 146).
* Unmount erases nothing (NZBDirectory.cpp:43), and a file may not be registered because one with the name of its directory is (or the
  program ends, NZBDirectory.cpp:21): `NothingMissing` leaves such names out, `Browsable` does not.

**Bounds.** `Gen`: clients with one ID, or decoders of one segment, that exist
at once; two is enough for the old one to meet its successor.
`MaxStrand` limits closures that *other threads* queue, never those of the io
thread; one is enough to make a completion queue. `MaxFaults`, `MaxRetries`, `MaxEvictions`, `MaxCreate`, `MaxRestarts`, `MaxFailures`, `MaxInserts`, `MaxReceived`, `MaxStarts` count
what the environment does. Two articles and a pipeline of two let a command end
while another is behind it; two chunks let an article break off between them; four
segments make both binary searches take both turns, and estimates 0 and 3 are
shorter and longer than every segment. A cache limit of 1 instead of 30 reuses buffers from the third
call on. Six received bytes with reads of three make both sockets pause under a limit of two bytes a tick. One failure
is enough to break off any one chain; Stop is left out for four of the NZBs (`Stops`) to keep the run small. FUSE reads
come when the mount is over. The articles of `dispatch` are symmetric. Deadlock is not checked where all work can be done and nothing is left to do.

**Fairness.** Dispatcher: the io thread runs what is ready (`ClosureStep`,
`HandlerStep`, `DispatchStep`, `Drain`), and the oldest request of a connection ends, by an answer, an error or the
timeout (`CommandsEnd` of Connection). Connection: its handlers run and its timer expires; the server owes nothing. Limiter: the timer expires and its callback and the posted handlers run.
File: the io thread runs Preload and finishes what it began, a decoder
is destroyed in the end (`PostedEnds` of the dispatcher), and a notified thread gets the mutex.
Drive: the threads of Mount, Unmount, Stop and FUSE go on, the connections bring or fail every article until they are stopped
(`PostedEnds`, `ReadsEnd`), the connections close once NewsClientCache::Stop has told them to, and the io thread runs a handler if one is ready again and again; that is WF of `IoHandler` with
its enabling condition `IoRuns /\ Ready` written out, which TLC evaluates much faster.
That they close is not what the code guarantees: `StopCancels` finds all of them open and idle or with a command ("stopping": each ends its handlers
and the last sets the promise, as Connection shows, `CommandsEnd`), or some that were being closed or opened already ("restarting"). In that case `ClientsStop`
may leave Stop waiting for ever: the promise may have nobody to set it (above), a connect that was canceled may go on to a TLS handshake without a timeout
(NewsClientConnect.cpp:119, `Unguarded` in Connection), or a client made after RateLimiter::Stop is paused for ever (NewsClientSocket.cpp:138, `late` in RateLimiter).
No fairness for API calls, cancellation, eviction.

**Simplifications.** NewsClientCache assumes that the commands of one client end in order; with a pipeline of two a failed write
can end the later one first (Connection has it). asio may run several
ready closures of a strand in a row; the model also lets handlers come between them,
which asio's documentation permits. An article has a group in NZBFile and NewsClientCache. Without one it ends
inside Run (NewsClientReadArticleStream.cpp:63): when DispatchCommands has called it (NewsClientCache.cpp:314), ClientDone runs inline, puts the command at the front of the deque
m_commandsWaiting while it is still in it, and calls DispatchCommands, which may run or drop both copies; back in the outer loop `erase(itCmd)` (line 315) uses an iterator that is
no longer valid. None of this is in the model, where `DispatchRun` only hands the command over, and no property of the dispatcher speaks of such articles; blacklisted groups do not
lead there, as nothing calls NoSuchGroupOnServer. The range of a read is fixed in NZBFile. An article has one yEnc part with a =ypart line: the overload of OnBeginSegment for one
without (NZBFile.cpp:274, with its SetFileInfo, line 156) is not modelled. Where =ypart puts a segment is `Misplaced`: before the end of all segments before it, or behind the last one. The completion
functions of asynchronous reads are called with the step that makes them ready.
Readers come after the file was named, as the directory has it only then. Exceptions of allocation are not modelled.
In the mount model one NZB is mounted once, into a directory of one name; CacheFileError, which nothing sets, and `m_root_rawdir`, which is only
written, are left out; GetSubBlock has no caller. No instance has a split archive, whose factory throws bad_weak_ptr in the mounter's destructor (SplitFile.cpp:110).

## 5. Proofs

All theorems hold for every value of the constants that satisfies the named assumption of
the module (`NCCAssumption` and `CommandsDiffer`, `CacheAssumption`, `NZBFileAssumption`, `RangeAssumption`, `ConnectionAssumption`,
`RateLimiterAssumption`, and `NZBsAssumption`, `LayoutAssumption`, `MaxFailuresAssumption`, `DriveAssumption` of the mount;
NZBLoader needs none).

* `NewsClientCache_proofs`: `TypeCorrect`. `TypeOK` is not inductive: OnDone takes the
  head of a client's commands once for each entry of `unwind`. `UnwindOK` says there are enough.
  `OneOwnerAlways`: each action moves a command from
  one container to another; `WaitingOnce`, `RunningOnce` and `QueuedOnce` with the phase
  of the command carry each other, lemma by lemma for the containers.
* In the same module `LiveAlways` (a client with pending handlers is
  referenced or the process is down), `GivenAlways` (capacity and HasFailed do
  not become stale while a client has the command), and from these
  `NeverAskedTwiceAlways`, `PipelineBoundAlways`, `NoCommandLostAlways`.
* And `ImplementsService`, the refinement of `CommandService`. `Located` (from `OneOwner`)
  says where an article is for each phase of its command; a `Moves...` lemma for each step of an
  article shows that what the action did to the containers is that step, and a `Step...` lemma for each group of
  actions that every other article stays. It needs `LiveInv`, because StartClients must not replace a client
  that still has commands, and `NoCommandLost` for the articles that stay.
* And `NoLostWakeupAlways`, for any servers, connections, faults and Stop, as long as RemoveServer is not called. `NoLostWakeup`
  is not inductive, it only speaks of moments of rest. `WakeInv` says that the commands behind the iterator of
  DispatchCommands are `Settled` (`PassOK`), that after the pass all are, until a ClientDone is queued or DispatchCommands is
  due again (`RestOK`), and that a server without an entry in `m_connections` has no clients (`KeysOK`). Giving a command to a client
  only takes capacity away, a client that starts is busy with its login (`WakeStartClients`), and a server that is added
  closes backup servers but opens no other.
* `NZBFile_proofs`: one theorem for each invariant of the run `file`.
  `TypeCorrect` needs `BufferOK` and `DecodedOK`: a decoder that is between =ybegin and =yend has a buffer with room for
  what comes. `SegmentsNotAbandoned`: `Starts` says what the four actions that begin downloads have in common.
  `ReadsNotForgotten` is the argument that no end of a download is missed: `WaitInv` adds to
  `WaitsForLoading` what holds *while* ProcessAsyncDataRequests runs (those it has passed wait for something that still loads,
  `PassedLoad`; nobody is pending outside of `m_data_requests`, `AllQueued`), which is where a read could be forgotten.
  `ReadsGetData`: `FirstTry` says of each decoder how far its buffer, its offset and the segment in the cache agree, and that
  a segment with data is whole or was evicted; it is inductive only until an article is retried, and the run `fileoffset` shows that
  `RightData` says no more than holds. What `Without` returns of a sequence is proved by the least counterexample
  (`Least`), as its recursive function has no induction theorem that can be cited.
* `SegmentRange_proofs`: `TypeCorrect`, and `AllBytesAlways` for reads over at most two segments (`MaxSpan <= 2`), which is where it
  stops being true. The boundaries that FindSegmentIdxRange searches need not be in order, as estimates stand
  beside exact ends; all that its searches have for certain is that each bound stayed or was found by its
  test (`BisectFinds`). `RangeCovers`: when the headers at both ends of the range are known, that is enough, but for a lower bound which the
  second search moved; then a third segment would lie between. That the recursive functions have values is
  proved from their unfoldings up to n (`BoundariesExist`, `BisectExists`).
* `Connection_proofs`: `ImplementsService`, the refinement of `ClientService`, one lemma per action
  (`...Service`), which maps to a step of `ClientService` or to a stutter. `ServiceInv` is the invariant it needs: the queues
  have exactly the commands whose operation says so, the active command reads, the login has the connection for
  itself, and the socket of a working client is open unless it was disconnected. The handlers nest
  (OnDone disconnects, or lets the first command of `m_pipeline` read); `...Effect` lemmas state
  what each operator on the client's record does to it, once.
* `ConnectionOrder_proofs`: `ReadByOne`, `GetsItsArticle` and `RefusedIsAbsent` (`MissingIsMissing`). `OneReader` is not inductive, as a write that fails resets
  `m_active` while another command reads: `OneAtATime` says that then the socket is gone, so
  no answer comes and no third command follows. `Script` says that the lines not yet read are whole
  answers in their order, the last one cut short only where the server is gone; `Got` says that a command that reads
  is at the place in them that its own article has. The `Script...` and `Awaits...` lemmas are about sequences of lines alone.
  `RefusedIsAbsent`: nothing compares a 430 with the article that was asked for, so the lines on the way must be in step with the
  commands. `Aligned` says so: a refusal is of an article the server does not have, there is one for it, and it comes next only if its command is
  the first to read (`Refused`, `First`); an answer is under way for whoever waits (`Answered`); a line that belongs to
  nobody is the last word of a server (`OddLast`) or is left on a client that is given up, with one command at the most (`Stray`, `Spoiled`).
  Handlers of writes run in the order of the writes (`SentFirst`), so no command overtakes another. A step that reads nothing keeps everybody's
  place (`Remains`, `AlignedStays`); `SendsAligned` and `ReadAligned` are the steps that add and take lines. A missing
  article asked for twice by one write breaks it, as the property says.
* `RateLimiter_proofs`: all four invariants of the run `limiter`. `Shared` is the loop invariant of `AddTokens`: the targets
  that are no longer open are full, each round that is not the last closes one (so there are no more rounds than targets), and what
  the buckets hold together with the rest is what they held together with the tokens (`RoundShares`, `TokensShared`, `TokensUsed`). The invariant
  `LimiterInv` adds to the types that a target never has bytes to its credit and a debt, `CreditOK` (what was granted covers what
  the socket has and the bytes its paused reader waits for) and `TimerOK`. `TimerOK` needs the loop invariant: the timer stops
  when all tokens are left over, and only then is every target full, so that every paused reader has just been resumed. Sums over
  finite sets are recursive functions of the community modules; what they return is proved by the least
  counterexample, as no induction theorem can be cited (`Least`, `SizeInduction`, `Sum...`).
* `SegmentCache_proofs`: `OwnBytesAlways`, `RightKeyAlways`, `CanBeReusedAlways`. The invariant `Roles` says
  that a buffer is in the map under one key and is held for one key, the same in both.
  `QueueKeeps` says that taking one entry out of the queue leaves the keys of the others.
* In `NZBFile_proofs`, about NZBLoader: `ValidNumbers` (Validate, which compares the largest number with how many there are, leaves no gap:
  a finite subset of 1 .. n with n elements is 1 .. n), `InBounds` (the index the constructor of NZBFile computes from a
  number it may have reported as invalid is in the vector), `LastHasArticle` (NZBFile's assumption on `NoArticle`).

* `NZBDriveIMPL_proofs`: `TypeCorrect`, `ScopesCountedAlways`, `NoLateUseAlways`, `BrowsableAlways`, `VolumesInOrderAlways`, `ReadsRightAlways`, for any NZBs and any layout of the archives in them.
  Each callback of an archive's chain is one `Handler` that passes on chains, files and parts of the right
  kind (the `...Runs` lemmas, joined in `CallbackRuns`), so the types are argued once for `Handler` and `Settle`. They need
  that Finalize and SetFilePart give a MultipartFile a size that is a number (`FinalizeKeeps`, `SetFilePartOK`: the end addresses
  of the parts are proved to exist from the recursion up to the last one, `EndsOfParts`), that a total the caller of Mount
  has read is not more than the total now, and that a file without a gap has all its parts (`NoGap`).
  `BrowsableAlways`: `ContentOK` says that no file of the tree lies behind another one.
  `RegisterContent` is why: RegisterFile throws on either side of it, and the files that are registered at one time differ in their
  paths (`SplitFilesOK`). The first attempt at it failed on two split files joined by one destructor, of which one has the
  name of the other's directory: the second RegisterFile throws there, which the model had missed (`Refused`; the NZB `Splits`).
  `NoLateUseAlways`: `LifeInv` says that whoever holds the mounter keeps it (`Unheld`), that a mount which is over
  has no mounter, and that an Unmount without a race has destroyed it (`Unmounts`), as `Cancel` leaves a scope only to
  handlers that are posted (`CancelHeld`).
  `ScopesCountedAlways`: `CountInv` adds that the ids of the chains differ, that a chain with the id of a file of the NZB comes
  after that file's handler (`IdsOK`), and that the loop of Mount asks each file once (`NotAsked`). The steps are argued by what
  they add to both sides (`StillCounted`): a `Handler` starts at most one chain that goes on and one that is new, each with a
  scope unless it has nothing to read (`NewScopes`), a Cancel reports a scope for each chain it takes one from (`CancelCounts`).
  When chains were told apart by the path of their archive this had a counterexample: two archives
  of one name in an NZB are parsed at the same time, and the handler of one ended the read of the other. The model now gives a chain an id.
  `VolumesInOrderAlways`: a file that is made of parts has no size or is `AllThere`, as only SetFilePart and SplitFileFactory::Finalize
  give it one, and its parts are `InVolumes` of the archive it is read from: a RARFile is looked for by its directory, which has the name of the archive.
  A file in a ZIP archive has the part 1 whatever the archive's name; that a volume is never read like one (`OnlyZIP`) belongs to the types of chains.
  `ReadsRightAlways`: the invariant on files (`Made`) says that one made of parts is made of files that are themselves of the NZB or
  made so (the witness is a set of files that has the files of all parts of its members), and has no size yet or the map and the size Finalize gave it.
  For such a file the entries of the map are the parts, in order and without a gap (`FinalizeLays`), so a read is cut into pieces
  that follow each other (`ReadsArePieces`, `RangesArePieces` for the ranges, which makes both the same) and that cover the range
  (`ReadsCover`). Each step of `ReadsAfter` replaces reads by others that cover the same bytes one part deeper (`ReadsStillCover`), and reads that cover a
  range have its bytes when laid out one after another (`BytesOfReads`). The recursions are followed up to the depth of the path and the
  flattened sequences up to their length, each by the least counterexample. The first attempt failed where a part has no bytes and
  where a file ends before the byte (section 4); the property now leaves these out by name.

**Only model-checked:** of the mount, `NothingMissing` (about layouts that are well-formed archives: each file in one archive, in as many
volumes as it has parts; for others it is false). And everything
about liveness (`PostedEnds`, `CommandsEnd`, `ReadsEnd`, `FilenameAnswered`, `PausedResumes`, `MountEnds`, `StopReturns`), which
the prover does not reach.

## 6. Not modelled

See `components` in PROJECT.json. The parsing of XML, RAR, ZIP and yEnc lines, logging, text conversion, HTTP
and the user interfaces keep no state that others depend on; Dokan translates the same calls as FUSE. The mounter program's status handler calls
Mount on the io thread and can wait for a mutex that Stop or Unmount holds (NZBMounter.cpp:295). NZBDirectory::EnumFiles goes on
with its iterator after the lock was released (NZBDirectory.cpp:112), HeartBeat and the events only report. StatArticle, GetOverviewStream,
ListActive, ReadAheadFile and CancelCommand have no live caller in the tree. RemoveServer waits for the clients of all
servers (NewsClientCache.cpp:602), and Stop and RemoveServer may set a promise twice (NewsClientCache.cpp:629): states of
NewsClientCache that no property is about.

## 7. Running

    tlc -config MCDispatch.cfg MCNewsClientCache.tla
    tlc -config MCFile.cfg MCNZBFile.tla
    tlc -config MCConnection.cfg MCConnection.tla
    tlc -config MCLimiter.cfg MCRateLimiter.tla
    tlc -config MCMount.cfg MCNZBDrive.tla
    tlc -config MCRange.cfg SegmentRange.tla
    tlc -config MCCache.cfg SegmentCache.tla
    tlc -config MCTryAgain.cfg MCNewsClientCache.tla
    tlapm NewsClientCache_proofs.tla
    tlapm NZBDriveIMPL_proofs.tla
    tlapm NZBFile_proofs.tla
    tlapm SegmentRange_proofs.tla
    tlapm Connection_proofs.tla
    tlapm ConnectionOrder_proofs.tla
    tlapm RateLimiter_proofs.tla
