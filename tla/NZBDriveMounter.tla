--------------------------- MODULE NZBDriveMounter ---------------------------
(***************************************************************************)
(* The mounting of one NZB (NZBDriveMounter.cpp) with the factories that   *)
(* look for archives in its files (RARFile.cpp, ZIPFile.cpp,               *)
(* SplitFile.cpp).                                                         *)
(*                                                                         *)
(* The caller of Mount asks every file for its name.  The answers, and the *)
(* reads of headers that follow, are handlers on the io thread; each holds *)
(* a NZBDriveMounterScope, and the mounter lives until the last is gone.   *)
(* An archive file that is parsed has exactly one read at a time, a Chain. *)
(*                                                                         *)
(* Sizes are in units: a fixed header has one unit for what a mark header  *)
(* (or a signature) has and one more if it is a file's, a name has one.    *)
(***************************************************************************)
EXTENDS MultipartFile, NZBDirectory

CONSTANTS
  NZBs,        \* the NZBs that may be mounted: sequences of [name, size]
  Layout,      \* what is in an archive: its blocks, by the name of its file
  MaxFailures  \* bound: reads and names that fail while the connections are up

Name == [base : STRING, ext : STRING, num : Nat]
ASSUME NZBsAssumption == \A q \in NZBs : q \in Seq([name : Name, size : Nat])
ASSUME LayoutAssumption ==
  \A a \in DOMAIN Layout :
    Layout[a] \in Seq([type : STRING, name : Name, size : Nat, bof : BOOLEAN, eof : BOOLEAN,
                      method : STRING, high : BOOLEAN])
ASSUME MaxFailuresAssumption == MaxFailures \in Nat

\* A name is [base, ext, num]: "a.part2.rar" is base "a", ext "part", num 2; a
\* split file "s.001" has ext "num".
NoExt(base) == [base |-> base, ext |-> "", num |-> 0]

Block(type, name, size, bof, eof, method) ==
  [type |-> type, name |-> name, size |-> size, bof |-> bof, eof |-> eof, method |-> method,
   high |-> FALSE]
Plain(type) == Block(type, NoExt(""), 0, TRUE, TRUE, "stored")

VARIABLES
  nzb,         \* the NZB
  next,        \* the file the loop of Mount comes to; 0: not called, the last
               \* value: returned
  read,        \* m_parts_total as read by the caller of Mount, or Nothing
  names,       \* of each file: what became of the request for its name
  chains,      \* the reads of archive headers
  rarFiles,    \* m_rar_files: [dir, file]
  splitParts,  \* m_split_file_parts: [dir, base, part, file]
  content,     \* the files in m_root_dir: [path, file]
  total,       \* m_parts_total
  loaded,      \* m_parts_loaded
  mountState,  \* NZBMountState: "none", "Mounting", "Mounted", "erased"; and
               \* "terminated" when an exception has ended the program
  gone,        \* whether the mounter is destroyed
  clients,     \* NewsClientCache: "up"; its Stop is "stopping", "stopped", "restarting" (some
               \* were being closed or opened already) or "hanging" (it never returns)
  failures,
  lost,        \* history: increments of total lost in the race on it
  late         \* history: "state", "mounter": used after it was destroyed;
               \* "parted": the mounter by a read of a header in two parts

mounterVars == <<nzb, next, read, names, chains, rarFiles, splitParts, content, total, loaded,
                 mountState, gone, failures, lost, late>>

Nothing == -1
File == DOMAIN nzb

-----------------------------------------------------------------------------
(* Names.                                                                  *)

\* GetRARFilenameAndPart.
IsRARName(name) == name.ext \in {"rar", "r", "part"}
RARPart(name) == IF name.ext = "rar" THEN 0 ELSE IF name.ext = "r" THEN 1 + name.num ELSE name.num

\* GetZIPFilenameAndPart, GetSplitFilenameAndPart.
IsZIPName(name) == name.ext = "zip"
IsSplitName(name) == name.ext = "num"

MountDir == NoExt("mount")

PathOf(f, dir) ==
  Append(dir, IF f.method = "password" THEN [f.name EXCEPT !.ext = @ \o ".pwprotected"]
              ELSE IF f.method = "compressed" THEN [f.name EXCEPT !.ext = @ \o ".compressed"]
              ELSE f.name)

-----------------------------------------------------------------------------
(* Headers.                                                                *)

HeadSize(b) ==
  IF b.type \in {"file", "sub"} THEN IF b.high THEN 4 ELSE 3
  ELSE IF b.type = "local" THEN 3 ELSE 1
BlockSize(b) == HeadSize(b) + b.size

BlocksOf(f) == IF f.name \in DOMAIN Layout THEN Layout[f.name] ELSE <<>>

\* Where the blocks of an archive begin; the last one is its size.
BlockBegins ==
  [a \in DOMAIN Layout |->
    LET begin[i \in 1 .. Len(Layout[a]) + 1] ==
          IF i = 1 THEN 0 ELSE begin[i - 1] + BlockSize(Layout[a][i - 1])
    IN begin]
BlockBegin(f, i) == BlockBegins[f.name][i]

\* The block whose header is at offset, or whose name is; garbage otherwise.
Garbage == Plain("garbage")
HeaderAt(f, offset) ==
  IF \E i \in DOMAIN BlocksOf(f) : BlockBegin(f, i) = offset
    THEN BlocksOf(f)[CHOOSE i \in DOMAIN BlocksOf(f) : BlockBegin(f, i) = offset]
    ELSE Garbage
NameAt(f, offset) ==
  LET Named(i) == BlockBegin(f, i) + HeadSize(BlocksOf(f)[i]) - 1 = offset IN
  IF \E i \in DOMAIN BlocksOf(f) : Named(i)
    THEN BlocksOf(f)[CHOOSE i \in DOMAIN BlocksOf(f) : Named(i)].name
    ELSE NoExt("garbage")

-----------------------------------------------------------------------------
(* Chains: rar_data and zip_data, and the read that is going on.           *)

\* The buffers are zero at first.  mark is also next_header_signature.  The id tells
\* chains apart, also those of archives with one name; that of a file made of parts
\* is found when its chain starts.
NewChain(f, dir) ==
  [id |-> f.nzb, file |-> f, dir |-> dir, stage |-> "", at |-> 0, size |-> 0, mark |-> "garbage",
   main |-> FALSE, head |-> Garbage, name |-> NoExt(""), begin |-> 0, reads |-> <<>>]

\* data->path
PathOfArchive(c) == Append(c.dir, NoExt(c.file.name.base))

\* AsyncGetFileData.  A read past the end of a file of the NZB is answered at
\* once, with an uninitialized size; one of a MultipartFile has no parts to read.
\* Every archive a file is in adds a directory.
Reading(c, stage, at, size) ==
  LET r == NZBReads(c.file, Len(c.dir), at, size) IN
  [c EXCEPT !.stage = stage, !.at = at, !.size = size,
            !.reads = [j \in DOMAIN r |->
                        [nzb |-> r[j].file.nzb, offset |-> r[j].offset, size |-> r[j].size,
                         state |-> IF r[j].offset >= r[j].file.size THEN "junk" ELSE "asked"]]]

\* The callback moves into the request of the first part, and the scope with it.
\* An archive that is several parts loses it when that part is read.
HasScope(c) == 1 \in DOMAIN c.reads /\ c.reads[1].state \in {"asked", "arrived", "failed", "junk"}

GetMarkHead(c, at) == Reading(c, "mark", at, 1)
GetMainHeader(c, at) == Reading(c, "main", at, 1)
GetFileHeader(c, at) == Reading(c, "head", at, 2)
GetHighSize(c, at) == Reading(c, "high", at, 1)
GetFilename(c, at) == Reading(c, "name", at, 1)
GetZIPLocalFileHeader(c, at) == Reading(c, "local", at, 2)
GetZIPFilename(c, at) == Reading(c, "zipname", at, 1)
GetZIPNextFileHeader(c, at) == Reading(c, "next", at, 1)

\* The factories' AddFile.
AddFile(f, dir) ==
  IF IsRARName(f.name) THEN {GetMarkHead(NewChain(f, dir), 0)}
  ELSE IF IsZIPName(f.name) THEN {GetZIPLocalFileHeader(NewChain(f, dir), 0)}
  ELSE {}

-----------------------------------------------------------------------------
(* What a handler does.                                                    *)

\* StartInsertFile: a split file or an archive is kept back.
ChainsOf(f, dir) == IF IsSplitName(f.name) THEN {} ELSE AddFile(f, dir)
PartsOf(f, dir) ==
  IF IsSplitName(f.name)
    THEN {[dir |-> dir, base |-> f.name.base, part |-> f.name.num, file |-> f]} ELSE {}
EntriesOf(f, dir) ==
  IF IsSplitName(f.name) \/ AddFile(f, dir) # {} THEN {}
  ELSE {[path |-> PathOf(f, dir), file |-> f]}

\* Mutant: only the end of the path is looked at.
Refused_end(tree, entries) == {}

\* What is registered unless it Exists, and what of that throws; the entries come
\* in the order of their paths.
Fresh(tree, entries) == {e \in entries : ~Exists(tree, e.path)}
Refused(tree, entries) ==
  LET fresh == Fresh(tree, entries) IN
  {e \in fresh : Throws(tree, e.path) \/ \E d \in fresh : IsStrictPrefix(d.path, e.path)}

Register(tree, entries) == tree \cup (Fresh(tree, entries) \ Refused(tree, entries))

\* SplitFileFactory::Finalize: the files without a gap in the part numbers.
SplitFiles(parts) ==
  LET Same(p) == {q \in parts : q.dir = p.dir /\ q.base = p.base}
      Numbers(p) == {q.part : q \in Same(p)}
      Complete(p) == Max(Numbers(p)) - Min(Numbers(p)) = Cardinality(Numbers(p)) - 1
      Part(p, k) == LET q == CHOOSE q \in Same(p) : q.part = k IN
                    FilePart(q.file, 0, q.file.size, k = Min(Numbers(p)), k = Max(Numbers(p)))
      SplitFile(p) ==
        Finalize([NewMultipartFile(NoExt(p.base), "stored")
                  EXCEPT !.parts = [k \in Numbers(p) |-> Part(p, k)]])
  IN {[path |-> Append(p.dir, NoExt(p.base)), file |-> SplitFile(p)] : p \in {q \in parts : Complete(q)}}

\* The mounter lives while the call of Mount runs or somebody has a scope.
IsHeld(nx, nms, chs) ==
  nx \in 0 .. Len(nzb) + 1 \/ (\E i \in File : nms[i] \in {"asked", "named", "unnamed"}) \/ \E c \in chs : HasScope(c)

\* Mutant: the destructor forgets the state.
Settle_silent(entries, parts, rars) ==
  /\ content' = Register(content, entries) /\ splitParts' = splitParts \cup parts /\ rarFiles' = rars
  /\ gone' = (gone \/ ~IsHeld(next', names', chains'))
  /\ UNCHANGED mountState

\* What a step registers, and the destructor of the mounter if it was the last
\* to hold it.
Settle(entries, parts, rars) ==
  LET kept == {p \in splitParts : ~ \E q \in parts : <<q.dir, q.base, q.part>> = <<p.dir, p.base, p.part>>}
      all == kept \cup parts
      over == ~gone /\ ~IsHeld(next', names', chains')
      tree == Register(content, entries)
      joined == IF over THEN SplitFiles(all) ELSE {} IN
  /\ content' = Register(tree, joined)
  /\ splitParts' = IF over THEN {} ELSE all
  /\ rarFiles' = IF over THEN {} ELSE rars
  /\ gone' = (gone \/ over)
  /\ mountState' = IF Refused(content, entries) \cup Refused(tree, joined) # {} THEN "terminated"
                   ELSE IF over /\ mountState = "Mounting" THEN "Mounted" ELSE mountState

\* A use of the mounter, and one of the cancel signal or of the state after
\* Unmount has erased them.
UsesState(connects) ==
  late' = late \cup (IF gone THEN {"mounter"} ELSE {})
               \cup IF mountState = "erased" /\ (connects \/ (gone' /\ ~gone)) THEN {"state"} ELSE {}

\* The chains that have something to read; the others lose their scope at once.
Busy(more) == {r \in more : 1 \in DOMAIN r.reads}

\* These with the id they have, or a free one.
FreeID == CHOOSE n \in Len(nzb) + 1 .. Len(nzb) + Cardinality(chains) + 1 : \A d \in chains : d.id # n
Started(more) == {[d EXCEPT !.id = IF @ = 0 THEN FreeID ELSE @] : d \in Busy(more)}

\* The handler of chain c, with its scope or (scope = FALSE) without, starts the
\* chains in more.
Handler(c, scope, more, entries, parts, rars) ==
  /\ chains' = {d \in chains : d.id # c.id} \cup Started(more)
  /\ total' = total + Cardinality(more)
  /\ loaded' = loaded + Cardinality(more \ Busy(more)) + IF scope THEN 1 ELSE 0
  /\ UNCHANGED <<nzb, next, read, names, clients, failures, lost>>
  /\ Settle(entries, parts, rars)
  /\ UsesState(more # {})

Handled(c, scope, more) == Handler(c, scope, more, {}, {}, rarFiles)

\* The callback of GetMarkHead.
MarkHeadRead(c, scope) ==
  \/ c.mark = "mark" /\ Handled(c, scope, {GetMarkHead(c, c.at + 1)})
  \/ c.mark = "main" /\ Handled(c, scope, {GetMainHeader(c, c.at)})
  \/ /\ c.mark = "encrypted"
     /\ Handler(c, scope, {}, {[path |-> Append(c.dir, c.file.name), file |-> c.file]}, {}, rarFiles)
  \/ c.mark \in {"file", "sub"} /\ Handled(c, scope, {GetFileHeader(c, c.at)})
  \/ c.mark \notin {"mark", "main", "encrypted", "file", "sub"} /\ Handled(c, scope, {})

\* The callback of GetMainHeader.
MainHeaderRead(c, scope) ==
  Handled(c, scope, IF c.main THEN {GetMarkHead(c, c.at + 1)} ELSE {})

\* The callback of GetFileHeader.
FileHeaderRead(c, scope) ==
  LET d == [c EXCEPT !.begin = c.at + HeadSize(c.head)] IN
  Handled(c, scope,
    IF c.head.type # c.mark THEN {}
    ELSE IF c.head.high THEN {GetHighSize(d, c.at + 2)} ELSE {GetFilename(d, c.at + 2)})

\* Mutant: the flag of the first part for that of the last.
AfterData_first(c) ==
  IF c.begin + c.head.size < c.file.size /\ c.head.bof
    THEN {GetMarkHead(c, c.begin + c.head.size)} ELSE {}

\* The next header, behind the data, if the file of the archive ends here.
AfterData(c) ==
  IF c.begin + c.head.size < c.file.size /\ c.head.eof
    THEN {GetMarkHead(c, c.begin + c.head.size)} ELSE {}

\* The callback of GetFilename: the part goes to the RARFile with its name.
FilenameRead(c, scope) ==
  LET dir == PathOfArchive(c)
      same == {r \in rarFiles : r.dir = dir /\ r.file.name = c.name}
      f == IF same = {} THEN NewMultipartFile(c.name, c.head.method)
           ELSE (CHOOSE r \in same : TRUE).file
      part == FilePart(c.file, c.begin, c.head.size, c.head.bof, c.head.eof)
      k == RARPart(c.file.name)
      g == SetFilePart(f, k, part) IN
  IF c.mark # "file" THEN Handled(c, scope, AfterData(c))
  ELSE IF SetFilePartReturns(f, k, part)
    THEN Handler(c, scope, AfterData(c) \cup ChainsOf(g, dir), EntriesOf(g, dir), PartsOf(g, dir),
                 rarFiles \ same)
    ELSE Handler(c, scope, AfterData(c), {}, {}, (rarFiles \ same) \cup {[dir |-> dir, file |-> g]})

\* The callback of GetZIPLocalFileHeader.
LocalFileHeaderRead(c, scope) ==
  Handled(c, scope,
    IF c.head.type # "local" THEN {}
    ELSE {GetZIPFilename([c EXCEPT !.begin = c.at + HeadSize(c.head)], c.at + 2)})

\* The callback of ZIPFileFactory::GetFilename; the size of the part is where its
\* data ends.
ZIPFilenameRead(c, scope) ==
  LET dir == PathOfArchive(c)
      end == c.begin + c.head.size
      f == SetFilePart(NewMultipartFile(c.name, c.head.method), 1,
                       FilePart(c.file, c.begin, end, TRUE, TRUE)) IN
  Handler(c, scope, {GetZIPNextFileHeader(c, end)} \cup ChainsOf(f, dir), EntriesOf(f, dir),
          PartsOf(f, dir), rarFiles)

\* The callback of GetZIPNextFileHeader.
NextFileHeaderRead(c, scope) ==
  Handled(c, scope, IF c.mark = "local" THEN {GetZIPLocalFileHeader(c, c.at)} ELSE {})

\* A callback with the size it asked for; the buffer has what was read only if no
\* part of it failed, and what it had before otherwise.
Callback(c, fresh, scope) ==
  LET header == HeaderAt(c.file, c.at) IN
  CASE c.stage = "mark" ->
         MarkHeadRead(IF fresh THEN [c EXCEPT !.mark = header.type] ELSE c, scope)
    [] c.stage = "main" ->
         MainHeaderRead(IF fresh THEN [c EXCEPT !.main = header.type = "main"] ELSE c, scope)
    [] c.stage = "head" ->
         FileHeaderRead(IF fresh THEN [c EXCEPT !.head = header] ELSE c, scope)
    [] c.stage = "high" -> Handled(c, scope, {GetFilename(c, c.at + 1)})
    [] c.stage = "name" ->
         FilenameRead(IF fresh THEN [c EXCEPT !.name = NameAt(c.file, c.at)] ELSE c, scope)
    [] c.stage = "local" ->
         LocalFileHeaderRead(IF fresh THEN [c EXCEPT !.head = header] ELSE c, scope)
    [] c.stage = "zipname" ->
         ZIPFilenameRead(IF fresh THEN [c EXCEPT !.name = NameAt(c.file, c.at)] ELSE c, scope)
    [] c.stage = "next" ->
         NextFileHeaderRead(IF fresh THEN [c EXCEPT !.mark = header.type] ELSE c, scope)

-----------------------------------------------------------------------------
(* Steps.                                                                  *)

TypeOK ==
  /\ nzb \in NZBs
  /\ next \in 0 .. Len(nzb) + 2
  /\ read \in Nat \cup {Nothing}
  /\ names \in [File -> {"none", "asked", "named", "unnamed", "over"}]
  /\ \A c \in chains :
       /\ c.stage \in {"mark", "main", "head", "high", "name", "local", "zipname", "next"}
       /\ \A j \in DOMAIN c.reads :
            c.reads[j].state \in {"asked", "arrived", "failed", "junk", "read", "bad", "erased"}
  /\ \A r \in rarFiles : IsComplete(r.file) => r.file.size = 0
  /\ \A e \in content : e.file.size \in Nat
  /\ total \in Nat /\ loaded \in Nat /\ lost \in Nat
  /\ mountState \in {"none", "Mounting", "Mounted", "erased", "terminated"}
  /\ gone \in BOOLEAN
  /\ clients \in {"up", "stopping", "restarting", "stopped", "hanging"}
  /\ failures \in 0 .. MaxFailures
  /\ late \subseteq {"state", "mounter", "parted"}

MounterInit ==
  /\ nzb \in NZBs
  /\ next = 0 /\ read = Nothing
  /\ names = [i \in File |-> "none"]
  /\ chains = {} /\ rarFiles = {} /\ splitParts = {} /\ content = {}
  /\ total = 0 /\ loaded = 0
  /\ mountState = "none" /\ gone = FALSE
  /\ clients = "up" /\ failures = 0 /\ lost = 0 /\ late = {}

\* The loop of Mount, in the thread of its caller.  m_parts_total is incremented
\* without a lock, there and on the io thread.
ReadTotal ==
  /\ next \in File /\ read = Nothing
  /\ read' = total
  /\ UNCHANGED <<nzb, next, names, chains, rarFiles, splitParts, content, total, loaded, mountState,
                 gone, clients, failures, lost, late>>

AsyncGetFilename ==
  /\ next \in File /\ read # Nothing
  /\ total' = read + 1 /\ read' = Nothing
  /\ lost' = lost + total - read
  /\ names' = [names EXCEPT ![next] = "asked"]
  /\ next' = next + 1
  /\ UNCHANGED <<nzb, chains, loaded, clients, failures>>
  /\ Settle({}, {}, rarFiles)
  /\ UsesState(TRUE)

\* Mount returns and drops its pointer to the mounter.
MountReturns ==
  /\ next = Len(nzb) + 1 /\ next' = next + 1
  /\ UNCHANGED <<nzb, read, names, chains, total, loaded, clients, failures, lost>>
  /\ Settle({}, {}, rarFiles)
  /\ UsesState(FALSE)

\* An article may always fail once the connections are being stopped.
Succeeds == UNCHANGED failures
Fails ==
  \/ clients = "up" /\ failures < MaxFailures /\ failures' = failures + 1
  \/ clients # "up" /\ UNCHANGED failures

\* The first segment of a file has come, or no segment will; the handler is posted.
NameArrives(i) ==
  /\ names[i] = "asked"
  /\ \/ names' = [names EXCEPT ![i] = "named"] /\ Succeeds
     \/ names' = [names EXCEPT ![i] = "unnamed"] /\ Fails
  /\ UNCHANGED <<nzb, next, read, chains, rarFiles, splitParts, content, total, loaded, mountState,
                 gone, clients, lost, late>>

\* Of the ErrorFiles the first that does not exist.
ErrorFile ==
  LET Path(n) == <<MountDir, NoExt("ErrorFile" \o ToString(n))>>
      k == CHOOSE n \in 1 .. Len(nzb) :
             /\ ~Exists(content, Path(n))
             /\ \A m \in 1 .. n - 1 : Exists(content, Path(m)) IN
  Path(k)

\* The handler that Mount gave to AsyncGetFilename.
Filename(i) ==
  /\ names[i] \in {"named", "unnamed"}
  /\ names' = [names EXCEPT ![i] = "over"]
  /\ LET named == names[i] = "named"
         f == IF named THEN NZBFileOf(i, nzb[i].name, nzb[i].size)
              ELSE NZBFileOf(i, NoExt("ERROR"), 0)
         dir == IF named THEN <<MountDir>> ELSE ErrorFile
         more == ChainsOf(f, dir) IN
     /\ chains' = chains \cup Started(more)
     /\ total' = total + Cardinality(more)
     /\ loaded' = loaded + Cardinality(more \ Busy(more)) + 1
     /\ UNCHANGED <<nzb, next, read, clients, failures, lost>>
     /\ Settle(EntriesOf(f, dir), PartsOf(f, dir), rarFiles)
     /\ UsesState(more # {})

\* The segments of a read have come, or one of them will not.
DataArrives(c, j) ==
  /\ c.reads[j].state = "asked"
  /\ \/ chains' = (chains \ {c}) \cup {[c EXCEPT !.reads[j].state = "arrived"]} /\ Succeeds
     \/ chains' = (chains \ {c}) \cup {[c EXCEPT !.reads[j].state = "failed"]} /\ Fails
  /\ UNCHANGED <<nzb, next, read, names, rarFiles, splitParts, content, total, loaded, mountState,
                 gone, clients, lost, late>>

IsReady(c, j) == j \in DOMAIN c.reads /\ c.reads[j].state \in {"arrived", "failed", "junk"}

\* The handler of a read of a file of the NZB: a size that is not the one asked
\* for ends the chain.
FileRead(c) ==
  /\ c.file.nzb # 0 /\ IsReady(c, 1)
  /\ \/ /\ c.reads[1].state = "arrived" /\ c.at + c.size <= c.file.size
        /\ Callback(c, TRUE, TRUE)
     \/ c.reads[1].state = "junk" /\ Callback(c, FALSE, TRUE)
     \/ /\ c.reads[1].state # "arrived" \/ c.at + c.size > c.file.size
        /\ Handled(c, TRUE, {})

\* The handler that MultipartFile gives to the read of a part: the last one calls
\* back, whatever was read.
PartRead(c, j) ==
  /\ c.file.nzb = 0 /\ IsReady(c, j)
  /\ LET d == [c EXCEPT !.reads[j].state = IF @ = "arrived" THEN "read" ELSE "bad"]
         done == \A k \in DOMAIN d.reads : d.reads[k].state \in {"read", "bad"}
         fresh == \A k \in DOMAIN d.reads : d.reads[k].state = "read"
         size == SumSeq([k \in DOMAIN d.reads |-> d.reads[k].size])
         hopeless == ~HasScope(d) /\ \E k \in DOMAIN d.reads : d.reads[k].state = "erased" IN
     \/ /\ done /\ gone
        /\ late' = late \cup {IF DOMAIN c.reads = {1} THEN "mounter" ELSE "parted"}
        /\ chains' = chains \ {c}
        /\ UNCHANGED <<nzb, next, read, names, rarFiles, splitParts, content, total, loaded,
                       mountState, gone, clients, failures, lost>>
     \/ /\ done /\ ~gone
        /\ IF size = c.size THEN Callback(c, fresh, j = 1) ELSE Handled(c, j = 1, {})
     \/ /\ ~done
        /\ chains' = (chains \ {c}) \cup (IF hopeless THEN {} ELSE {d})
        /\ loaded' = loaded + IF j = 1 THEN 1 ELSE 0
        /\ UNCHANGED <<nzb, next, read, names, total, clients, failures, lost>>
        /\ Settle({}, {}, rarFiles)
        /\ IF j = 1 THEN UsesState(FALSE) ELSE UNCHANGED late

\* Mutant: the requests for names forget their scopes.
Cancel_names ==
  /\ names' = [names EXCEPT ![1] = IF @ = "asked" THEN "over" ELSE @]
  /\ UNCHANGED <<nzb, next, read, chains, total, loaded, failures, lost, late>>
  /\ Settle({}, {}, rarFiles)

\* The cancel signal: the requests that wait are erased, with their scopes.
Cancel ==
  LET Erased(c) == [c EXCEPT !.reads = [j \in DOMAIN @ |->
                     IF @[j].state = "asked" THEN [@[j] EXCEPT !.state = "erased"] ELSE @[j]]]
      Stays(c) == HasScope(c) \/ \A j \in DOMAIN c.reads : c.reads[j].state # "erased"
      unheld == {c \in chains : HasScope(c) /\ ~HasScope(Erased(c))} IN
  /\ names' = [i \in File |-> IF names[i] = "asked" THEN "over" ELSE names[i]]
  /\ chains' = {c \in {Erased(d) : d \in chains} : Stays(c)}
  /\ loaded' = loaded + Cardinality(unheld) + Cardinality({i \in File : names[i] = "asked"})
  /\ UNCHANGED <<nzb, next, read, total, failures, lost, late>>
  /\ Settle({}, {}, rarFiles)

=============================================================================
