---------------------------- MODULE NZBDriveIMPL ----------------------------
(***************************************************************************)
(* The life of a drive (NZBDriveIMPL.cpp) with its FUSE front end          *)
(* (NZBFuseDrive.cpp): Start, Mount, Unmount and Stop, each called by a    *)
(* thread of its own, the io thread, and the thread of fuse_loop with one  *)
(* read at a time.  One NZB is mounted, once.                              *)
(*                                                                         *)
(* m_mutex is held by Unmount and Stop from beginning to end and by Mount  *)
(* for its first step.                                                     *)
(***************************************************************************)
EXTENDS NZBDriveMounter

CONSTANTS
  MaxStarts,   \* bound: calls of Start
  Stops,       \* bound: the NZBs with which Stop may be called
  MayUnmount, MayRead

ASSUME DriveAssumption == MaxStarts \in Nat /\ MayUnmount \in BOOLEAN /\ MayRead \in BOOLEAN

VARIABLES
  state,       \* m_state
  starts,
  ioStopped,   \* m_io_service.stop() was called and nothing resets it
  mount,       \* the call of Mount: "no", "checked", "in", "refused"
  unmount,     \* the call of Unmount: "no", "canceled", "done"
  stop,        \* the call of Stop: where it is
  fuse,        \* the fuse thread: "off", "loop", "exit" (to leave), "left"
  reading,     \* whether it is in GetFileData
  raced        \* history: Unmount erased the state while others might use it

driveVars == <<state, starts, ioStopped, mount, unmount, stop, fuse, reading, raced>>
vars == <<mounterVars, clients, driveVars>>

\* m_mutex
Locked == stop \in {"clients", "join"} \/ unmount = "canceled"

\* RegisterFile threw in the io thread, which lets no exception out.
Alive == mountState # "terminated"

Ready == (\E i \in File : names[i] \in {"named", "unnamed"})
         \/ \E c \in chains : \E j \in DOMAIN c.reads : IsReady(c, j)

-----------------------------------------------------------------------------
(* Start, Mount.                                                           *)

TypeOKDrive ==
  /\ TypeOK
  /\ state \in {"stopped", "started", "stopping"}
  /\ starts \in 0 .. MaxStarts
  /\ ioStopped \in BOOLEAN
  /\ mount \in {"no", "checked", "in", "refused"}
  /\ unmount \in {"no", "canceled", "done"}
  /\ stop \in {"no", "fuse", "clients", "join", "done"}
  /\ fuse \in {"off", "loop", "exit", "left"}
  /\ reading \in BOOLEAN /\ raced \in BOOLEAN

Init ==
  /\ MounterInit
  /\ state = "stopped" /\ starts = 0 /\ ioStopped = FALSE
  /\ mount = "no" /\ unmount = "no" /\ stop = "no"
  /\ fuse = "off" /\ reading = FALSE /\ raced = FALSE

\* The fuse thread of NZBFuseDrive::Start.
StartFuse == fuse' = "loop"

Start ==
  /\ Alive /\ state = "stopped" /\ stop \in {"no", "done"} /\ ~Locked /\ starts < MaxStarts
  /\ state' = "started" /\ starts' = starts + 1
  /\ StartFuse /\ stop' = "no" /\ clients' = "up"
  /\ UNCHANGED <<nzb, next, read, names, chains, rarFiles, splitParts, content, total, loaded,
                 mountState, gone, failures, lost, late>>
  /\ UNCHANGED <<ioStopped, mount, unmount, reading, raced>>

\* Mount looks at the state before it has the mutex.
MountChecks ==
  /\ Alive /\ mount = "no" /\ starts > 0
  /\ mount' = IF state = "started" THEN "checked" ELSE "refused"
  /\ UNCHANGED <<mounterVars, clients, state, starts, ioStopped, unmount, stop, fuse, reading, raced>>

MountEnters ==
  /\ Alive /\ mount = "checked" /\ ~Locked
  /\ mount' = "in"
  /\ mountState' = "Mounting" /\ next' = 1
  /\ UNCHANGED <<nzb, read, names, chains, rarFiles, splitParts, content, total, loaded, gone,
                 clients, failures, lost, late>>
  /\ UNCHANGED <<state, starts, ioStopped, unmount, stop, fuse, reading, raced>>

MountStep == Alive /\ (ReadTotal \/ AsyncGetFilename \/ MountReturns) /\ UNCHANGED driveVars

-----------------------------------------------------------------------------
(* Unmount.                                                                *)

\* Mutant: the state is erased without a cancel.
UnmountCancels_quiet ==
  /\ MayUnmount
  /\ unmount = "no" /\ ~Locked /\ mountState \in {"Mounting", "Mounted"}
  /\ unmount' = "canceled"
  /\ raced' = (mountState = "Mounting" /\ (Ready \/ next <= Len(nzb) + 1))
  /\ UNCHANGED <<mounterVars, clients, state, starts, ioStopped, mount, stop, fuse, reading>>

UnmountCancels ==
  /\ MayUnmount
  /\ unmount = "no" /\ ~Locked /\ mountState \in {"Mounting", "Mounted"}
  /\ unmount' = "canceled"
  /\ raced' = (mountState = "Mounting" /\ (Ready \/ next <= Len(nzb) + 1))
  /\ IF mountState = "Mounting" THEN Cancel ELSE UNCHANGED mounterVars
  /\ UNCHANGED clients
  /\ UNCHANGED <<state, starts, ioStopped, mount, stop, fuse, reading>>

UnmountErases ==
  /\ Alive /\ unmount = "canceled" /\ unmount' = "done"
  /\ mountState' = "erased" /\ content' = Unmount(content, <<MountDir>>)
  /\ UNCHANGED <<nzb, next, read, names, chains, rarFiles, splitParts, total, loaded, gone, clients, failures, lost, late>>
  /\ UNCHANGED <<state, starts, ioStopped, mount, stop, fuse, reading, raced>>

-----------------------------------------------------------------------------
(* Stop, with the front end first.                                         *)

\* Mutant: the connections are stopped before the front end.
StopFuse_last ==
  /\ Alive /\ nzb \in Stops
  /\ stop = "no" /\ state = "started"
  /\ stop' = "fuse" /\ fuse' = "exit" /\ clients' = "stopping"
  /\ UNCHANGED <<mounterVars, state, starts, ioStopped, mount, unmount, reading, raced>>

StopFuse ==
  /\ Alive /\ nzb \in Stops
  /\ stop = "no" /\ state = "started"
  /\ stop' = "fuse" /\ fuse' = "exit"
  /\ UNCHANGED <<mounterVars, clients, state, starts, ioStopped, mount, unmount, reading, raced>>

\* Cancels, and calls NewsClientCache::Stop, which may find a client of RestartClient
\* or StopClient in m_connectionsBin, or one that is still connecting.
StopCancels ==
  /\ stop = "fuse" /\ fuse = "left" /\ ~Locked
  /\ stop' = "clients" /\ state' = "stopping"
  /\ clients' \in {"stopping", "restarting"}
  /\ IF mountState \in {"Mounting", "Mounted"} THEN Cancel ELSE UNCHANGED mounterVars
  /\ UNCHANGED <<starts, ioStopped, mount, unmount, fuse, reading, raced>>

\* m_root_dir->Clear(), with NewsClientCache stopped.
StopClears ==
  /\ stop = "clients" /\ clients = "stopped"
  /\ stop' = "join" /\ state' = "stopped" /\ content' = {}
  /\ UNCHANGED <<nzb, next, read, names, chains, rarFiles, splitParts, total, loaded, mountState,
                 gone, clients, failures, lost, late>>
  /\ UNCHANGED <<starts, ioStopped, mount, unmount, fuse, reading, raced>>

\* The io thread runs out of handlers and is joined.
StopJoins ==
  /\ stop = "join" /\ ~Ready
  /\ stop' = "done" /\ ioStopped' = TRUE
  /\ UNCHANGED <<mounterVars, clients, state, starts, mount, unmount, fuse, reading, raced>>

-----------------------------------------------------------------------------
(* The io thread and the fuse thread.                                      *)

IoRuns == starts > 0 /\ ~ioStopped /\ Alive

\* AsyncDisconnectClients: one of Stop's clients sets the promise if it leaves the bin
\* empty.  A client that was in the bin before has no promise to set: when it is
\* the last to stop, Stop waits for ever, as it does for one of its own that goes
\* on connecting (NewsClientConnect.cpp:119) or is paused (NewsClientSocket.cpp:138).
ClientsStop ==
  /\ IoRuns
  /\ \/ clients = "stopping" /\ clients' = "stopped"
     \/ clients = "restarting" /\ clients' \in {"stopping", "hanging"}
  /\ UNCHANGED <<nzb, next, read, names, chains, rarFiles, splitParts, content, total, loaded,
                 mountState, gone, failures, lost, late>>
  /\ UNCHANGED driveVars

Arrival ==
  /\ IoRuns
  /\ \/ \E i \in File : NameArrives(i)
     \/ \E c \in chains : \E j \in DOMAIN c.reads : DataArrives(c, j)
  /\ UNCHANGED driveVars

IoHandler ==
  /\ IoRuns
  /\ \/ \E i \in File : Filename(i)
     \/ \E c \in chains : FileRead(c)
     \/ \E c \in chains : \E j \in DOMAIN c.reads : PartRead(c, j)
  /\ UNCHANGED driveVars

\* nzb_read of a file that is there; bound: once the mount is over.
FuseReads ==
  /\ MayRead /\ mountState \in {"Mounted", "erased"}
  /\ fuse = "loop" /\ ~reading /\ \E e \in content : Opens(content, e.path)
  /\ reading' = TRUE
  /\ UNCHANGED <<mounterVars, clients, state, starts, ioStopped, mount, unmount, stop, fuse, raced>>

\* Its segments have come or failed.
FuseReadEnds ==
  /\ reading /\ reading' = FALSE
  /\ IoRuns /\ clients = "up"
  /\ UNCHANGED <<mounterVars, clients, state, starts, ioStopped, mount, unmount, stop, fuse, raced>>

FuseLeaves ==
  /\ Alive /\ fuse = "exit" /\ ~reading /\ fuse' = "left"
  /\ UNCHANGED <<mounterVars, clients, state, starts, ioStopped, mount, unmount, stop, reading, raced>>

StopStep == Alive /\ (StopCancels \/ StopClears \/ StopJoins)

Next ==
  \/ Start \/ MountChecks \/ MountEnters \/ MountStep
  \/ UnmountCancels \/ UnmountErases
  \/ StopFuse \/ StopStep
  \/ ClientsStop \/ Arrival \/ IoHandler
  \/ FuseReads \/ FuseReadEnds \/ FuseLeaves

Spec == Init /\ [][Next]_vars

\* The threads run; the connections bring or fail every article until they are
\* stopped.  The io thread runs a handler whenever one is posted: that is
\* WF_vars(IoHandler), with the condition that enables it written out.
Threads == MountEnters \/ MountStep \/ UnmountErases \/ StopStep \/ ClientsStop
           \/ (Arrival /\ clients \notin {"stopped", "hanging"})
FairSpec ==
  /\ Spec
  /\ WF_vars(Threads) /\ WF_vars(FuseReadEnds) /\ WF_vars(FuseLeaves)
  /\ ([]<>~(IoRuns /\ Ready) \/ []<><<IoHandler>>_vars)

-----------------------------------------------------------------------------
(* Properties.                                                             *)

\* Every part that was announced is loaded or has somebody who will report it,
\* whatever was canceled, failed or lost in between: the status handler never
\* waits for a part that nobody will report (NewPartScope, ~NZBDriveMounterScope).
ScopesCounted ==
  total + lost = loaded + Cardinality({i \in File : names[i] \in {"asked", "named", "unnamed"}})
                 + Cardinality({c \in chains : HasScope(c)})

\* A handler, a scope or the destructor uses the mount state after Unmount, or
\* the mounter after its destructor, only if Unmount found the loop of Mount or
\* a posted handler still going, or a header lay in two parts of a file.
NoLateUse ==
  /\ "state" \in late => raced
  /\ "mounter" \notin late

\* The names of the files of an NZB and of those in its archives.
Inside(S) ==
  S \cup UNION {{Layout[a][i].name : i \in {j \in DOMAIN Layout[a] : Layout[a][j].type \in {"file", "local"}}}
                : a \in S \cap DOMAIN Layout}
NamesIn == [q \in NZBs |-> Inside(Inside({q[i].name : i \in DOMAIN q}))]
Expected ==
  [q \in NZBs |-> {n \in NamesIn[q] : n.ext = "" /\ \A m \in NamesIn[q] \cap DOMAIN Layout : m.base # n.base}
                  \cup {NoExt(n.base) : n \in {m \in NamesIn[q] : IsSplitName(m)}}]

\* The bytes stored for a file in the archives of an NZB.
StoredSize ==
  [q \in NZBs |-> [n \in NamesIn[q] |->
    LET Stored(a) == MapThenSumSet(LAMBDA i : Layout[a][i].size, {i \in DOMAIN Layout[a] : Layout[a][i].name = n})
    IN MapThenSumSet(Stored, NamesIn[q] \cap DOMAIN Layout)]]

\* When the mounter is gone everything that is in the archives is in the
\* directory, and what was in several volumes with all its bytes, if nothing failed,
\* nobody canceled, no header lay in two parts, no volume is there twice and its
\* name is not that of an archive's directory.
NothingMissing ==
  /\ Alive /\ gone /\ chains = {} /\ late = {} /\ starts = 1 /\ failures = 0 /\ unmount = "no" /\ stop \in {"no", "fuse"}
  /\ \A i, j \in File : nzb[i].name = nzb[j].name => i = j
  => \A n \in Expected[nzb] : \E e \in content :
       /\ [e.path[Len(e.path)] EXCEPT !.ext = ""] = n
       /\ (\E k \in DOMAIN e.file.parts : IsRARName(e.file.parts[k].file.name))
            => e.file.size = StoredSize[nzb][e.file.name]

\* A file with bytes that is in the directory is all there, in whatever order its
\* volumes came and however often: the parts have numbers without a gap, the first is
\* the beginning of the file and the last its end, and those in volumes are each in
\* the volume with its number, all of the archive the file was found in.
VolumesInOrder ==
  \A e \in content : e.file.nzb = 0 /\ e.file.size # 0 =>
    LET numbers == DOMAIN e.file.parts IN
    /\ numbers = Min(numbers) .. Max(numbers)
    /\ e.file.parts[Min(numbers)].bof /\ e.file.parts[Max(numbers)].eof
    /\ \A k \in numbers :
         LET volume == e.file.parts[k].file.name IN
         IsRARName(volume) =>
           RARPart(volume) = k /\ e.path[Len(e.path) - 1] = NoExt(volume.base)

\* A read of a file in the directory gets the bytes it asked for, whatever parts
\* they are in, and so does what is asked about a range, if every file on the way
\* to a byte has it and no part without bytes.
ReadsRight ==
  \A e \in content :
    \A from \in 0 .. e.file.size : \A to \in from + 1 .. e.file.size :
      (\A o \in from .. to - 1 : HasByte(e.file, Len(e.path), o)) =>
        /\ BytesRead(NZBReads(e.file, Len(e.path), from, to - from))
             = [k \in 1 .. to - from |-> ByteAt(e.file, Len(e.path), from + k - 1)]
        /\ e.file.nzb = 0 => Ranges(e.file, from, to) = Reads(e.file, from, to - from)

\* FUSE can browse to every file: each directory on its path lists the next name
\* and is taken for a directory, and the file for a file, in whatever order the
\* files, and those of the archives, were registered.
Browsable ==
  \A e \in content :
    /\ Attributes(content, e.path) = "File"
    /\ \A k \in 0 .. Len(e.path) - 1 :
         LET dir == SubSeq(e.path, 1, k) IN
         Attributes(content, dir) = "Directory" /\ e.path[k + 1] \in Readdir(content, dir)

\* A mount that is going on ends, unless the drive is stopped.  It does not after
\* a second Start, which runs no io thread, and ends with the program when a file
\* cannot be registered.
MountEnds == mountState = "Mounting" ~> (mountState # "Mounting" \/ clients # "up" \/ starts > 1)

\* Stop returns, whatever reader, mount or Unmount it meets: the readers of FUSE, its
\* own connections and the io thread come to an end.  It does not after a second
\* Start, nor when a client that was in the bin before Stop is the last to leave
\* it, for then nobody sets the promise, nor when one that was connecting never ends.
StopReturns == stop = "fuse" ~> (stop = "done" \/ starts > 1 \/ clients = "hanging")
=============================================================================
