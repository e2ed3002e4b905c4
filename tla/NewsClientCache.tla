--------------------------- MODULE NewsClientCache ---------------------------
(***************************************************************************)
(* The command dispatcher of NZBDriveLib (NewsClientCache.cpp): news       *)
(* servers, the clients (NNTP connections) open to each of them, the queue *)
(* of commands waiting for a client and the commands each client runs.     *)
(*                                                                         *)
(* Everything runs on ONE io_service thread.  Closures handed to m_strand  *)
(* run one at a time in the order of the sequence  strand.  dispatch()     *)
(* from the io thread runs the closure at once when nothing else holds or  *)
(* waits for the strand and queues it otherwise, so a command's completion *)
(* (ClientDone) may be queued behind other closures; the handlers of the   *)
(* sockets and timers, and the ClientStopped callbacks, run outside the    *)
(* strand, between two closures.  Other threads only append to the strand. *)
(*                                                                         *)
(* A handler is one or more steps of the io thread: the loops of           *)
(* DispatchCommands, AsyncDisconnectClients and NewsClient::OnDone take a  *)
(* step per iteration, and no other step of the io thread comes between    *)
(* (the predicate IoIdle). DispatchCommands is not re-entered: only the    *)
(* Run of an article without groups ends before it returns.                *)
(***************************************************************************)
EXTENDS Naturals, Sequences, SequencesExt, FiniteSets

CONSTANTS
  Server,     \* the serverIDs that AddServer hands out: natural numbers
  Backup,     \* the servers added with NewsServerPriority::Backup
  Threads,    \* Threads[s]: connections of server s
  Pipeline,   \* Pipeline[s]: commands a client of s runs at a time
  Gen,        \* bound: incarnations of a connection that coexist
  Article,    \* the GetArticleStream commands
  Cancelable, \* the articles posted with a SigCancel
  Removable,  \* the servers RemoveServer may be called for
  MayStop,    \* whether Stop may be called
  MaxStrand,  \* bound: closures other threads keep queued on the strand
  MaxFaults   \* bound: network faults and refused logins

ASSUME NCCAssumption ==
  /\ Server \subseteq Nat
  /\ Backup \subseteq Server
  /\ Removable \subseteq Server
  /\ Cancelable \subseteq Article
  /\ Threads \in [Server -> Nat]
  /\ Pipeline \in [Server -> Nat \ {0}]
  /\ Gen \subseteq Nat
  /\ 0 \in Gen
  /\ MayStop \in BOOLEAN
  /\ MaxStrand \in Nat
  /\ MaxFaults \in Nat

\* A MyClient object.  The object that replaces a stopped one has the same
\* clientID and differs in gen; gen is no field of the program.
Client == UNION {[srv : {s}, id : 0 .. Threads[s] - 1, gen : Gen] : s \in Server}

\* A command: an article, or the login (NewsClientConnect) that StartClient
\* makes for a new client, named after the client.
ASSUME CommandsDiffer == Article \cap Client = {}
Command == Article \cup Client

\* What a finished command tells the dispatcher, NewsClient::DoneCode.
DoneCode == {"OK", "Error", "RetryOther", "ReconnectRetry", "DisconnectClient"}

\* The promises that RemoveServer(s) and Stop wait for.
Promise == [do : {"remove"}, srv : Removable] \cup [do : {"stop"}]
RemovePromise(s) == [do |-> "remove", srv |-> s]
StopPromise == [do |-> "stop"]

\* MyClient::ClientStopped: not set, set by StopClient, by RestartClient, or
\* by AsyncDisconnectClients for a promise.
StopHandler == [do : {"none", "erase", "restart"}] \cup Promise

Closure == [op : {"post"}, cmd : Article]
             \cup [op : {"done"}, cli : Client, cmd : Command, code : DoneCode]
             \cup [op : {"add"}, srv : Server]
             \cup [op : {"remove"}, srv : Removable]
             \cup [op : {"stop", "event"}]

VARIABLES
  strand,          \* closures queued on m_strand
  unwind,          \* the calls of m_done that NewsClient::OnDone still makes
  disconnecting,   \* clients AsyncDisconnectClients or ClientDone still closes
  stopping,        \* the client whose OnStopped runs next, if any
  redispatch,      \* the running closure still has to call DispatchCommands
  scan,            \* the iterator of DispatchCommands, 0 outside of it
  servers,         \* keys of m_connections
  connections,     \* m_connections[s], empty when s is no key
  connectionsBin,  \* m_connectionsBin
  clientStopped,   \* MyClient::ClientStopped of each client
  handles,         \* whether NewsClient::m_handles > 0
  socket,          \* "open"; "timeout" or "closed" after Disconnect
  commands,        \* MyClient::commands
  commandsWaiting, \* m_commandsWaiting
  canceled,        \* MyCommand::m_canceled
  failed,          \* MyCommand::m_failed
  timeout,         \* MyCommand::m_timeout
  tryAgain,        \* history: commands whose m_timeout DispatchCommands has cleared
  phase,           \* which container owns the command (shared_ptr)
  promise,         \* the promises of RemoveServer and Stop
  added,           \* servers AddServer was called for
  faults,          \* network faults so far
  crashed          \* the process was brought down: how, or "no"

apiVars == <<promise, added>>
clientVars == <<clientStopped, handles, socket, commands>>
connVars == <<servers, connections, connectionsBin>>
commandVars == <<commandsWaiting, canceled, failed, timeout, tryAgain, phase>>
ioVars == <<unwind, disconnecting, stopping, redispatch, scan>>
vars == <<strand, ioVars, connVars, clientVars, commandVars, apiVars, faults,
          crashed>>

-----------------------------------------------------------------------------

\* m_commandsRunning: from RunCommand to the end of ClientDone.
commandsRunning == {c \in Command : phase[c] \in {"running", "finishing"}}

\* MyCommandT::Pipeable: only ReadArticleStream commands are.
Pipeable(c) == c \in Article

\* Mutant: one command too many.
HasCapacity_off_by_one(k) ==
  /\ Len(commands[k]) <= Pipeline[k.srv]
  /\ Len(commands[k]) # 1 \/ Pipeable(Head(commands[k]))

HasCapacity(k) ==
  /\ Len(commands[k]) < Pipeline[k.srv]
  /\ Len(commands[k]) # 1 \/ Pipeable(Head(commands[k]))

\* ClientOrder compares clientIDs only: the member of m_connections[k.srv]
\* that find, insert and erase take for k.
SameID(k) == {o \in connections[k.srv] : o.id = k.id}

\* A shared_ptr to client k exists.
Held(k) ==
  \/ k \in connections[k.srv] \cup connectionsBin \cup disconnecting
  \/ \E i \in DOMAIN strand : strand[i].op = "done" /\ strand[i].cli = k

\* A client object that exists, or whose login command does.
Alive(k) ==
  \/ Held(k)
  \/ phase[k] # "released"
  \/ \E i \in DOMAIN unwind : unwind[i].cli = k

\* The object StartClient allocates, at most one.
NewClient(s, id) ==
  {k \in Client : /\ k.srv = s /\ k.id = id /\ ~ Alive(k)
                  /\ \A o \in Client : o.srv = s /\ o.id = id /\ ~ Alive(o)
                                          => k.gen <= o.gen}

\* Nothing runs once the process was brought down.
Up == crashed = "no"

\* The running closure is over, but OnDone may have calls of m_done to make.
ClosureOver ==
  /\ Up
  /\ disconnecting = {}
  /\ stopping = {}
  /\ ~ redispatch
  /\ scan = 0

IoIdle == ClosureOver /\ unwind = <<>>

-----------------------------------------------------------------------------
(* The servers DispatchCommands considers for a command.                   *)

Primary == Server \ Backup

\* Mutant: no HasFailed test.
Tier_ignores_failed(c) == IF servers \cap Primary # {} THEN servers \cap Primary ELSE servers

\* Mutant: backup servers are asked as soon as primary servers.
Tier_ignores_priority(c) == {s \in servers : s \notin failed[c]}

\* The servers of the first priority that has one the command has not failed
\* on.
Tier(c) ==
  LET open == {s \in servers : s \notin failed[c]} IN
  IF open \cap Primary # {} THEN open \cap Primary ELSE open

Ready(c) == Tier(c) \ timeout[c]

Candidates(c) ==
  {k \in UNION {connections[s] : s \in Ready(c)} : HasCapacity(k)}

\* The client the nested loops over m_connections meet first.
FirstOf(k, K) ==
  /\ k \in K
  /\ \A o \in K : k.srv < o.srv \/ (k.srv = o.srv /\ k.id <= o.id)

-----------------------------------------------------------------------------
(* Parts of the actions.                                                   *)

Post(closure) == strand' = Append(strand, closure)

\* Clients that lost their last shared_ptr are destroyed: ~NewsClient aborts
\* when handlers of the client are still pending.
DestroyClients ==
  crashed' = IF \E k \in Client : handles'[k] /\ ~ Held(k)' THEN "handles" ELSE crashed

\* StartClient, for a set N of new objects of one server s.  RunCommand runs
\* the login on each, also on one that insert() rejects.
StartClients(s, N) ==
  /\ servers' = IF N = {} THEN servers ELSE servers \cup {s}
  /\ connections' = [connections EXCEPT ![s] = @ \cup {n \in N : SameID(n) = {}}]
  /\ clientStopped' = [k \in Client |-> IF k \in N THEN [do |-> "none"] ELSE clientStopped[k]]
  /\ handles' = [k \in Client |-> handles[k] \/ k \in N]
  /\ socket' = [k \in Client |-> IF k \in N THEN "open" ELSE socket[k]]
  /\ commands' = [k \in Client |-> IF k \in N THEN <<k>> ELSE commands[k]]
  /\ phase' = [c \in Command |-> IF c \in N THEN "running" ELSE phase[c]]
  /\ failed' = [c \in Command |-> IF c \in N THEN {} ELSE failed[c]]
  /\ timeout' = [c \in Command |-> IF c \in N THEN {} ELSE timeout[c]]
  /\ tryAgain' = tryAgain \ N
  /\ canceled' = canceled \ N

\* Take m_connections[k.srv].erase(k): it reads, and so may create, the entry
\* of the server and removes the member with k's clientID, k or another object.
EraseConnection(k) == connections' = [connections EXCEPT ![k.srv] = @ \ SameID(k)]

\* The end of ClientDone for a client to stop or to restart: into the bin with
\* the ClientStopped handler h, if an object was erased.
MoveToBin(k, h) ==
  IF SameID(k) = {} THEN UNCHANGED <<connectionsBin, clientStopped>>
  ELSE /\ connectionsBin' = connectionsBin \cup {k}
       /\ clientStopped' = [clientStopped EXCEPT ![k] = [do |-> h]]

StopClient(k) ==
  /\ EraseConnection(k)
  /\ MoveToBin(k, "erase")
  /\ servers' = IF SameID(k) # {} /\ connections'[k.srv] = {}
                THEN servers \ {k.srv} ELSE servers \cup {k.srv}

RestartClient(k) ==
  /\ EraseConnection(k)
  /\ MoveToBin(k, "restart")
  /\ servers' = servers \cup {k.srv}

\* Mutants: the next server is recorded, or none.
AddFailed_next(k, c) == failed' = [failed EXCEPT ![c] = @ \cup {k.srv + 1}]
AddFailed_nothing(k, c) == UNCHANGED failed

\* MyCommand::AddFailed
AddFailed(k, c) == failed' = [failed EXCEPT ![c] = @ \cup {k.srv}]

\* Mutant: the command is not put back.
Requeue_drops(c) ==
  /\ UNCHANGED commandsWaiting
  /\ phase' = [phase EXCEPT ![c] = "waiting"]

Requeue(c) ==
  /\ commandsWaiting' = <<c>> \o commandsWaiting
  /\ phase' = [phase EXCEPT ![c] = "waiting"]

Release(c) ==
  /\ phase' = [phase EXCEPT ![c] = "released"]
  /\ UNCHANGED commandsWaiting

\* ClientDone: command c of client k ended with the code.
ClientDone(k, c, code) ==
  /\ redispatch' = TRUE
  /\ UNCHANGED <<stopping, scan, handles, socket, canceled, tryAgain, apiVars, faults>>
  /\ \/ /\ code = "DisconnectClient"
        /\ StopClient(k)
        /\ disconnecting' = {k}
        /\ Release(c)
        /\ UNCHANGED <<failed, timeout>>
     \/ /\ code \in {"Error", "RetryOther"}
        /\ AddFailed(k, c)
        /\ Requeue(c)
        /\ UNCHANGED <<connVars, clientStopped, timeout, disconnecting>>
     \/ /\ code = "ReconnectRetry" \/ (code = "OK" /\ socket[k] # "open")
        /\ timeout' = [timeout EXCEPT ![c] = @ \cup {k.srv}]
        /\ Requeue(c)
        /\ RestartClient(k)
        /\ UNCHANGED <<failed, disconnecting>>
     \/ /\ code = "OK" /\ socket[k] = "open"
        /\ Release(c)
        /\ UNCHANGED <<connVars, clientStopped, failed, timeout, disconnecting>>
  /\ DestroyClients

-----------------------------------------------------------------------------
(* Calls from other threads.                                               *)

AddServer(s) ==
  /\ Up
  /\ s \notin added
  /\ \A o \in Server \ added : s <= o
  /\ Len(strand) < MaxStrand
  /\ added' = added \cup {s}
  /\ Post([op |-> "add", srv |-> s])
  /\ UNCHANGED <<ioVars, connVars, clientVars, commandVars, promise, faults, crashed>>

\* GetArticleStream: PostCommand hands the command to the strand.
GetArticleStream(a) ==
  /\ Up
  /\ phase[a] = "new"
  /\ Len(strand) < MaxStrand
  /\ phase' = [phase EXCEPT ![a] = "posted"]
  /\ Post([op |-> "post", cmd |-> a])
  /\ UNCHANGED <<ioVars, connVars, clientVars, commandsWaiting, canceled, failed,
                 timeout, tryAgain, apiVars, faults, crashed>>

\* MyCommand::Cancel, from the thread that raises the SigCancel.
Cancel(a) ==
  /\ Up
  /\ phase[a] \notin {"new", "released"}
  /\ a \notin canceled
  /\ canceled' = canceled \cup {a}
  /\ UNCHANGED <<strand, ioVars, connVars, clientVars, commandsWaiting, failed, timeout, tryAgain,
                 phase, apiVars, faults, crashed>>

RemoveServer(s) ==
  /\ Up
  /\ s \in added
  /\ promise[RemovePromise(s)] = "none"
  /\ Len(strand) < MaxStrand
  /\ promise' = [promise EXCEPT ![RemovePromise(s)] = "pending"]
  /\ Post([op |-> "remove", srv |-> s])
  /\ UNCHANGED <<ioVars, connVars, clientVars, commandVars, added, faults, crashed>>

Stop ==
  /\ Up
  /\ MayStop
  /\ promise[StopPromise] = "none"
  /\ Len(strand) < MaxStrand
  /\ promise' = [promise EXCEPT ![StopPromise] = "pending"]
  /\ Post([op |-> "stop"])
  /\ UNCHANGED <<ioVars, connVars, clientVars, commandVars, added, faults, crashed>>

\* SendConnectionInfoEvents, once a second from NZBDriveIMPL::HeartBeat.
HeartBeat ==
  /\ Up
  /\ Len(strand) < MaxStrand
  /\ Post([op |-> "event"])
  /\ UNCHANGED <<ioVars, connVars, clientVars, commandVars, apiVars, faults, crashed>>

-----------------------------------------------------------------------------
(* The closures of the strand.                                             *)

\* The closure at the head of the strand starts.
Run(closure) ==
  /\ IoIdle
  /\ strand # <<>>
  /\ closure = Head(strand)
  /\ strand' = Tail(strand)

RunAddServer(s) ==
  /\ Run([op |-> "add", srv |-> s])
  /\ StartClients(s, UNION {NewClient(s, i) : i \in 0 .. Threads[s] - 1})
  /\ UNCHANGED <<ioVars, connectionsBin, commandsWaiting, apiVars, faults>>
  /\ DestroyClients

RunPostCommand(a) ==
  /\ Run([op |-> "post", cmd |-> a])
  /\ commandsWaiting' = Append(commandsWaiting, a)
  /\ phase' = [phase EXCEPT ![a] = "waiting"]
  /\ redispatch' = TRUE
  /\ UNCHANGED <<unwind, disconnecting, stopping, scan, connVars, clientVars, canceled,
                 failed, timeout, tryAgain, apiVars, faults, crashed>>

RunClientDone(k, c, code) ==
  /\ Run([op |-> "done", cli |-> k, cmd |-> c, code |-> code])
  /\ ClientDone(k, c, code)
  /\ UNCHANGED <<unwind, commands>>

\* AsyncDisconnectClients for the set K taken out of m_connections.
AsyncDisconnectClients(K, p) ==
  /\ connectionsBin' = connectionsBin \cup K
  /\ promise' = [promise EXCEPT ![p] = IF K = {} THEN "ready" ELSE @]
  /\ clientStopped' = [k \in Client |-> IF k \in K THEN p ELSE clientStopped[k]]
  /\ disconnecting' = K

RunRemoveServer(s) ==
  /\ Run([op |-> "remove", srv |-> s])
  /\ servers' = servers \ {s}
  /\ connections' = [connections EXCEPT ![s] = {}]
  /\ AsyncDisconnectClients(connections[s], RemovePromise(s))
  /\ UNCHANGED <<unwind, stopping, redispatch, scan, handles, socket, commands,
                 commandVars, added, faults, crashed>>

RunStop ==
  LET waiting == Range(commandsWaiting) IN
  /\ Run([op |-> "stop"])
  /\ commandsWaiting' = <<>>
  /\ phase' = [c \in Command |-> IF c \in waiting THEN "released" ELSE phase[c]]
  /\ canceled' = canceled \cup waiting \cup commandsRunning
  /\ servers' = {}
  /\ connections' = [s \in Server |-> {}]
  /\ AsyncDisconnectClients(UNION {connections[s] : s \in Server}, StopPromise)
  /\ UNCHANGED <<unwind, stopping, redispatch, scan, handles, socket, commands, failed,
                 timeout, tryAgain, added, faults, crashed>>

\* SendEventQueueEmptyEvent, SendConnectionInfoEvents: no state changes, but
\* the strand is taken.
RunEvent ==
  /\ Run([op |-> "event"])
  /\ UNCHANGED <<ioVars, connVars, clientVars, commandVars, apiVars, faults, crashed>>

-----------------------------------------------------------------------------
(* Steps within a closure or a handler.                                    *)

\* NewsClient::Disconnect; with no handler pending it calls OnStopped.
Disconnect(k) ==
  /\ Up
  /\ k \in disconnecting /\ stopping = {}
  /\ disconnecting' = disconnecting \ {k}
  /\ socket' = [socket EXCEPT ![k] = IF @ = "open" THEN "closed" ELSE @]
  /\ stopping' = IF handles[k] THEN {} ELSE {k}
  /\ UNCHANGED <<strand, unwind, redispatch, scan, connVars, clientStopped, handles,
                 commands, commandVars, apiVars, faults>>
  /\ DestroyClients

\* OnStopped: the ClientStopped handler that RestartClient set.
OnStoppedRestart(k) ==
  /\ Up
  /\ k \in stopping
  /\ clientStopped[k].do = "restart"
  /\ stopping' = {}
  /\ connectionsBin' = connectionsBin \ {k}
  /\ NewClient(k.srv, k.id) # {}
  /\ StartClients(k.srv, NewClient(k.srv, k.id))
  /\ UNCHANGED <<strand, unwind, disconnecting, redispatch, scan, commandsWaiting,
                 apiVars, faults>>
  /\ DestroyClients

\* OnStopped: no handler, or the one that StopClient set.
OnStoppedErase(k) ==
  /\ Up
  /\ k \in stopping
  /\ clientStopped[k].do \in {"none", "erase"}
  /\ stopping' = {}
  /\ connectionsBin' = IF clientStopped[k].do = "none" THEN connectionsBin
                       ELSE connectionsBin \ {k}
  /\ UNCHANGED <<strand, unwind, disconnecting, redispatch, scan, servers, connections,
                 clientVars, commandVars, apiVars, faults, crashed>>

\* OnStopped: the handler AsyncDisconnectClients set.  A second set_value
\* throws std::future_error out of the io thread.
OnStoppedPromise(k) ==
  LET p == clientStopped[k] IN
  /\ Up
  /\ k \in stopping
  /\ p \in Promise
  /\ stopping' = {}
  /\ connectionsBin' = connectionsBin \ {k}
  /\ IF connectionsBin' # {} THEN UNCHANGED <<promise, crashed>>
     ELSE /\ promise' = [promise EXCEPT ![p] = "ready"]
          /\ crashed' = IF promise[p] = "ready" THEN "promise" ELSE crashed
  /\ UNCHANGED <<strand, unwind, disconnecting, redispatch, scan, servers, connections,
                 clientVars, commandVars, added, faults>>

\* NewsClient::OnDone calls m_done for the oldest command of the client:
\* Completed pops it and dispatch runs ClientDone at once or queues it.
CommandDone ==
  LET k == unwind[1].cli
      c == Head(commands[k])
      code == unwind[1].code IN
  /\ ClosureOver /\ unwind # <<>>
  /\ unwind' = Tail(unwind)
  /\ commands' = [commands EXCEPT ![k] = Tail(@)]
  /\ IF strand = <<>>
     THEN UNCHANGED strand /\ ClientDone(k, c, code)
     ELSE /\ Post([op |-> "done", cli |-> k, cmd |-> c, code |-> code])
          /\ phase' = [phase EXCEPT ![c] = "finishing"]
          /\ UNCHANGED <<disconnecting, stopping, redispatch, scan, connVars,
                         clientStopped, handles, socket, commandsWaiting, canceled,
                         failed, timeout, tryAgain, apiVars, faults, crashed>>

-----------------------------------------------------------------------------
(* DispatchCommands.                                                       *)

DispatchBegin ==
  /\ Up
  /\ redispatch /\ disconnecting = {} /\ stopping = {}
  /\ redispatch' = FALSE
  /\ scan' = IF servers = {} \/ commandsWaiting = <<>> THEN 0 ELSE 1
  /\ UNCHANGED <<strand, unwind, disconnecting, stopping, connVars, clientVars,
                 commandVars, apiVars, faults, crashed>>

\* The iterator is at command c.
At(c) ==
  /\ Up
  /\ scan \in DOMAIN commandsWaiting
  /\ c = commandsWaiting[scan]

\* Mutant: nothing is erased.
EraseWaiting_nothing == UNCHANGED commandsWaiting

EraseWaiting == commandsWaiting' = RemoveAt(commandsWaiting, scan)

\* Mutant: m_canceled is not tested.
Wanted_ignores_cancel(c) == At(c)

Wanted(c) == At(c) /\ c \notin canceled

DispatchCanceled(c) ==
  /\ At(c) /\ c \in canceled
  /\ EraseWaiting
  /\ phase' = [phase EXCEPT ![c] = "released"]
  /\ UNCHANGED <<strand, ioVars, connVars, clientVars, canceled, failed, timeout,
                 tryAgain, apiVars, faults, crashed>>

\* RunCommand on client k.  Run only writes and waits: an article has a group.  One
\* without would end in Run, and ClientDone would push it to the front of the
\* deque and call DispatchCommands while the iterator of this loop is live.
DispatchRun(c, k) ==
  /\ Wanted(c)
  /\ FirstOf(k, Candidates(c))
  /\ EraseWaiting
  /\ phase' = [phase EXCEPT ![c] = "running"]
  /\ commands' = [commands EXCEPT ![k] = Append(@, c)]
  /\ handles' = [handles EXCEPT ![k] = TRUE]
  /\ tryAgain' = tryAgain \ {c}
  /\ UNCHANGED <<strand, ioVars, connVars, clientStopped, socket, canceled, failed,
                 timeout, apiVars, faults, crashed>>

\* "failed on all servers"
DispatchFailed(c) ==
  /\ Wanted(c)
  /\ Tier(c) = {}
  /\ EraseWaiting
  /\ phase' = [phase EXCEPT ![c] = "released"]
  /\ UNCHANGED <<strand, ioVars, connVars, clientVars, canceled, failed, timeout,
                 tryAgain, apiVars, faults, crashed>>

\* Mutant: the loop is left at the first command without a client.
DispatchSkip_break(c) ==
  /\ Wanted(c)
  /\ Tier(c) # {} /\ Candidates(c) = {}
  /\ timeout' = [timeout EXCEPT ![c] = IF Ready(c) = {} THEN {} ELSE @]
  /\ tryAgain' = IF Ready(c) = {} THEN tryAgain \cup {c} ELSE tryAgain \ {c}
  /\ scan' = Len(commandsWaiting) + 1
  /\ UNCHANGED <<strand, unwind, disconnecting, stopping, redispatch, connVars,
                 clientVars, commandsWaiting, canceled, failed, phase, apiVars, faults,
                 crashed>>

\* No client is free: the command keeps its place.
DispatchSkip(c) ==
  /\ Wanted(c)
  /\ Tier(c) # {} /\ Candidates(c) = {}
  /\ timeout' = [timeout EXCEPT ![c] = IF Ready(c) = {} THEN {} ELSE @]
  /\ tryAgain' = IF Ready(c) = {} THEN tryAgain \cup {c} ELSE tryAgain \ {c}
  /\ scan' = scan + 1
  /\ UNCHANGED <<strand, unwind, disconnecting, stopping, redispatch, connVars,
                 clientVars, commandsWaiting, canceled, failed, phase, apiVars, faults,
                 crashed>>

DispatchEnd ==
  /\ Up
  /\ scan > Len(commandsWaiting)
  /\ scan' = 0
  /\ IF commandsWaiting = <<>> THEN Post([op |-> "event"]) ELSE UNCHANGED strand
  /\ UNCHANGED <<unwind, disconnecting, stopping, redispatch, connVars, clientVars,
                 commandVars, apiVars, faults, crashed>>

-----------------------------------------------------------------------------
(* The connections.  NewsClient serves the commands of a client in order.  *)

\* What the oldest command c of client k may end with.  After Disconnect only
\* a reply that was already buffered ends it with another code than the one
\* HandleError (article) or ErrorConnecting (login) picks.
Codes(k, c) ==
  IF c \in Article
  THEN CASE socket[k] = "open"    -> {"OK", "RetryOther", "ReconnectRetry", "Error"}
         [] socket[k] = "timeout" -> {"OK", "RetryOther", "ReconnectRetry"}
         [] socket[k] = "closed"  -> {"OK", "RetryOther", "ReconnectRetry", "DisconnectClient"}
  ELSE {"OK", "Error", "ReconnectRetry", "DisconnectClient"}

\* Bound: what MaxFaults counts, a code that an open connection ends a command with
\* when it breaks or its login is refused.
Fault(k, code) == socket[k] = "open" /\ code \notin {"OK", "RetryOther"}

\* A handler of the socket ends the oldest command of k; OnDone also ends the
\* first commands pipelined behind it when the connection is given up.
Finish(k, code, n) ==
  /\ IoIdle
  /\ n \in 1 .. Len(commands[k])
  /\ code \in Codes(k, Head(commands[k]))
  /\ n > 1 => code \in {"ReconnectRetry", "DisconnectClient"}
  /\ Fault(k, code) => faults < MaxFaults
  /\ faults' = IF Fault(k, code) THEN faults + 1 ELSE faults
  /\ unwind' = [i \in 1 .. n |-> [cli |-> k, code |-> code]]
  /\ UNCHANGED <<strand, disconnecting, stopping, redispatch, scan, connVars, clientVars,
                 commandVars, apiVars, crashed>>

\* CloseTimeout: no answer within the timeout, or the timer's handler was queued
\* already when the answer came.
CloseTimeout(k) ==
  /\ IoIdle
  /\ handles[k]
  /\ socket[k] = "open"
  /\ faults < MaxFaults
  /\ faults' = faults + 1
  /\ socket' = [socket EXCEPT ![k] = "timeout"]
  /\ UNCHANGED <<strand, ioVars, connVars, clientStopped, handles, commands, commandVars,
                 apiVars, crashed>>

\* The last pending handler of a client is destroyed: ~HandleCount calls
\* OnStopped.
Drain(k) ==
  /\ IoIdle
  /\ handles[k] /\ commands[k] = <<>>
  /\ handles' = [handles EXCEPT ![k] = FALSE]
  /\ stopping' = IF clientStopped[k].do = "none" THEN {} ELSE {k}
  /\ UNCHANGED <<strand, unwind, disconnecting, redispatch, scan, connVars, clientStopped,
                 socket, commands, commandVars, apiVars, faults, crashed>>

-----------------------------------------------------------------------------

Init ==
  /\ strand = <<>>
  /\ unwind = <<>>
  /\ disconnecting = {}
  /\ stopping = {}
  /\ redispatch = FALSE
  /\ scan = 0
  /\ servers = {}
  /\ connections = [s \in Server |-> {}]
  /\ connectionsBin = {}
  /\ clientStopped = [k \in Client |-> [do |-> "none"]]
  /\ handles = [k \in Client |-> FALSE]
  /\ socket = [k \in Client |-> "open"]
  /\ commands = [k \in Client |-> <<>>]
  /\ commandsWaiting = <<>>
  /\ canceled = {}
  /\ failed = [c \in Command |-> {}]
  /\ timeout = [c \in Command |-> {}]
  /\ tryAgain = {}
  /\ phase = [c \in Command |-> IF c \in Article THEN "new" ELSE "released"]
  /\ promise = [p \in Promise |-> "none"]
  /\ added = {}
  /\ faults = 0
  /\ crashed = "no"

ApiStep ==
  \/ \E s \in Server : AddServer(s)
  \/ \E a \in Article : GetArticleStream(a)
  \/ \E a \in Cancelable : Cancel(a)
  \/ \E s \in Removable : RemoveServer(s)
  \/ Stop
  \/ HeartBeat

ClosureStep ==
  \/ \E s \in Server : RunAddServer(s)
  \/ \E a \in Article : RunPostCommand(a)
  \/ \E k \in Client, c \in Command, code \in DoneCode : RunClientDone(k, c, code)
  \/ \E s \in Removable : RunRemoveServer(s)
  \/ RunStop
  \/ RunEvent

HandlerStep ==
  \/ \E k \in Client : \/ Disconnect(k)
                        \/ OnStoppedRestart(k)
                        \/ OnStoppedErase(k)
                        \/ OnStoppedPromise(k)
  \/ CommandDone

DispatchStep ==
  \/ DispatchBegin
  \/ \E c \in Command : \/ DispatchCanceled(c)
                         \/ \E k \in Client : DispatchRun(c, k)
                         \/ DispatchFailed(c)
                         \/ DispatchSkip(c)
  \/ DispatchEnd

NetworkStep ==
  \E k \in Client : \/ \E code \in DoneCode : \E n \in 1 .. Len(commands[k]) :
                          Finish(k, code, n)
                    \/ CloseTimeout(k)
                    \/ Drain(k)

Next == ApiStep \/ ClosureStep \/ HandlerStep \/ DispatchStep \/ NetworkStep

Spec == Init /\ [][Next]_vars

-----------------------------------------------------------------------------
(* The service the dispatcher implements, seen from the posted articles.   *)

\* The server whose client runs article a, or ran it until a ClientDone that
\* is still queued.
ServersAt(a) ==
  {k.srv : k \in {o \in Client : a \in Range(commands[o])}} \cup
  {strand[i].cli.srv : i \in {j \in DOMAIN strand :
                              strand[j].op = "done" /\ strand[j].cmd = a}}

ServiceState(a) ==
  CASE phase[a] \in {"posted", "waiting"}    -> "queued"
    [] phase[a] \in {"running", "finishing"} -> "sent"
    [] OTHER                                 -> phase[a]

Service == INSTANCE CommandService WITH
  Command   <- Article,
  state     <- [a \in Article |-> ServiceState(a)],
  at        <- [a \in Article |-> ServersAt(a)],
  refused   <- [a \in Article |-> failed[a]],
  connected <- servers,
  canceled  <- canceled \cap Article

-----------------------------------------------------------------------------
(* Properties.                                                             *)

\* The variables keep the types of the C++ members they stand for.
TypeOK ==
  /\ strand \in Seq(Closure)
  /\ unwind \in Seq([cli : Client, code : DoneCode])
  /\ disconnecting \subseteq Client
  /\ stopping \subseteq Client
  /\ redispatch \in BOOLEAN
  /\ scan \in Nat
  /\ servers \subseteq Server
  /\ connections \in [Server -> SUBSET Client]
  /\ connectionsBin \subseteq Client
  /\ clientStopped \in [Client -> StopHandler]
  /\ handles \in [Client -> BOOLEAN]
  /\ socket \in [Client -> {"open", "timeout", "closed"}]
  /\ commands \in [Client -> Seq(Command)]
  /\ commandsWaiting \in Seq(Command)
  /\ canceled \subseteq Command
  /\ failed \in [Command -> SUBSET Server]
  /\ timeout \in [Command -> SUBSET Server]
  /\ tryAgain \subseteq Command
  /\ phase \in [Command -> {"new", "posted", "waiting", "running", "finishing", "released"}]
  /\ promise \in [Promise -> {"none", "pending", "ready"}]
  /\ added \subseteq Server
  /\ faults \in Nat
  /\ crashed \in {"no", "handles", "promise"}

\* m_commandsWaiting holds each waiting command once.
WaitingOnce ==
  /\ \A i \in DOMAIN commandsWaiting : phase[commandsWaiting[i]] = "waiting"
  /\ \A i, j \in DOMAIN commandsWaiting :
       commandsWaiting[i] = commandsWaiting[j] => i = j

\* A running command is in the queue of one client, once.
RunningOnce ==
  /\ \A k \in Client : \A i \in DOMAIN commands[k] : phase[commands[k][i]] = "running"
  /\ \A k, o \in Client : \A i \in DOMAIN commands[k], j \in DOMAIN commands[o] :
       commands[k][i] = commands[o][j] => k = o /\ i = j

\* A command on its way into the dispatcher, or out of a client, is in one
\* closure of the strand.
QueuedOnce ==
  /\ \A i \in DOMAIN strand :
       /\ strand[i].op = "post" => phase[strand[i].cmd] = "posted"
       /\ strand[i].op = "done" => phase[strand[i].cmd] = "finishing"
  /\ \A i, j \in DOMAIN strand :
       /\ strand[i].op \in {"post", "done"}
       /\ strand[j].op \in {"post", "done"}
       /\ strand[i].cmd = strand[j].cmd
       => i = j

\* No interleaving of completions, retries, restarts, timeouts and removals
\* duplicates a command: it never has two owners among the strand,
\* m_commandsWaiting and the clients (MyCommand's shared_ptr moves).
OneOwner == WaitingOnce /\ RunningOnce /\ QueuedOnce

\* ... and none loses one: a command that was posted and is not released is in
\* some container, so its handler is not waiting for nobody.
NoCommandLost ==
  \A c \in Command :
    /\ phase[c] = "waiting" => c \in Range(commandsWaiting)
    /\ phase[c] = "running" => \E k \in Client : c \in Range(commands[k])
    /\ phase[c] \in {"posted", "finishing"} =>
         \E i \in DOMAIN strand : strand[i].op \in {"post", "done"} /\ strand[i].cmd = c

\* A server that answered "no such article", or failed otherwise, is not asked
\* for the article again (MyCommand::m_failed, HasFailed).
NeverAskedTwice ==
  \A k \in Client : \A i \in DOMAIN commands[k] : k.srv \notin failed[commands[k][i]]

\* A connection never has more commands in flight than its server's Pipeline
\* setting.  Up to a depth of two, HasCapacity also keeps every command from
\* being sent behind a login; at a depth of three it would not, because a login
\* that was requeued may itself be second in line.
PipelineBound ==
  \A k \in Client :
    /\ Len(commands[k]) <= Pipeline[k.srv]
    /\ Len(commands[k]) > 1 /\ Pipeline[k.srv] <= 2 => Pipeable(Head(commands[k]))

\* No wake-up is lost: when the io thread has nothing to run, no client could take
\* a command that waits, so it does not wait beside a free connection for a
\* DispatchCommands that nothing calls.  A command that was given another try
\* may (TriedAgain).
NoLostWakeup ==
  IoIdle /\ strand = <<>> =>
    \A c \in Range(commandsWaiting) \ tryAgain : Candidates(c) = {}

\* An article that timed out everywhere is tried again, as DispatchCommands says:
\* it waits beside a free connection only while something is going on that ends
\* with another DispatchCommands.
TriedAgain ==
  IoIdle /\ strand = <<>> =>
    \A a \in Article \cap Range(commandsWaiting) \cap tryAgain :
       \/ Candidates(a) = {}
       \/ \E k \in Client : \/ commands[k] # <<>>
                           \/ /\ k \in connectionsBin /\ handles[k]
                              /\ clientStopped[k].do = "restart"

\* The dispatcher implements the service.
ServiceSpec == Service!Spec

\* ~NewsClient takes a client with pending handlers for a fatal error.
NoLiveClientDestroyed == crashed # "handles"

-----------------------------------------------------------------------------
(* Liveness.  The io thread runs handlers while there are any; every        *)
(* request is answered or fails, and pending handlers are run.             *)

Fairness ==
  /\ WF_vars(ClosureStep)
  /\ WF_vars(HandlerStep)
  /\ WF_vars(DispatchStep)
  /\ \A k \in Client :
       /\ WF_vars(\E code \in DoneCode : \E n \in 1 .. Len(commands[k]) : Finish(k, code, n))
       /\ WF_vars(Drain(k))

FairSpec == Spec /\ Fairness

\* Once there is a server, an article that is posted is released in the end: it
\* arrived, or every server refused it.  After RemoveServer and Stop nothing may
\* wake the dispatcher.
PostedEnds ==
  \A a \in Article :
    phase[a] # "new" /\ servers # {}
      ~> (phase[a] = "released" \/ \E p \in Promise : promise[p] # "none")
=============================================================================
