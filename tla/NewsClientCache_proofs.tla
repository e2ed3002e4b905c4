------------------------ MODULE NewsClientCache_proofs ------------------------
(***************************************************************************)
(* The types of NewsClientCache, that every command has one owner, the     *)
(* invariants of the clients, the implementation of CommandService, and    *)
(* that no wake-up is lost.                                                *)
(* TypeOK alone is not inductive: CommandDone takes the head of a client's *)
(* commands, so the invariant also says that OnDone (unwind) never pops    *)
(* more than there are.                                                    *)
(***************************************************************************)
EXTENDS NewsClientCache, SequenceTheorems, TLAPS

UnwindOK ==
  /\ \A i \in DOMAIN unwind : unwind[i].cli = unwind[1].cli
  /\ unwind # <<>> => Len(unwind) <= Len(commands[unwind[1].cli])

TypeInv == TypeOK /\ UnwindOK

\* The empty NewsClientCache satisfies the invariant.
LEMMA TypeInit == Init => TypeInv
<1> SUFFICES ASSUME Init PROVE TypeInv
  OBVIOUS
<1>1. /\ strand \in Seq(Closure)
      /\ unwind \in Seq([cli : Client, code : DoneCode])
      /\ commandsWaiting \in Seq(Command)
      /\ commands \in [Client -> Seq(Command)]
  BY DEF Init
<1>2. clientStopped \in [Client -> StopHandler]
  BY DEF Init, StopHandler
<1>3. phase \in [Command -> {"new", "posted", "waiting", "running", "finishing", "released"}]
  BY DEF Init
<1>4. TypeOK
  BY <1>1, <1>2, <1>3 DEF Init, TypeOK
<1>5. UnwindOK
  BY DEF Init, UnwindOK
<1>6. QED
  BY <1>4, <1>5 DEF TypeInv

\* What the public calls and OnDone hand to the strand are closures.
LEMMA Closures ==
  /\ \A s \in Server : [op |-> "add", srv |-> s] \in Closure
  /\ \A s \in Removable : [op |-> "remove", srv |-> s] \in Closure
  /\ \A a \in Article : [op |-> "post", cmd |-> a] \in Closure
  /\ [op |-> "stop"] \in Closure
  /\ [op |-> "event"] \in Closure
  /\ \A k \in Client, c \in Command, code \in DoneCode :
        [op |-> "done", cli |-> k, cmd |-> c, code |-> code] \in Closure
  BY DEF Closure

\* The calls from other threads keep the types.
LEMMA TypeApi ==
  ASSUME TypeInv, ApiStep
  PROVE  TypeInv'
<1> USE DEF TypeInv, TypeOK, UnwindOK, ioVars, connVars, clientVars, commandVars, apiVars
<1>1. ASSUME NEW s \in Server, AddServer(s) PROVE TypeInv'
  BY <1>1, Closures DEF AddServer, Post
<1>2. ASSUME NEW a \in Article, GetArticleStream(a) PROVE TypeInv'
  BY <1>2, Closures DEF GetArticleStream, Post, Command
<1>3. ASSUME NEW s \in Removable, RemoveServer(s) PROVE TypeInv'
  BY <1>3, Closures DEF RemoveServer, Post, RemovePromise, Promise
<1>4. ASSUME Stop PROVE TypeInv'
  BY <1>4, Closures DEF Stop, Post, StopPromise, Promise
<1>5. ASSUME HeartBeat PROVE TypeInv'
  BY <1>5, Closures DEF HeartBeat, Post
<1>6. ASSUME NEW a \in Cancelable, Cancel(a) PROVE TypeInv'
  BY <1>6, NCCAssumption DEF Cancel, Command
<1>7. QED
  BY <1>1, <1>2, <1>3, <1>4, <1>5, <1>6 DEF ApiStep

\* StartClient allocates client objects that did not exist.
LEMMA NewClientFacts ==
  ASSUME NEW s \in Server, NEW id
  PROVE  /\ NewClient(s, id) \subseteq Client
         /\ \A n \in NewClient(s, id) : n.srv = s /\ n.id = id /\ ~ Alive(n)
  BY DEF NewClient

\* A client's server and clientID are in range.
LEMMA ClientFacts ==
  ASSUME NEW k \in Client
  PROVE  k.srv \in Server
  BY DEF Client

\* StartClient keeps the types.
LEMMA TypeStartClients ==
  ASSUME TypeOK, NEW s \in Server, NEW N \in SUBSET Client, StartClients(s, N)
  PROVE  /\ servers' \subseteq Server
         /\ connections' \in [Server -> SUBSET Client]
         /\ clientStopped' \in [Client -> StopHandler]
         /\ handles' \in [Client -> BOOLEAN]
         /\ socket' \in [Client -> {"open", "timeout", "closed"}]
         /\ commands' \in [Client -> Seq(Command)]
         /\ phase' \in [Command -> {"new", "posted", "waiting", "running", "finishing", "released"}]
         /\ failed' \in [Command -> SUBSET Server]
         /\ timeout' \in [Command -> SUBSET Server]
         /\ canceled' \subseteq Command
         /\ tryAgain' \subseteq Command
<1> USE DEF StartClients, TypeOK
<1>1. servers' \subseteq Server /\ connections' \in [Server -> SUBSET Client]
  OBVIOUS
<1>2. clientStopped' \in [Client -> StopHandler]
  BY DEF StopHandler
<1>3. handles' \in [Client -> BOOLEAN]
  OBVIOUS
<1>4. socket' \in [Client -> {"open", "timeout", "closed"}]
  OBVIOUS
<1>5. commands' \in [Client -> Seq(Command)]
  <2>1. \A k \in Client : <<k>> \in Seq(Command)
    BY DEF Command
  <2>2. QED
    BY <2>1
<1>6. phase' \in [Command -> {"new", "posted", "waiting", "running", "finishing", "released"}]
  OBVIOUS
<1>7. /\ failed' \in [Command -> SUBSET Server]
      /\ timeout' \in [Command -> SUBSET Server]
      /\ canceled' \subseteq Command
      /\ tryAgain' \subseteq Command
  OBVIOUS
<1>8. QED
  BY <1>1, <1>2, <1>3, <1>4, <1>5, <1>6, <1>7

\* Moving a client to m_connectionsBin (StopClient, RestartClient) keeps the types.
LEMMA TypeBin ==
  ASSUME TypeOK, NEW k \in Client, NEW h \in {"erase", "restart"},
         EraseConnection(k), MoveToBin(k, h)
  PROVE  /\ connections' \in [Server -> SUBSET Client]
         /\ connectionsBin' \subseteq Client
         /\ clientStopped' \in [Client -> StopHandler]
<1>1. connections' \in [Server -> SUBSET Client]
  BY ClientFacts DEF TypeOK, EraseConnection
<1>2. connectionsBin' \subseteq Client
  BY DEF TypeOK, MoveToBin
<1>3. [do |-> h] \in StopHandler
  BY DEF StopHandler
<1>4. clientStopped' \in [Client -> StopHandler]
  BY <1>3 DEF TypeOK, MoveToBin
<1>5. QED
  BY <1>1, <1>2, <1>4

\* Putting a command back in front of m_commandsWaiting, or releasing it, keeps the types.
LEMMA TypeRequeue ==
  ASSUME TypeOK, NEW c \in Command, Requeue(c) \/ Release(c)
  PROVE  /\ commandsWaiting' \in Seq(Command)
         /\ phase' \in [Command -> {"new", "posted", "waiting", "running", "finishing", "released"}]
<1>1. CASE Requeue(c)
  <2>1. <<c>> \in Seq(Command)
    OBVIOUS
  <2>2. <<c>> \o commandsWaiting \in Seq(Command)
    BY <2>1, ConcatProperties DEF TypeOK
  <2>3. QED
    BY <1>1, <2>2 DEF Requeue, TypeOK
<1>2. CASE Release(c)
  BY <1>2 DEF Release, TypeOK
<1>3. QED
  BY <1>1, <1>2

\* Every branch of ClientDone keeps the types.
LEMMA TypeClientDone ==
  ASSUME TypeOK, NEW k \in Client, NEW c \in Command, NEW code,
         ClientDone(k, c, code), strand' \in Seq(Closure),
         unwind' \in Seq([cli : Client, code : DoneCode]),
         commands' \in [Client -> Seq(Command)]
  PROVE  TypeOK'
<1>1. k.srv \in Server
  BY ClientFacts
<1>2. crashed' \in {"no", "handles", "promise"}
  BY DEF ClientDone, DestroyClients, TypeOK
<1>3. /\ commandsWaiting' \in Seq(Command)
      /\ phase' \in [Command -> {"new", "posted", "waiting", "running", "finishing", "released"}]
  BY TypeRequeue DEF ClientDone
<1>4. /\ connections' \in [Server -> SUBSET Client]
      /\ connectionsBin' \subseteq Client
      /\ clientStopped' \in [Client -> StopHandler]
  <2>1. \/ EraseConnection(k) /\ MoveToBin(k, "erase")
        \/ EraseConnection(k) /\ MoveToBin(k, "restart")
        \/ UNCHANGED <<connVars, clientStopped>>
    BY DEF ClientDone, StopClient, RestartClient
  <2>2. QED
    BY <2>1, TypeBin DEF TypeOK, connVars
<1>5. servers' \subseteq Server
  BY <1>1 DEF ClientDone, StopClient, RestartClient, TypeOK, connVars
<1>6. failed' \in [Command -> SUBSET Server] /\ timeout' \in [Command -> SUBSET Server]
  <2>1. \/ AddFailed(k, c) /\ UNCHANGED timeout
        \/ timeout' = [timeout EXCEPT ![c] = @ \cup {k.srv}] /\ UNCHANGED failed
        \/ UNCHANGED <<failed, timeout>>
    BY DEF ClientDone
  <2>2. failed[c] \cup {k.srv} \subseteq Server /\ timeout[c] \cup {k.srv} \subseteq Server
    BY <1>1 DEF TypeOK
  <2>3. failed \in [Command -> SUBSET Server] /\ timeout \in [Command -> SUBSET Server]
    BY DEF TypeOK
  <2>4. QED
    BY <2>1, <2>2, <2>3 DEF AddFailed
<1>7. disconnecting' \subseteq Client
  BY DEF ClientDone, TypeOK
<1>8. UNCHANGED <<stopping, scan, handles, socket, canceled, tryAgain, apiVars, faults>> /\ redispatch' = TRUE
  BY DEF ClientDone
<1>9. QED
  BY <1>2, <1>3, <1>4, <1>5, <1>6, <1>7, <1>8 DEF TypeOK, apiVars

\* AsyncDisconnectClients keeps the types.
LEMMA TypeDisconnectClients ==
  ASSUME TypeOK, NEW K \in SUBSET Client, NEW p \in Promise, AsyncDisconnectClients(K, p)
  PROVE  /\ connectionsBin' \subseteq Client
         /\ promise' \in [Promise -> {"none", "pending", "ready"}]
         /\ clientStopped' \in [Client -> StopHandler]
         /\ disconnecting' \subseteq Client
  BY DEF TypeOK, AsyncDisconnectClients, StopHandler

\* The closures of the strand keep the types.
LEMMA TypeClosure ==
  ASSUME TypeInv, ClosureStep
  PROVE  TypeInv'
<1> USE DEF TypeInv, TypeOK, UnwindOK, ioVars, connVars, clientVars, commandVars, apiVars
<1>0. ASSUME NEW closure, Run(closure)
      PROVE  closure \in Closure /\ strand' \in Seq(Closure) /\ unwind = <<>>
  BY <1>0 DEF Run, IoIdle
<1>1. ASSUME NEW s \in Server, RunAddServer(s) PROVE TypeInv'
  BY <1>1, <1>0, NewClientFacts, TypeStartClients DEF RunAddServer, DestroyClients
<1>2. ASSUME NEW a \in Article, RunPostCommand(a) PROVE TypeInv'
  BY <1>2, <1>0 DEF RunPostCommand, Command
<1>3. ASSUME NEW k \in Client, NEW c \in Command, NEW code \in DoneCode, RunClientDone(k, c, code)
      PROVE TypeInv'
  BY <1>3, <1>0, TypeClientDone DEF RunClientDone
<1>4. ASSUME NEW s \in Removable, RunRemoveServer(s) PROVE TypeInv'
  BY <1>4, <1>0, NCCAssumption, TypeDisconnectClients DEF RunRemoveServer, RemovePromise, Promise
<1>5. ASSUME RunStop PROVE TypeInv'
  <2>1. UNION {connections[s] : s \in Server} \in SUBSET Client /\ StopPromise \in Promise
    BY DEF StopPromise, Promise
  <2>2. /\ connectionsBin' \subseteq Client
        /\ promise' \in [Promise -> {"none", "pending", "ready"}]
        /\ clientStopped' \in [Client -> StopHandler]
        /\ disconnecting' \subseteq Client
    BY <1>5, <2>1, TypeDisconnectClients DEF RunStop
  <2>3. Range(commandsWaiting) \subseteq Command
    BY DEF Range
  <2>4. canceled' \subseteq Command
    BY <1>5, <2>3 DEF RunStop, commandsRunning
  <2>5. /\ phase' \in [Command -> {"new", "posted", "waiting", "running", "finishing", "released"}]
        /\ connections' \in [Server -> SUBSET Client]
        /\ servers' \subseteq Server
        /\ commandsWaiting' \in Seq(Command)
    BY <1>5 DEF RunStop
  <2>6. strand' \in Seq(Closure) /\ unwind = <<>>
    BY <1>5, <1>0 DEF RunStop
  <2>7. QED
    BY <1>5, <2>2, <2>4, <2>5, <2>6 DEF RunStop
<1>6. ASSUME RunEvent PROVE TypeInv'
  BY <1>6, <1>0 DEF RunEvent
<1>7. QED
  BY <1>1, <1>2, <1>3, <1>4, <1>5, <1>6 DEF ClosureStep

\* OnDone has a command of its client left for every call of m_done it makes.
LEMMA UnwindHead ==
  ASSUME TypeInv, unwind # <<>>
  PROVE  /\ unwind[1].cli \in Client
         /\ unwind[1].code \in DoneCode
         /\ commands[unwind[1].cli] # <<>>
         /\ Head(commands[unwind[1].cli]) \in Command
         /\ Tail(unwind) \in Seq([cli : Client, code : DoneCode])
         /\ Tail(commands[unwind[1].cli]) \in Seq(Command)
         /\ Len(Tail(unwind)) = Len(unwind) - 1
         /\ Len(Tail(commands[unwind[1].cli])) = Len(commands[unwind[1].cli]) - 1
         /\ \A i \in DOMAIN Tail(unwind) : Tail(unwind)[i].cli = unwind[1].cli
<1>1. unwind \in Seq([cli : Client, code : DoneCode]) /\ Len(unwind) > 0
  BY DEF TypeInv, TypeOK
<1>2. unwind[1] \in [cli : Client, code : DoneCode]
  BY <1>1, ElementOfSeq, LenProperties, 1 \in 1 .. Len(unwind)
<1>3. unwind[1].cli \in Client /\ unwind[1].code \in DoneCode
  BY <1>2
<1>4. commands[unwind[1].cli] \in Seq(Command)
  BY <1>3 DEF TypeInv, TypeOK
<1>5. commands[unwind[1].cli] # <<>>
  BY <1>1, <1>4 DEF TypeInv, UnwindOK
<1>6. \A i \in DOMAIN Tail(unwind) : Tail(unwind)[i].cli = unwind[1].cli
  BY <1>1 DEF TypeInv, UnwindOK
<1>7. QED
  BY <1>1, <1>3, <1>4, <1>5, <1>6

\* A call of m_done, with ClientDone run inline or queued, keeps the types.
LEMMA TypeCommandDone ==
  ASSUME TypeInv, CommandDone
  PROVE  TypeInv'
<1> DEFINE k == unwind[1].cli
           c == Head(commands[k])
           code == unwind[1].code
<1>1. /\ unwind # <<>>
      /\ unwind' = Tail(unwind)
      /\ commands' = [commands EXCEPT ![k] = Tail(@)]
  BY DEF CommandDone
<1>2. k \in Client /\ c \in Command /\ code \in DoneCode
  BY <1>1, UnwindHead
<1>3. unwind' \in Seq([cli : Client, code : DoneCode])
  BY <1>1, UnwindHead
<1>4. commands' \in [Client -> Seq(Command)]
  BY <1>1, <1>2, UnwindHead DEF TypeInv, TypeOK
<1>5. UnwindOK'
  <2>1. commands'[k] = Tail(commands[k])
    BY <1>1, <1>2 DEF TypeInv, TypeOK
  <2>2. ASSUME unwind' # <<>>
        PROVE  unwind'[1].cli = k
    <3>1. Len(unwind') > 0 /\ DOMAIN unwind' = 1 .. Len(unwind') /\ Len(unwind') \in Nat
      BY <1>3, <2>2, EmptySeq, LenProperties
    <3>2. 1 \in DOMAIN unwind'
      BY <3>1
    <3>3. QED
      BY <1>1, <3>2, UnwindHead
  <2>3. \A i \in DOMAIN unwind' : unwind'[i].cli = unwind'[1].cli
    <3>1. CASE unwind' = <<>>
      BY <3>1
    <3>2. CASE unwind' # <<>>
      BY <1>1, <2>2, <3>2, UnwindHead
    <3>3. QED
      BY <3>1, <3>2
  <2>4. ASSUME unwind' # <<>>
        PROVE  Len(unwind') <= Len(commands'[unwind'[1].cli])
    <3>1. Len(unwind) <= Len(commands[k])
      BY <1>1 DEF TypeInv, UnwindOK
    <3>2. Len(unwind) \in Nat /\ Len(commands[k]) \in Nat
      BY <1>2 DEF TypeInv, TypeOK
    <3>3. QED
      BY <1>1, <2>1, <2>2, <2>4, <3>1, <3>2, UnwindHead
  <2>5. QED
    BY <2>3, <2>4 DEF UnwindOK
<1>6. CASE strand = <<>>
  <2>1. strand' = strand /\ ClientDone(k, c, code)
    BY <1>6 DEF CommandDone
  <2>2. QED
    BY <1>2, <1>3, <1>4, <1>5, <2>1, TypeClientDone DEF TypeInv, TypeOK
<1>7. CASE strand # <<>>
  <2>1. strand' \in Seq(Closure)
    <3>1. strand' = Append(strand, [op |-> "done", cli |-> k, cmd |-> c, code |-> code])
      BY <1>7 DEF CommandDone, Post
    <3>2. [op |-> "done", cli |-> k, cmd |-> c, code |-> code] \in Closure
      BY <1>2, Closures
    <3>3. strand \in Seq(Closure)
      BY DEF TypeInv, TypeOK
    <3>4. QED
      BY <3>1, <3>2, <3>3, AppendProperties
  <2>2. phase' \in [Command -> {"new", "posted", "waiting", "running", "finishing", "released"}]
    BY <1>2, <1>7 DEF CommandDone, TypeInv, TypeOK
  <2>3. UNCHANGED <<disconnecting, stopping, redispatch, scan, connVars, clientStopped,
                    handles, socket, commandsWaiting, canceled, failed, timeout, tryAgain,
                    apiVars, faults, crashed>>
    BY <1>7 DEF CommandDone
  <2>4. QED
    BY <1>3, <1>4, <1>5, <2>1, <2>2, <2>3 DEF TypeInv, TypeOK, connVars, apiVars
<1>8. QED
  BY <1>6, <1>7

\* Disconnect, the ClientStopped handlers and OnDone keep the types.
LEMMA TypeHandler ==
  ASSUME TypeInv, HandlerStep
  PROVE  TypeInv'
<1> USE DEF TypeInv, TypeOK, UnwindOK, ioVars, connVars, clientVars, commandVars, apiVars
<1>1. ASSUME NEW k \in Client, Disconnect(k) PROVE TypeInv'
  BY <1>1 DEF Disconnect, DestroyClients
<1>2. ASSUME NEW k \in Client, OnStoppedRestart(k) PROVE TypeInv'
  <2> DEFINE N == NewClient(k.srv, k.id)
  <2>1. N \in SUBSET Client /\ k.srv \in Server
    BY NewClientFacts, ClientFacts
  <2>2. StartClients(k.srv, N)
    BY <1>2 DEF OnStoppedRestart
  <2>3. crashed' \in {"no", "handles", "promise"}
    BY <1>2 DEF OnStoppedRestart, DestroyClients
  <2>4. TypeOK'
    BY <1>2, <2>1, <2>2, <2>3, TypeStartClients DEF OnStoppedRestart
  <2>5. ASSUME unwind # <<>>
        PROVE  commands'[unwind[1].cli] = commands[unwind[1].cli]
    <3>1. unwind[1].cli \in Client /\ 1 \in DOMAIN unwind
      BY <2>5, UnwindHead
    <3>2. unwind[1].cli \notin N
      BY <3>1, <2>1, NewClientFacts DEF Alive
    <3>3. QED
      BY <2>2, <3>1, <3>2 DEF StartClients
  <2>6. QED
    BY <1>2, <2>4, <2>5 DEF OnStoppedRestart
<1>3. ASSUME NEW k \in Client, OnStoppedErase(k) PROVE TypeInv'
  BY <1>3 DEF OnStoppedErase
<1>4. ASSUME NEW k \in Client, OnStoppedPromise(k) PROVE TypeInv'
  BY <1>4 DEF OnStoppedPromise
<1>5. ASSUME CommandDone PROVE TypeInv'
  BY <1>5, TypeCommandDone
<1>6. QED
  BY <1>1, <1>2, <1>3, <1>4, <1>5 DEF HandlerStep

\* The iterator of DispatchCommands is at a command, and erasing it leaves a sequence.
LEMMA EraseWaitingFacts ==
  ASSUME TypeOK, scan \in DOMAIN commandsWaiting, EraseWaiting
  PROVE  commandsWaiting' \in Seq(Command)
  BY SubSeqProperties, ConcatProperties DEF TypeOK, EraseWaiting, RemoveAt

\* The iterations of DispatchCommands keep the types.
LEMMA TypeDispatch ==
  ASSUME TypeInv, DispatchStep
  PROVE  TypeInv'
<1> USE DEF TypeInv, TypeOK, UnwindOK, ioVars, connVars, clientVars, commandVars, apiVars
<1>1. ASSUME DispatchBegin PROVE TypeInv'
  BY <1>1 DEF DispatchBegin
<1>2. ASSUME NEW c \in Command, DispatchCanceled(c) PROVE TypeInv'
  BY <1>2, EraseWaitingFacts DEF DispatchCanceled, At
<1>3. ASSUME NEW c \in Command, NEW k \in Client, DispatchRun(c, k) PROVE TypeInv'
  <2>1. commandsWaiting' \in Seq(Command)
    BY <1>3, EraseWaitingFacts DEF DispatchRun, Wanted, At
  <2>2. commands' \in [Client -> Seq(Command)]
    BY <1>3 DEF DispatchRun
  <2>3. \A o \in Client : Len(commands[o]) <= Len(commands'[o])
    <3> TAKE o \in Client
    <3>1. commands[o] \in Seq(Command) /\ Len(commands[o]) \in Nat
      OBVIOUS
    <3>2. \/ commands'[o] = commands[o]
          \/ commands'[o] = Append(commands[o], c)
      BY <1>3 DEF DispatchRun
    <3>3. QED
      BY <3>1, <3>2, AppendProperties
  <2>4. UnwindOK'
    <3>1. unwind' = unwind
      BY <1>3 DEF DispatchRun
    <3>2. ASSUME unwind # <<>>
          PROVE  Len(unwind) <= Len(commands'[unwind[1].cli])
      <4>1. unwind[1].cli \in Client
        BY <3>2, UnwindHead
      <4>2. Len(unwind) <= Len(commands[unwind[1].cli])
        BY <3>2
      <4>3. /\ Len(unwind) \in Nat
            /\ Len(commands[unwind[1].cli]) \in Nat
            /\ Len(commands'[unwind[1].cli]) \in Nat
        BY <4>1, <2>2
      <4>4. QED
        BY <4>1, <4>2, <4>3, <2>3
    <3>3. QED
      BY <3>1, <3>2
  <2>5. QED
    BY <1>3, <2>1, <2>2, <2>4 DEF DispatchRun
<1>4. ASSUME NEW c \in Command, DispatchFailed(c) PROVE TypeInv'
  BY <1>4, EraseWaitingFacts DEF DispatchFailed, Wanted, At
<1>5. ASSUME NEW c \in Command, DispatchSkip(c) PROVE TypeInv'
  BY <1>5 DEF DispatchSkip
<1>6. ASSUME DispatchEnd PROVE TypeInv'
  <2>1. strand' \in Seq(Closure)
    <3>1. strand' = Append(strand, [op |-> "event"]) \/ strand' = strand
      BY <1>6 DEF DispatchEnd, Post
    <3>2. Append(strand, [op |-> "event"]) \in Seq(Closure)
      BY Closures, AppendProperties
    <3>3. QED
      BY <3>1, <3>2
  <2>2. QED
    BY <1>6, <2>1 DEF DispatchEnd
<1>7. QED
  BY <1>1, <1>2, <1>3, <1>4, <1>5, <1>6 DEF DispatchStep

\* The handlers of sockets and timers keep the types.
LEMMA TypeNetwork ==
  ASSUME TypeInv, NetworkStep
  PROVE  TypeInv'
<1> USE DEF TypeInv, TypeOK, UnwindOK, ioVars, connVars, clientVars, commandVars, apiVars
<1>1. ASSUME NEW k \in Client, NEW code \in DoneCode, NEW n \in 1 .. Len(commands[k]), Finish(k, code, n)
      PROVE  TypeInv'
  <2>1. n \in Nat /\ n >= 1 /\ n <= Len(commands[k]) /\ commands' = commands
    BY <1>1 DEF Finish
  <2>2. unwind' = [i \in 1 .. n |-> [cli |-> k, code |-> code]]
    BY <1>1 DEF Finish
  <2>3. unwind' \in Seq([cli : Client, code : DoneCode]) /\ Len(unwind') = n
    BY <2>1, <2>2, IsASeq
  <2>4. UnwindOK'
    BY <2>1, <2>2, <2>3
  <2>5. QED
    BY <1>1, <2>3, <2>4 DEF Finish
<1>2. ASSUME NEW k \in Client, CloseTimeout(k) PROVE TypeInv'
  BY <1>2 DEF CloseTimeout
<1>3. ASSUME NEW k \in Client, Drain(k) PROVE TypeInv'
  BY <1>3 DEF Drain
<1>4. QED
  BY <1>1, <1>2, <1>3 DEF NetworkStep

\* The invariant that types need to be inductive: NewsClient::OnDone never pops
\* more commands than its client has.
THEOREM TypeInvariant == Spec => []TypeInv
<1>1. Init => TypeInv
  BY TypeInit
<1>2. TypeInv /\ [Next]_vars => TypeInv'
  <2> SUFFICES ASSUME TypeInv, [Next]_vars PROVE TypeInv'
    OBVIOUS
  <2>1. CASE Next
    BY <2>1, TypeApi, TypeClosure, TypeHandler, TypeDispatch, TypeNetwork DEF Next
  <2>2. CASE UNCHANGED vars
    BY <2>2 DEF TypeInv, TypeOK, UnwindOK, vars, ioVars, connVars, clientVars, commandVars, apiVars
  <2>3. QED
    BY <2>1, <2>2
<1>3. QED
  BY <1>1, <1>2, PTL DEF Spec

\* The members of NewsClientCache, MyClient and MyCommand keep their types, for
\* any number of servers, connections, pipeline depths and articles.
THEOREM TypeCorrect == Spec => []TypeOK
<1>1. TypeInv => TypeOK
  BY DEF TypeInv
<1>2. QED
  BY <1>1, TypeInvariant, PTL

-----------------------------------------------------------------------------
(* Owners.  One lemma per way a step may change each container (same,      *)
(* append, prepend, erase, pop, push), then one lemma per group of         *)
(* actions, and the theorem.                                               *)

\* Every command in phase st, but c, stays in it.
KeepsBut(c, st) == \A d \in Command : d # c /\ phase[d] = st => phase'[d] = st
Keeps(st) == \A d \in Command : phase[d] = st => phase'[d] = st

\* A post or done closure is about a command.
LEMMA ClosureCommand ==
  ASSUME NEW cl \in Closure, cl.op \in {"post", "done"}
  PROVE  cl.cmd \in Command
  BY DEF Closure, Command

\* ... also on the strand.
LEMMA StrandCommand ==
  ASSUME TypeOK, NEW i \in DOMAIN strand, strand[i].op \in {"post", "done"}
  PROVE  strand[i].cmd \in Command
  BY ClosureCommand, ElementOfSeq DEF TypeOK

-----------------------------------------------------------------------------
(* The elements left when one is taken out of a sequence. *)

\* Where the elements of Tail(s) are in s.
LEMMA TailIndex ==
  ASSUME NEW S, NEW s \in Seq(S), s # <<>>
  PROVE  /\ Tail(s) \in Seq(S)
         /\ 1 \in DOMAIN s /\ Head(s) = s[1]
         /\ \A i \in DOMAIN Tail(s) :
              i \in Nat /\ i + 1 \in DOMAIN s /\ i + 1 # 1 /\ Tail(s)[i] = s[i + 1]
<1>1. Len(s) \in Nat \ {0} /\ DOMAIN s = 1 .. Len(s)
  BY EmptySeq, LenProperties
<1>2. Tail(s) \in Seq(S) /\ Len(Tail(s)) = Len(s) - 1 /\ DOMAIN Tail(s) = 1 .. Len(Tail(s))
  BY HeadTailProperties, LenProperties
<1>3. \A i \in 1 .. Len(Tail(s)) : Tail(s)[i] = s[i + 1]
  BY HeadTailProperties
<1>4. Head(s) = s[1]
  OBVIOUS
<1>5. QED
  BY <1>1, <1>2, <1>3, <1>4

Skip(i, j) == IF j < i THEN j ELSE j + 1

\* Where the elements of RemoveAt(s, i) are in s.
LEMMA RemoveIndex ==
  ASSUME NEW S, NEW s \in Seq(S), NEW i \in DOMAIN s
  PROVE  /\ RemoveAt(s, i) \in Seq(S)
         /\ \A j \in DOMAIN RemoveAt(s, i) :
              /\ j \in Nat
              /\ Skip(i, j) \in DOMAIN s
              /\ Skip(i, j) # i
              /\ RemoveAt(s, i)[j] = s[Skip(i, j)]
<1>1. i \in Nat /\ 1 <= i /\ i <= Len(s) /\ Len(s) \in Nat /\ DOMAIN s = 1 .. Len(s)
  BY LenProperties
<1> DEFINE a == SubSeq(s, 1, i - 1)
           b == SubSeq(s, i + 1, Len(s))
<1>2. a \in Seq(S) /\ Len(a) = i - 1 /\ \A j \in 1 .. i - 1 : a[j] = s[j]
  BY <1>1, SubSeqProperties
<1>3. b \in Seq(S) /\ Len(b) = Len(s) - i /\ \A j \in 1 .. Len(s) - i : b[j] = s[i + j]
  BY <1>1, SubSeqProperties
<1>4. RemoveAt(s, i) = a \o b
  BY DEF RemoveAt
<1> HIDE DEF a, b
<1>5. /\ a \o b \in Seq(S)
      /\ Len(a \o b) = Len(s) - 1
      /\ \A j \in 1 .. Len(s) - 1 : (a \o b)[j] = IF j <= i - 1 THEN a[j] ELSE b[j - (i - 1)]
  <2>1. Len(a) + Len(b) = Len(s) - 1
    BY <1>1, <1>2, <1>3
  <2>2. /\ a \o b \in Seq(S)
        /\ Len(a \o b) = Len(a) + Len(b)
        /\ \A j \in 1 .. Len(a) + Len(b) :
              (a \o b)[j] = IF j <= Len(a) THEN a[j] ELSE b[j - Len(a)]
    BY <1>2, <1>3, ConcatProperties
  <2>3. Len(a) = i - 1
    BY <1>2
  <2>4. QED
    BY <2>1, <2>2, <2>3
<1>6. DOMAIN (a \o b) = 1 .. Len(s) - 1
  BY <1>5, LenProperties
<1>7. ASSUME NEW j \in 1 .. Len(s) - 1
      PROVE  /\ j \in Nat
             /\ Skip(i, j) \in DOMAIN s
             /\ Skip(i, j) # i
             /\ (a \o b)[j] = s[Skip(i, j)]
  <2>1. CASE j < i
    <3>1. j \in 1 .. i - 1 /\ Skip(i, j) = j
      BY <1>1, <2>1 DEF Skip
    <3>2. (a \o b)[j] = s[j]
      BY <1>1, <1>2, <1>5, <3>1
    <3>3. QED
      BY <1>1, <2>1, <3>1, <3>2
  <2>2. CASE ~ (j < i)
    <3>1. j - (i - 1) \in 1 .. Len(s) - i /\ Skip(i, j) = j + 1 /\ i + (j - (i - 1)) = j + 1
      BY <1>1, <2>2 DEF Skip
    <3>2. (a \o b)[j] = b[j - (i - 1)]
      BY <1>1, <1>5, <2>2
    <3>3. b[j - (i - 1)] = s[j + 1]
      BY <1>3, <3>1
    <3>4. QED
      BY <1>1, <2>2, <3>1, <3>2, <3>3
  <2>3. QED
    BY <2>1, <2>2
<1>8. QED
  BY <1>4, <1>5, <1>6, <1>7

-----------------------------------------------------------------------------
(* m_commandsWaiting *)

\* WaitingOnce only needs that waiting commands stay waiting.
LEMMA WaitingSame ==
  ASSUME TypeOK, WaitingOnce, commandsWaiting' = commandsWaiting, Keeps("waiting")
  PROVE  WaitingOnce'
  BY ElementOfSeq DEF TypeOK, WaitingOnce, Keeps

\* PostCommand: a command new to the queue is appended.
LEMMA WaitingAppend ==
  ASSUME TypeOK, WaitingOnce, Keeps("waiting"), NEW c \in Command,
         phase[c] # "waiting", phase'[c] = "waiting",
         commandsWaiting' = Append(commandsWaiting, c)
  PROVE  WaitingOnce'
  BY AppendProperties, ElementOfSeq DEF TypeOK, WaitingOnce, Keeps

\* ClientDone: a command new to the queue is put in front.
LEMMA WaitingPrepend ==
  ASSUME TypeOK, WaitingOnce, Keeps("waiting"), NEW c \in Command,
         phase[c] # "waiting", phase'[c] = "waiting",
         commandsWaiting' = <<c>> \o commandsWaiting
  PROVE  WaitingOnce'
  BY ConcatProperties, ElementOfSeq DEF TypeOK, WaitingOnce, Keeps

\* DispatchCommands erases the command it took out of the queue.
LEMMA WaitingErase ==
  ASSUME TypeOK, WaitingOnce, scan \in DOMAIN commandsWaiting,
         KeepsBut(commandsWaiting[scan], "waiting"), EraseWaiting
  PROVE  WaitingOnce'
<1>1. commandsWaiting \in Seq(Command)
  BY DEF TypeOK
<1>2. commandsWaiting' = RemoveAt(commandsWaiting, scan)
  BY DEF EraseWaiting
<1>3. \A j \in DOMAIN commandsWaiting' :
        /\ j \in Nat
        /\ Skip(scan, j) \in DOMAIN commandsWaiting
        /\ Skip(scan, j) # scan
        /\ commandsWaiting'[j] = commandsWaiting[Skip(scan, j)]
  BY <1>1, <1>2, RemoveIndex
<1>4. \A i \in DOMAIN commandsWaiting : commandsWaiting[i] \in Command
  BY <1>1, ElementOfSeq
<1>5. \A j \in DOMAIN commandsWaiting' : phase'[commandsWaiting'[j]] = "waiting"
  BY <1>3, <1>4 DEF WaitingOnce, KeepsBut
<1>6. ASSUME NEW i \in DOMAIN commandsWaiting', NEW j \in DOMAIN commandsWaiting',
             commandsWaiting'[i] = commandsWaiting'[j]
      PROVE  i = j
  <2>1. Skip(scan, i) = Skip(scan, j)
    BY <1>3, <1>6 DEF WaitingOnce
  <2>2. i \in Nat /\ j \in Nat /\ scan \in Nat
    BY <1>3, <1>1
  <2>3. QED
    BY <2>1, <2>2 DEF Skip
<1>7. QED
  BY <1>5, <1>6 DEF WaitingOnce

-----------------------------------------------------------------------------
(* MyClient::commands *)

\* RunningOnce only needs that running commands stay running.
LEMMA RunningSame ==
  ASSUME TypeOK, RunningOnce, commands' = commands, Keeps("running")
  PROVE  RunningOnce'
  BY ElementOfSeq DEF TypeOK, RunningOnce, Keeps

\* Completed pops the oldest command of a client.
LEMMA RunningPop ==
  ASSUME TypeOK, RunningOnce, NEW k \in Client, commands[k] # <<>>,
         KeepsBut(Head(commands[k]), "running"),
         commands' = [commands EXCEPT ![k] = Tail(@)]
  PROVE  RunningOnce'
<1>1. \A o \in Client : commands[o] \in Seq(Command)
  BY DEF TypeOK
<1>2. \A o \in Client : \A i \in DOMAIN commands[o] : commands[o][i] \in Command
  BY <1>1, ElementOfSeq
<1>3. \A o \in Client : commands'[o] = IF o = k THEN Tail(commands[k]) ELSE commands[o]
  BY DEF TypeOK
<1>4. /\ 1 \in DOMAIN commands[k] /\ Head(commands[k]) = commands[k][1]
      /\ \A i \in DOMAIN Tail(commands[k]) :
           i \in Nat /\ i + 1 \in DOMAIN commands[k] /\ i + 1 # 1
             /\ Tail(commands[k])[i] = commands[k][i + 1]
  BY <1>1, TailIndex
<1>5. \A o \in Client : \A i \in DOMAIN commands'[o] :
        LET j == IF o = k THEN i + 1 ELSE i IN
        /\ j \in DOMAIN commands[o]
        /\ commands'[o][i] = commands[o][j]
        /\ ~ (o = k /\ j = 1)
  BY <1>3, <1>4
<1>6. \A o \in Client : \A i \in DOMAIN commands'[o] :
        commands'[o][i] # Head(commands[k]) /\ phase[commands'[o][i]] = "running"
  BY <1>4, <1>5 DEF RunningOnce
<1>7. \A o \in Client : \A i \in DOMAIN commands'[o] : phase'[commands'[o][i]] = "running"
  BY <1>2, <1>5, <1>6 DEF KeepsBut
<1>8. ASSUME NEW o \in Client, NEW p \in Client,
             NEW i \in DOMAIN commands'[o], NEW j \in DOMAIN commands'[p],
             commands'[o][i] = commands'[p][j]
      PROVE  o = p /\ i = j
  <2>1. o = p
    BY <1>5, <1>8 DEF RunningOnce
  <2>2. CASE o = k
    <3>1. i + 1 = j + 1
      BY <1>5, <1>8, <2>1, <2>2 DEF RunningOnce
    <3>2. i \in Nat /\ j \in Nat
      BY <1>3, <1>4, <2>1, <2>2
    <3>3. QED
      BY <2>1, <3>1, <3>2
  <2>3. CASE o # k
    BY <1>5, <1>8, <2>1, <2>3 DEF RunningOnce
  <2>4. QED
    BY <2>2, <2>3
<1>9. QED
  BY <1>7, <1>8 DEF RunningOnce

\* RunCommand gives a command that no client has to one client.
LEMMA RunningPush ==
  ASSUME TypeOK, RunningOnce, NEW k \in Client, NEW c \in Command, Keeps("running"),
         phase[c] # "running", phase'[c] = "running",
         commands' = [commands EXCEPT ![k] = Append(@, c)]
  PROVE  RunningOnce'
<1>1. commands[k] \in Seq(Command) /\ Len(commands[k]) \in Nat
  BY DEF TypeOK
<1>2. commands'[k] = Append(commands[k], c) /\ \A o \in Client : o # k => commands'[o] = commands[o]
  BY DEF TypeOK
<1>3. \A i \in DOMAIN commands'[k] :
         \/ i \in DOMAIN commands[k] /\ commands'[k][i] = commands[k][i]
         \/ i = Len(commands[k]) + 1 /\ commands'[k][i] = c
  BY <1>1, <1>2, AppendProperties
<1>4. \A o \in Client : \A i \in DOMAIN commands'[o] :
         \/ i \in DOMAIN commands[o] /\ commands'[o][i] = commands[o][i]
         \/ o = k /\ i = Len(commands[k]) + 1 /\ commands'[o][i] = c
  BY <1>2, <1>3
<1>5. \A o \in Client : \A i \in DOMAIN commands[o] : commands[o][i] \in Command
  BY ElementOfSeq DEF TypeOK
<1>6. \A o \in Client : \A i \in DOMAIN commands[o] : commands[o][i] # c
  BY DEF RunningOnce
<1>7. \A o \in Client : \A i \in DOMAIN commands'[o] : phase'[commands'[o][i]] = "running"
  BY <1>4, <1>5 DEF RunningOnce, Keeps
<1>8. QED
  BY <1>4, <1>6, <1>7 DEF RunningOnce

\* StartClient gives each new client its login command.
LEMMA RunningStart ==
  ASSUME TypeOK, RunningOnce, NEW N \in SUBSET Client, Keeps("running"),
         \A n \in N : phase[n] # "running" /\ phase'[n] = "running",
         commands' = [k \in Client |-> IF k \in N THEN <<k>> ELSE commands[k]]
  PROVE  RunningOnce'
  BY ElementOfSeq DEF TypeOK, RunningOnce, Keeps

-----------------------------------------------------------------------------
(* m_strand *)

\* QueuedOnce only needs that posted and finishing commands stay so.
LEMMA QueuedSame ==
  ASSUME TypeOK, QueuedOnce, strand' = strand, Keeps("posted"), Keeps("finishing")
  PROVE  QueuedOnce'
  BY StrandCommand DEF QueuedOnce, Keeps

\* A closure about no command may be queued.
LEMMA QueuedOther ==
  ASSUME TypeOK, QueuedOnce, NEW cl \in Closure, cl.op \notin {"post", "done"},
         strand' = Append(strand, cl), Keeps("posted"), Keeps("finishing")
  PROVE  QueuedOnce'
  BY StrandCommand, AppendProperties DEF TypeOK, QueuedOnce, Keeps

\* A closure about a command that no other closure is about may be queued.
LEMMA QueuedAppend ==
  ASSUME TypeOK, QueuedOnce, NEW cl \in Closure, 
         cl.op = "post" => phase'[cl.cmd] = "posted",
         cl.op = "done" => phase'[cl.cmd] = "finishing",
         phase[cl.cmd] \notin {"posted", "finishing"},
         strand' = Append(strand, cl), Keeps("posted"), Keeps("finishing")
  PROVE  QueuedOnce'
  BY StrandCommand, AppendProperties DEF TypeOK, QueuedOnce, Keeps

\* The closure at the head may leave the strand.
LEMMA QueuedTail ==
  ASSUME TypeOK, QueuedOnce, strand # <<>>, strand' = Tail(strand),
         Keeps("posted"), Keeps("finishing")
  PROVE  QueuedOnce'
<1>1. \A i \in DOMAIN strand' :
        i \in Nat /\ i + 1 \in DOMAIN strand /\ strand'[i] = strand[i + 1]
  BY TailIndex DEF TypeOK
<1>2. \A i \in DOMAIN strand' :
        /\ strand'[i].op = "post" => phase'[strand'[i].cmd] = "posted"
        /\ strand'[i].op = "done" => phase'[strand'[i].cmd] = "finishing"
  BY <1>1, StrandCommand DEF QueuedOnce, Keeps
<1>3. ASSUME NEW i \in DOMAIN strand', NEW j \in DOMAIN strand',
             strand'[i].op \in {"post", "done"}, strand'[j].op \in {"post", "done"},
             strand'[i].cmd = strand'[j].cmd
      PROVE  i = j
  <2>1. i + 1 = j + 1
    BY <1>1, <1>3 DEF QueuedOnce
  <2>2. QED
    BY <1>1, <2>1
<1>4. QED
  BY <1>2, <1>3 DEF QueuedOnce

\* No other closure is about the command of the closure that runs.
LEMMA QueuedHead ==
  ASSUME TypeOK, QueuedOnce, strand # <<>>, strand' = Tail(strand),
         Head(strand).op \in {"post", "done"},
         KeepsBut(Head(strand).cmd, "posted"), KeepsBut(Head(strand).cmd, "finishing")
  PROVE  QueuedOnce'
<1>1. /\ \A i \in DOMAIN strand' :
           i \in Nat /\ i + 1 \in DOMAIN strand /\ i + 1 # 1 /\ strand'[i] = strand[i + 1]
      /\ 1 \in DOMAIN strand /\ Head(strand) = strand[1]
  BY TailIndex DEF TypeOK
<1>2. \A i \in DOMAIN strand' :
        strand'[i].op \in {"post", "done"} => strand'[i].cmd # Head(strand).cmd
  BY <1>1 DEF QueuedOnce
<1>3. \A i \in DOMAIN strand' :
        /\ strand'[i].op = "post" => phase'[strand'[i].cmd] = "posted"
        /\ strand'[i].op = "done" => phase'[strand'[i].cmd] = "finishing"
  BY <1>1, <1>2, StrandCommand DEF QueuedOnce, KeepsBut
<1>4. ASSUME NEW i \in DOMAIN strand', NEW j \in DOMAIN strand',
             strand'[i].op \in {"post", "done"}, strand'[j].op \in {"post", "done"},
             strand'[i].cmd = strand'[j].cmd
      PROVE  i = j
  <2>1. i + 1 = j + 1
    BY <1>1, <1>4 DEF QueuedOnce
  <2>2. QED
    BY <1>1, <2>1
<1>5. QED
  BY <1>3, <1>4 DEF QueuedOnce

-----------------------------------------------------------------------------
(* One lemma per group of actions. *)

\* Steps that move no command.
OtherStrand ==
  \/ strand' = strand
  \/ \E cl \in Closure : cl.op \notin {"post", "done"} /\ strand' = Append(strand, cl)
  \/ strand # <<>> /\ strand' = Tail(strand)

\* Steps that move no command.
LEMMA OwnerFrame ==
  ASSUME TypeOK, OneOwner, OtherStrand,
         phase' = phase, commandsWaiting' = commandsWaiting, commands' = commands
  PROVE  OneOwner'
<1>1. Keeps("waiting") /\ Keeps("running") /\ Keeps("posted") /\ Keeps("finishing")
  BY DEF Keeps
<1>2. WaitingOnce' /\ RunningOnce'
  BY <1>1, WaitingSame, RunningSame DEF OneOwner
<1>3. QueuedOnce'
  BY <1>1, QueuedSame, QueuedOther, QueuedTail DEF OneOwner, OtherStrand
<1>4. QED
  BY <1>2, <1>3 DEF OneOwner

\* The calls from other threads keep one owner per command.
LEMMA OwnerApi ==
  ASSUME TypeInv, OneOwner, ApiStep
  PROVE  OneOwner'
<1> USE DEF TypeInv, ioVars, connVars, clientVars, commandVars, apiVars
<1>1. ASSUME NEW s \in Server, AddServer(s) PROVE OneOwner'
  <2>1. OtherStrand
    BY <1>1, Closures DEF AddServer, Post, OtherStrand
  <2>2. QED
    BY <1>1, <2>1, OwnerFrame DEF AddServer
<1>2. ASSUME NEW a \in Article, GetArticleStream(a) PROVE OneOwner'
  <2> DEFINE cl == [op |-> "post", cmd |-> a]
  <2>1. a \in Command /\ phase[a] = "new" /\ phase' = [phase EXCEPT ![a] = "posted"]
    BY <1>2 DEF GetArticleStream, Command
  <2>2. /\ phase'[a] = "posted"
        /\ Keeps("waiting") /\ Keeps("running") /\ Keeps("posted") /\ Keeps("finishing")
    BY <2>1 DEF Keeps, TypeOK
  <2>3. WaitingOnce' /\ RunningOnce'
    BY <1>2, <2>2, WaitingSame, RunningSame DEF GetArticleStream, OneOwner
  <2>4. strand' = Append(strand, cl) /\ cl \in Closure /\ cl.op = "post" /\ cl.cmd = a
    BY <1>2, Closures DEF GetArticleStream, Post
  <2>5. QueuedOnce'
    BY <2>1, <2>2, <2>4, QueuedAppend DEF OneOwner
  <2>6. QED
    BY <2>3, <2>5 DEF OneOwner
<1>3. ASSUME NEW s \in Removable, RemoveServer(s) PROVE OneOwner'
  <2>1. OtherStrand
    BY <1>3, Closures DEF RemoveServer, Post, OtherStrand
  <2>2. QED
    BY <1>3, <2>1, OwnerFrame DEF RemoveServer
<1>4. ASSUME Stop PROVE OneOwner'
  <2>1. OtherStrand
    BY <1>4, Closures DEF Stop, Post, OtherStrand
  <2>2. QED
    BY <1>4, <2>1, OwnerFrame DEF Stop
<1>5. ASSUME HeartBeat PROVE OneOwner'
  <2>1. OtherStrand
    BY <1>5, Closures DEF HeartBeat, Post, OtherStrand
  <2>2. QED
    BY <1>5, <2>1, OwnerFrame DEF HeartBeat
<1>6. ASSUME NEW a \in Cancelable, Cancel(a) PROVE OneOwner'
  <2>1. UNCHANGED <<strand, phase, commands, commandsWaiting>>
    BY <1>6 DEF Cancel
  <2>2. Keeps("waiting") /\ Keeps("running") /\ Keeps("posted") /\ Keeps("finishing")
    BY <2>1 DEF Keeps
  <2>3. QED
    BY <2>1, <2>2, WaitingSame, RunningSame, QueuedSame DEF OneOwner
<1>7. QED
  BY <1>1, <1>2, <1>3, <1>4, <1>5, <1>6 DEF ApiStep

\* The end of a command takes it to m_commandsWaiting or out of the dispatcher.
LEMMA OwnerClientDone ==
  ASSUME TypeOK, WaitingOnce, NEW k, NEW c \in Command, NEW code,
         ClientDone(k, c, code), phase[c] \in {"running", "finishing"}
  PROVE  /\ WaitingOnce'
         /\ Keeps("posted") /\ KeepsBut(c, "posted")
         /\ KeepsBut(c, "running") /\ KeepsBut(c, "finishing")
<1>1. Requeue(c) \/ Release(c)
  BY DEF ClientDone
<1>2. \E p \in {"waiting", "released"} : phase' = [phase EXCEPT ![c] = p]
  BY <1>1 DEF Requeue, Release
<1>3. /\ Keeps("posted") /\ Keeps("waiting") /\ KeepsBut(c, "posted")
      /\ KeepsBut(c, "running") /\ KeepsBut(c, "finishing")
  BY <1>2 DEF Keeps, KeepsBut, TypeOK
<1>4. CASE Requeue(c)
  BY <1>3, <1>4, WaitingPrepend DEF Requeue, TypeOK
<1>5. CASE Release(c)
  BY <1>3, <1>5, WaitingSame DEF Release
<1>6. QED
  BY <1>1, <1>3, <1>4, <1>5

\* New clients only take over login commands that ended.
LEMMA OwnerStartClients ==
  ASSUME TypeOK, OneOwner, NEW s, NEW N \in SUBSET Client, StartClients(s, N),
         \A n \in N : ~ Alive(n), commandsWaiting' = commandsWaiting,
         strand' = strand \/ (strand # <<>> /\ strand' = Tail(strand))
  PROVE  OneOwner'
<1>1. \A n \in N : n \in Command /\ phase[n] = "released"
  BY DEF Alive, Command
<1>2. \A c \in Command : phase'[c] = IF c \in N THEN "running" ELSE phase[c]
  BY DEF StartClients
<1>3. Keeps("waiting") /\ Keeps("running") /\ Keeps("posted") /\ Keeps("finishing")
  BY <1>1, <1>2 DEF Keeps
<1>4. commands' = [k \in Client |-> IF k \in N THEN <<k>> ELSE commands[k]]
  BY DEF StartClients
<1>5. RunningOnce'
  BY <1>1, <1>2, <1>3, <1>4, RunningStart DEF OneOwner
<1>6. WaitingOnce' /\ QueuedOnce'
  BY <1>3, WaitingSame, QueuedSame, QueuedTail DEF OneOwner
<1>7. QED
  BY <1>5, <1>6 DEF OneOwner

\* The closures of the strand keep one owner per command.
LEMMA OwnerClosure ==
  ASSUME TypeInv, OneOwner, ClosureStep
  PROVE  OneOwner'
<1> USE DEF TypeInv, ioVars, connVars, clientVars, commandVars, apiVars
<1>0. ASSUME NEW cl, Run(cl)
      PROVE  /\ strand # <<>> /\ strand' = Tail(strand) /\ OtherStrand
             /\ 1 \in DOMAIN strand /\ strand[1] = cl /\ Head(strand) = cl
  BY <1>0, TailIndex DEF Run, OtherStrand, TypeOK
<1>1. ASSUME NEW s \in Server, RunAddServer(s) PROVE OneOwner'
  <2> DEFINE N == UNION {NewClient(s, i) : i \in 0 .. Threads[s] - 1}
  <2>1. N \in SUBSET Client /\ \A n \in N : ~ Alive(n)
    BY NewClientFacts
  <2>2. StartClients(s, N) /\ commandsWaiting' = commandsWaiting
    BY <1>1 DEF RunAddServer
  <2>3. strand # <<>> /\ strand' = Tail(strand)
    BY <1>0, <1>1 DEF RunAddServer
  <2> HIDE DEF N
  <2>4. QED
    BY <2>1, <2>2, <2>3, OwnerStartClients
<1>2. ASSUME NEW a \in Article, RunPostCommand(a) PROVE OneOwner'
  <2> DEFINE cl == [op |-> "post", cmd |-> a]
  <2>1. /\ strand # <<>> /\ strand' = Tail(strand) /\ Head(strand) = cl
        /\ phase' = [phase EXCEPT ![a] = "waiting"]
        /\ commandsWaiting' = Append(commandsWaiting, a)
        /\ commands' = commands
    BY <1>0, <1>2 DEF RunPostCommand
  <2>2. phase[a] = "posted"
    BY <1>0, <1>2 DEF RunPostCommand, OneOwner, QueuedOnce
  <2>3. a \in Command
    BY DEF Command
  <2>4. /\ phase'[a] = "waiting"
        /\ Keeps("waiting") /\ Keeps("running") /\ Keeps("finishing")
        /\ KeepsBut(a, "posted") /\ KeepsBut(a, "finishing")
    BY <2>1, <2>2, <2>3 DEF Keeps, KeepsBut, TypeOK
  <2>5. WaitingOnce' /\ RunningOnce'
    BY <2>1, <2>2, <2>3, <2>4, WaitingAppend, RunningSame DEF OneOwner
  <2>6. QueuedOnce'
    BY <2>1, <2>4, QueuedHead DEF OneOwner
  <2>7. QED
    BY <2>5, <2>6 DEF OneOwner
<1>3. ASSUME NEW k \in Client, NEW c \in Command, NEW code \in DoneCode, RunClientDone(k, c, code)
      PROVE OneOwner'
  <2> DEFINE cl == [op |-> "done", cli |-> k, cmd |-> c, code |-> code]
  <2>1. /\ strand # <<>> /\ strand' = Tail(strand)
        /\ Head(strand).op = "done" /\ Head(strand).cmd = c
        /\ commands' = commands /\ ClientDone(k, c, code)
    BY <1>0, <1>3 DEF RunClientDone
  <2>2. phase[c] = "finishing"
    BY <1>0, <1>3 DEF RunClientDone, OneOwner, QueuedOnce
  <2>3. WaitingOnce' /\ KeepsBut(c, "posted") /\ KeepsBut(c, "running") /\ KeepsBut(c, "finishing")
    BY <2>1, <2>2, OwnerClientDone DEF OneOwner
  <2>4. RunningOnce'
    BY <2>1, <2>2, <2>3, RunningSame DEF OneOwner, Keeps, KeepsBut
  <2>5. QueuedOnce'
    BY <2>1, <2>3, QueuedHead DEF OneOwner
  <2>6. QED
    BY <2>3, <2>4, <2>5 DEF OneOwner
<1>4. ASSUME NEW s \in Removable, RunRemoveServer(s) PROVE OneOwner'
  BY <1>0, <1>4, OwnerFrame DEF RunRemoveServer
<1>5. ASSUME RunStop PROVE OneOwner'
  <2>1. /\ strand # <<>> /\ strand' = Tail(strand) /\ commandsWaiting' = <<>> /\ commands' = commands
    BY <1>0, <1>5 DEF RunStop
  <2>2. \A c \in Range(commandsWaiting) : phase[c] = "waiting"
    BY DEF OneOwner, WaitingOnce, Range
  <2>3. \A c \in Command : phase'[c] = IF c \in Range(commandsWaiting) THEN "released" ELSE phase[c]
    BY <1>5 DEF RunStop
  <2>4. Keeps("running") /\ Keeps("posted") /\ Keeps("finishing")
    BY <2>2, <2>3 DEF Keeps
  <2>5. WaitingOnce'
    BY <2>1 DEF WaitingOnce
  <2>6. RunningOnce' /\ QueuedOnce'
    BY <2>1, <2>4, RunningSame, QueuedTail DEF OneOwner
  <2>7. QED
    BY <2>5, <2>6 DEF OneOwner
<1>6. ASSUME RunEvent PROVE OneOwner'
  BY <1>0, <1>6, OwnerFrame DEF RunEvent
<1>7. QED
  BY <1>1, <1>2, <1>3, <1>4, <1>5, <1>6 DEF ClosureStep

\* OnDone passes a command from its client to the strand or to ClientDone.
LEMMA OwnerCommandDone ==
  ASSUME TypeInv, OneOwner, CommandDone
  PROVE  OneOwner'
<1> DEFINE k == unwind[1].cli
           c == Head(commands[k])
           code == unwind[1].code
           cl == [op |-> "done", cli |-> k, cmd |-> c, code |-> code]
<1>1. /\ unwind # <<>>
      /\ commands' = [commands EXCEPT ![k] = Tail(@)]
  BY DEF CommandDone
<1>2. k \in Client /\ c \in Command /\ code \in DoneCode /\ commands[k] # <<>>
  BY <1>1, UnwindHead
<1>3. TypeOK
  BY DEF TypeInv
<1>4. phase[c] = "running"
  <2>1. commands[k] \in Seq(Command)
    BY <1>2, <1>3 DEF TypeOK
  <2>2. 1 \in DOMAIN commands[k] /\ c = commands[k][1]
    BY <1>2, <2>1, TailIndex
  <2>3. QED
    BY <1>2, <2>2 DEF OneOwner, RunningOnce
<1>5. CASE strand = <<>>
  <2>1. strand' = strand /\ ClientDone(k, c, code)
    BY <1>5 DEF CommandDone
  <2> HIDE DEF k, c, code
  <2>2. WaitingOnce' /\ Keeps("posted") /\ KeepsBut(c, "running") /\ KeepsBut(c, "finishing")
    BY <1>2, <1>3, <1>4, <2>1, OwnerClientDone DEF OneOwner
  <2>3. Keeps("finishing")
    BY <1>4, <2>2 DEF Keeps, KeepsBut
  <2>4. QueuedOnce'
    BY <1>3, <2>1, <2>2, <2>3, QueuedSame DEF OneOwner
  <2>5. RunningOnce'
    BY <1>1, <1>2, <1>3, <2>2, RunningPop DEF OneOwner, c
  <2>6. QED
    BY <2>2, <2>4, <2>5 DEF OneOwner
<1>6. CASE strand # <<>>
  <2>1. /\ strand' = Append(strand, cl)
        /\ phase' = [phase EXCEPT ![c] = "finishing"]
        /\ commandsWaiting' = commandsWaiting
    BY <1>6 DEF CommandDone, Post
  <2>2. cl \in Closure /\ cl.op = "done" /\ cl.cmd = c
    BY <1>2, Closures
  <2> HIDE DEF cl, k, c, code
  <2>3. /\ phase'[c] = "finishing"
        /\ Keeps("posted") /\ Keeps("waiting") /\ Keeps("finishing")
        /\ KeepsBut(c, "running")
    BY <1>2, <1>3, <1>4, <2>1 DEF Keeps, KeepsBut, TypeOK
  <2>4. WaitingOnce'
    BY <1>3, <2>1, <2>3, WaitingSame DEF OneOwner
  <2>5. RunningOnce'
    BY <1>1, <1>2, <1>3, <2>3, RunningPop DEF OneOwner, c
  <2>6. QueuedOnce'
    BY <1>3, <1>4, <2>1, <2>2, <2>3, QueuedAppend DEF OneOwner
  <2>7. QED
    BY <2>4, <2>5, <2>6 DEF OneOwner
<1>7. QED
  BY <1>5, <1>6

\* Disconnect and the ClientStopped handlers keep one owner per command.
LEMMA OwnerHandler ==
  ASSUME TypeInv, OneOwner, HandlerStep
  PROVE  OneOwner'
<1> USE DEF TypeInv, ioVars, connVars, clientVars, commandVars, apiVars
<1>1. ASSUME NEW k \in Client, Disconnect(k) PROVE OneOwner'
  BY <1>1, OwnerFrame DEF Disconnect, OtherStrand
<1>2. ASSUME NEW k \in Client, OnStoppedRestart(k) PROVE OneOwner'
  <2> DEFINE N == NewClient(k.srv, k.id)
  <2>1. N \in SUBSET Client /\ \A n \in N : ~ Alive(n)
    BY NewClientFacts, ClientFacts
  <2>2. StartClients(k.srv, N) /\ commandsWaiting' = commandsWaiting /\ strand' = strand
    BY <1>2 DEF OnStoppedRestart
  <2> HIDE DEF N
  <2>3. QED
    BY <2>1, <2>2, OwnerStartClients
<1>3. ASSUME NEW k \in Client, OnStoppedErase(k) PROVE OneOwner'
  BY <1>3, OwnerFrame DEF OnStoppedErase, OtherStrand
<1>4. ASSUME NEW k \in Client, OnStoppedPromise(k) PROVE OneOwner'
  BY <1>4, OwnerFrame DEF OnStoppedPromise, OtherStrand
<1>5. QED
  BY <1>1, <1>2, <1>3, <1>4, OwnerCommandDone DEF HandlerStep

\* The command the iterator is at leaves m_commandsWaiting.
LEMMA OwnerErase ==
  ASSUME TypeOK, OneOwner, NEW c \in Command, At(c), EraseWaiting,
         NEW p \in {"running", "released"}, phase' = [phase EXCEPT ![c] = p]
  PROVE  /\ WaitingOnce'
         /\ phase[c] = "waiting" /\ phase'[c] = p
         /\ Keeps("running") /\ Keeps("posted") /\ Keeps("finishing")
<1>1. scan \in DOMAIN commandsWaiting /\ c = commandsWaiting[scan]
  BY DEF At
<1>2. phase[c] = "waiting"
  BY <1>1 DEF OneOwner, WaitingOnce
<1>3. /\ phase'[c] = p
      /\ Keeps("running") /\ Keeps("posted") /\ Keeps("finishing")
      /\ KeepsBut(c, "waiting")
  BY <1>2 DEF Keeps, KeepsBut, TypeOK
<1>4. WaitingOnce'
  BY <1>1, <1>3, WaitingErase DEF OneOwner
<1>5. QED
  BY <1>2, <1>3, <1>4

\* DispatchCommands passes a command from the queue to one client.
LEMMA OwnerDispatch ==
  ASSUME TypeInv, OneOwner, DispatchStep
  PROVE  OneOwner'
<1> USE DEF TypeInv, ioVars, connVars, clientVars, commandVars, apiVars
<1>1. ASSUME DispatchBegin PROVE OneOwner'
  BY <1>1, OwnerFrame DEF DispatchBegin, OtherStrand
<1>2. ASSUME NEW c \in Command, DispatchCanceled(c) \/ DispatchFailed(c) PROVE OneOwner'
  <2>1. /\ At(c) /\ EraseWaiting /\ phase' = [phase EXCEPT ![c] = "released"]
        /\ strand' = strand /\ commands' = commands
    BY <1>2 DEF DispatchCanceled, DispatchFailed, Wanted
  <2>2. WaitingOnce' /\ Keeps("running") /\ Keeps("posted") /\ Keeps("finishing")
    BY <2>1, OwnerErase
  <2>3. QED
    BY <2>1, <2>2, RunningSame, QueuedSame DEF OneOwner
<1>3. ASSUME NEW c \in Command, NEW k \in Client, DispatchRun(c, k) PROVE OneOwner'
  <2>1. /\ At(c) /\ EraseWaiting /\ phase' = [phase EXCEPT ![c] = "running"]
        /\ strand' = strand /\ commands' = [commands EXCEPT ![k] = Append(@, c)]
    BY <1>3 DEF DispatchRun, Wanted
  <2>2. /\ WaitingOnce' /\ Keeps("running") /\ Keeps("posted") /\ Keeps("finishing")
        /\ phase[c] = "waiting" /\ phase'[c] = "running"
    BY <2>1, OwnerErase
  <2>3. RunningOnce'
    BY <2>1, <2>2, RunningPush DEF OneOwner
  <2>4. QED
    BY <2>1, <2>2, <2>3, QueuedSame DEF OneOwner
<1>4. ASSUME NEW c \in Command, DispatchSkip(c) PROVE OneOwner'
  BY <1>4, OwnerFrame DEF DispatchSkip, OtherStrand
<1>5. ASSUME DispatchEnd PROVE OneOwner'
  <2>1. OtherStrand
    BY <1>5, Closures DEF DispatchEnd, Post, OtherStrand
  <2>2. QED
    BY <1>5, <2>1, OwnerFrame DEF DispatchEnd
<1>6. QED
  BY <1>1, <1>2, <1>3, <1>4, <1>5 DEF DispatchStep

\* The handlers of sockets and timers move no command.
LEMMA OwnerNetwork ==
  ASSUME TypeInv, OneOwner, NetworkStep
  PROVE  OneOwner'
<1> USE DEF TypeInv, ioVars, connVars, clientVars, commandVars, apiVars
<1>1. strand' = strand /\ commandsWaiting' = commandsWaiting /\ commands' = commands /\ phase' = phase
  BY DEF NetworkStep, Finish, CloseTimeout, Drain
<1>2. QED
  BY <1>1, OwnerFrame DEF OtherStrand

\* A command is never in two places: DispatchCommands, ClientDone and OnDone move
\* it between the queue, the clients and the strand and never copy it, whatever
\* the numbers of servers, connections, commands and queued closures.
THEOREM OneOwnerAlways == Spec => []OneOwner
<1>1. Init => OneOwner
  BY DEF Init, OneOwner, WaitingOnce, RunningOnce, QueuedOnce
<1>2. TypeInv /\ OneOwner /\ [Next]_vars => OneOwner'
  <2> SUFFICES ASSUME TypeInv, OneOwner, [Next]_vars PROVE OneOwner'
    OBVIOUS
  <2>1. CASE Next
    BY <2>1, OwnerApi, OwnerClosure, OwnerHandler, OwnerDispatch, OwnerNetwork DEF Next
  <2>2. CASE UNCHANGED vars
    BY <2>2, OwnerFrame DEF OtherStrand, TypeInv, vars, clientVars, commandVars
  <2>3. QED
    BY <2>1, <2>2
<1>3. QED
  BY <1>1, <1>2, TypeInvariant, PTL DEF Spec

-----------------------------------------------------------------------------
(* The lifetime of the clients (LiveInv), the conditions under which       *)
(* commands were given to them (GivenOK), that no command is lost, and     *)
(* that NewsClientCache implements CommandService: its initial states are  *)
(* those of the service, each of its steps is one of the service or none.  *)

\* A client is in the set of its server.
ConnectionsOK == \A s \in Server : \A k \in connections[s] : k.srv = s

\* Nothing is disconnected or stopped while DispatchCommands iterates.
ScanOK == scan # 0 => disconnecting = {} /\ stopping = {}

\* Commands keep the handlers of their client alive, OnStopped runs when there
\* is no handler, and a client with handlers has not been destroyed.
HandlesOK ==
  /\ \A k \in Client : commands[k] # <<>> => handles[k]
  /\ \A k \in stopping : ~ handles[k]
  /\ Up => \A k \in Client : handles[k] => Held(k)

LiveInv == ConnectionsOK /\ ScanOK /\ HandlesOK

\* DispatchCommands only picks members of m_connections with capacity, on a server
\* the command has not failed on.
LEMMA CandidateFacts ==
  ASSUME TypeOK, ConnectionsOK, NEW c \in Command, NEW k \in Candidates(c)
  PROVE  /\ k \in Client /\ k \in connections[k.srv] /\ HasCapacity(k)
         /\ k.srv \in servers /\ k.srv \notin failed[c]
<1>1. PICK s \in Ready(c) : k \in connections[s] /\ HasCapacity(k)
  BY DEF Candidates
<1>2. s \in servers /\ s \notin failed[c]
  BY DEF Ready, Tier
<1>3. s \in Server
  BY <1>2 DEF TypeOK
<1>4. QED
  BY <1>1, <1>2, <1>3 DEF ConnectionsOK, TypeOK

\* Closures that other threads or the io thread append, and those run before
\* them, keep the clients of the queued ClientDone calls.
HeldClosures ==
  \A i \in DOMAIN strand : strand[i].op = "done" =>
    \E j \in DOMAIN strand' : strand'[j].op = "done" /\ strand'[j].cli = strand[i].cli

\* A longer strand holds on to no fewer clients.
LEMMA HeldAppend ==
  ASSUME TypeOK, NEW cl \in Closure, strand' = Append(strand, cl)
  PROVE  HeldClosures
<1>1. strand \in Seq(Closure)
  BY DEF TypeOK
<1>2. \A i \in DOMAIN strand : i \in DOMAIN strand' /\ strand'[i] = strand[i]
  BY <1>1, AppendProperties, LenProperties
<1>3. QED
  BY <1>2 DEF HeldClosures

\* Running a closure lets go of the client of a done closure only.
LEMMA HeldTail ==
  ASSUME TypeOK, strand # <<>>, strand' = Tail(strand), Head(strand).op # "done"
  PROVE  HeldClosures
<1>1. strand \in Seq(Closure) /\ Len(strand) \in Nat \ {0} /\ DOMAIN strand = 1 .. Len(strand)
  BY EmptySeq, LenProperties DEF TypeOK
<1>2. /\ Len(strand') = Len(strand) - 1 /\ DOMAIN strand' = 1 .. Len(strand')
      /\ \A i \in 1 .. Len(strand') : strand'[i] = strand[i + 1]
  BY <1>1, HeadTailProperties, LenProperties
<1>3. Head(strand) = strand[1]
  BY <1>1
<1>4. ASSUME NEW i \in DOMAIN strand, strand[i].op = "done"
      PROVE  i - 1 \in DOMAIN strand' /\ strand'[i - 1] = strand[i]
  <2>1. i # 1
    BY <1>3, <1>4
  <2>2. i - 1 \in 1 .. Len(strand') /\ (i - 1) + 1 = i
    BY <1>1, <1>2, <2>1
  <2>3. QED
    BY <1>2, <2>2
<1>5. QED
  BY <1>4 DEF HeldClosures

\* Steps that leave the clients alone.
LEMMA LiveFrame ==
  ASSUME TypeOK, LiveInv, HeldClosures \/ strand' = strand,
         UNCHANGED <<connections, connectionsBin, commands, handles, crashed>>,
         disconnecting' = disconnecting, stopping' = stopping,
         scan' # 0 => disconnecting = {} /\ stopping = {}
  PROVE  LiveInv'
<1>1. ConnectionsOK' /\ ScanOK'
  BY DEF LiveInv, ConnectionsOK, ScanOK
<1>2. \A k \in Client : Held(k) => Held(k)'
  BY DEF Held, HeldClosures
<1>3. QED
  BY <1>1, <1>2 DEF LiveInv, HandlesOK, Up

\* The calls from other threads leave the clients alone.
LEMMA LiveApi ==
  ASSUME TypeInv, LiveInv, ApiStep
  PROVE  LiveInv'
<1> USE DEF TypeInv
<1>1. HeldClosures
  <2>1. strand' = strand \/ \E cl \in Closure : strand' = Append(strand, cl)
    BY Closures
       DEF ApiStep, AddServer, GetArticleStream, Cancel, RemoveServer, Stop, HeartBeat, Post
  <2>2. QED
    BY <2>1, HeldAppend DEF HeldClosures
<1>2. UNCHANGED <<ioVars, connVars, commands, handles, crashed>>
  BY DEF ApiStep, AddServer, GetArticleStream, Cancel, RemoveServer, Stop, HeartBeat, clientVars
<1>3. QED
  BY <1>1, <1>2, LiveFrame DEF ioVars, connVars, LiveInv, ScanOK

\* StartClient, followed by the end of the closure or callback it runs in.
LEMMA LiveStartClients ==
  ASSUME TypeOK, LiveInv, NEW s \in Server, NEW N \in SUBSET Client, StartClients(s, N),
         \A n \in N : n.srv = s, DestroyClients,
         scan' = 0 \/ (scan' = scan /\ disconnecting' = disconnecting), stopping' = {}
  PROVE  LiveInv'
<1>1. ConnectionsOK'
  BY DEF LiveInv, ConnectionsOK, StartClients, TypeOK
<1>2. ScanOK'
  BY DEF LiveInv, ScanOK
<1>3. \A k \in Client : commands'[k] # <<>> => handles'[k]
  BY DEF LiveInv, HandlesOK, StartClients
<1>4. Up' => \A k \in Client : handles'[k] => Held(k)'
  BY DEF DestroyClients, Up
<1>5. QED
  BY <1>1, <1>2, <1>3, <1>4 DEF LiveInv, HandlesOK

\* ClientDone, once its command left the client.
LEMMA LiveClientDone ==
  ASSUME TypeOK, LiveInv, stopping = {}, scan = 0,
         NEW k \in Client, NEW c, NEW code, ClientDone(k, c, code),
         \A o \in Client : commands'[o] # <<>> => commands[o] # <<>>
  PROVE  LiveInv'
<1>1. ConnectionsOK'
  <2>1. EraseConnection(k) \/ connections' = connections
    BY DEF ClientDone, StopClient, RestartClient, connVars
  <2>2. \A s \in Server : connections'[s] \subseteq connections[s]
    BY <2>1 DEF EraseConnection, TypeOK
  <2>3. QED
    BY <2>2 DEF LiveInv, ConnectionsOK
<1>2. stopping' = {} /\ scan' = 0 /\ handles' = handles
  BY DEF ClientDone
<1>3. Up' => \A o \in Client : handles'[o] => Held(o)'
  BY DEF ClientDone, DestroyClients, Up
<1>4. QED
  BY <1>1, <1>2, <1>3 DEF LiveInv, HandlesOK, ScanOK

\* AsyncDisconnectClients keeps the clients it takes out of m_connections.
LEMMA LiveRemove ==
  ASSUME TypeOK, LiveInv, HeldClosures, disconnecting = {}, stopping = {}, scan = 0,
         NEW K, NEW p, AsyncDisconnectClients(K, p),
         \A s \in Server : connections'[s] \subseteq connections[s]
                             /\ connections[s] \subseteq connections'[s] \cup K,
         UNCHANGED <<stopping, scan, handles, commands, crashed>>
  PROVE  LiveInv'
<1>1. ConnectionsOK' /\ ScanOK'
  BY DEF LiveInv, ConnectionsOK, ScanOK
<1>2. connectionsBin' = connectionsBin \cup K /\ disconnecting' = K
  BY DEF AsyncDisconnectClients
<1>3. ASSUME NEW k \in Client, Held(k)
      PROVE  Held(k)'
  BY <1>2, <1>3, ClientFacts DEF Held, HeldClosures
<1>4. QED
  BY <1>1, <1>3 DEF LiveInv, HandlesOK, Up

\* The closures of the strand keep LiveInv.
LEMMA LiveClosure ==
  ASSUME TypeInv, LiveInv, ClosureStep
  PROVE  LiveInv'
<1> USE DEF TypeInv, ioVars, connVars, clientVars, commandVars, apiVars
<1>0. ASSUME NEW cl, Run(cl)
      PROVE  /\ strand # <<>> /\ strand' = Tail(strand) /\ Head(strand) = cl
             /\ disconnecting = {} /\ stopping = {} /\ scan = 0
             /\ cl.op # "done" => HeldClosures
  BY <1>0, HeldTail DEF Run, IoIdle, ClosureOver
<1>1. ASSUME NEW s \in Server, RunAddServer(s) PROVE LiveInv'
  <2> DEFINE N == UNION {NewClient(s, i) : i \in 0 .. Threads[s] - 1}
  <2>1. N \in SUBSET Client /\ \A n \in N : n.srv = s
    BY NewClientFacts
  <2>2. StartClients(s, N) /\ DestroyClients /\ UNCHANGED ioVars
    BY <1>1 DEF RunAddServer
  <2>3. scan = 0 /\ stopping = {}
    BY <1>0, <1>1 DEF RunAddServer
  <2> HIDE DEF N
  <2>4. QED
    BY <2>1, <2>2, <2>3, LiveStartClients
<1>2. ASSUME NEW a \in Article, RunPostCommand(a) PROVE LiveInv'
  <2>1. HeldClosures /\ scan = 0
    BY <1>0, <1>2 DEF RunPostCommand
  <2>2. QED
    BY <1>2, <2>1, LiveFrame DEF RunPostCommand
<1>3. ASSUME NEW k \in Client, NEW c \in Command, NEW code \in DoneCode, RunClientDone(k, c, code)
      PROVE LiveInv'
  <2>1. stopping = {} /\ scan = 0
    BY <1>0, <1>3 DEF RunClientDone
  <2>2. QED
    BY <1>3, <2>1, LiveClientDone DEF RunClientDone
<1>4. ASSUME NEW s \in Removable, RunRemoveServer(s) PROVE LiveInv'
  <2> DEFINE K == connections[s]
  <2>1. HeldClosures /\ disconnecting = {} /\ stopping = {} /\ scan = 0
    BY <1>0, <1>4 DEF RunRemoveServer
  <2>2. AsyncDisconnectClients(K, RemovePromise(s)) /\ connections' = [connections EXCEPT ![s] = {}]
    BY <1>4 DEF RunRemoveServer
  <2>3. \A t \in Server : connections'[t] \subseteq connections[t]
                            /\ connections[t] \subseteq connections'[t] \cup K
    BY <2>2 DEF TypeOK
  <2>4. UNCHANGED <<stopping, scan, handles, commands, crashed>>
    BY <1>4 DEF RunRemoveServer
  <2> HIDE DEF K
  <2>5. QED
    BY <2>1, <2>2, <2>3, <2>4, LiveRemove
<1>5. ASSUME RunStop PROVE LiveInv'
  <2> DEFINE K == UNION {connections[s] : s \in Server}
  <2>1. HeldClosures /\ disconnecting = {} /\ stopping = {} /\ scan = 0
    BY <1>0, <1>5 DEF RunStop
  <2>2. AsyncDisconnectClients(K, StopPromise) /\ connections' = [s \in Server |-> {}]
    BY <1>5 DEF RunStop
  <2>3. \A t \in Server : connections'[t] \subseteq connections[t]
                            /\ connections[t] \subseteq connections'[t] \cup K
    BY <2>2
  <2>4. UNCHANGED <<stopping, scan, handles, commands, crashed>>
    BY <1>5 DEF RunStop
  <2> HIDE DEF K
  <2>5. QED
    BY <2>1, <2>2, <2>3, <2>4, LiveRemove
<1>6. ASSUME RunEvent PROVE LiveInv'
  <2>1. HeldClosures /\ scan = 0
    BY <1>0, <1>6 DEF RunEvent
  <2>2. QED
    BY <1>6, <2>1, LiveFrame DEF RunEvent
<1>7. QED
  BY <1>1, <1>2, <1>3, <1>4, <1>5, <1>6 DEF ClosureStep

\* A client that OnStopped is called for has no handlers to lose.
LEMMA LiveStopped ==
  ASSUME TypeOK, LiveInv, NEW k \in stopping,
         connectionsBin \ {k} \subseteq connectionsBin',
         UNCHANGED <<strand, connections, commands, handles, disconnecting, scan>>,
         stopping' = {}, crashed' = crashed \/ crashed' # "no"
  PROVE  LiveInv'
<1>1. ConnectionsOK' /\ ScanOK'
  BY DEF LiveInv, ConnectionsOK, ScanOK
<1>2. \A o \in Client : o # k /\ Held(o) => Held(o)'
  BY DEF Held
<1>3. QED
  BY <1>1, <1>2 DEF LiveInv, HandlesOK, Up

\* Disconnect, the ClientStopped handlers and OnDone keep LiveInv.
LEMMA LiveHandler ==
  ASSUME TypeInv, LiveInv, HandlerStep
  PROVE  LiveInv'
<1> USE DEF TypeInv, ioVars, connVars, clientVars, commandVars, apiVars
<1>1. ASSUME NEW k \in Client, Disconnect(k) PROVE LiveInv'
  <2>1. scan = 0 /\ scan' = 0
    BY <1>1 DEF Disconnect, LiveInv, ScanOK
  <2>2. ConnectionsOK' /\ ScanOK'
    BY <1>1, <2>1 DEF Disconnect, LiveInv, ConnectionsOK, ScanOK
  <2>3. Up' => \A o \in Client : handles'[o] => Held(o)'
    BY <1>1 DEF Disconnect, DestroyClients, Up
  <2>4. \A o \in stopping' : ~ handles'[o]
    BY <1>1 DEF Disconnect
  <2>5. \A o \in Client : commands'[o] # <<>> => handles'[o]
    BY <1>1 DEF Disconnect, LiveInv, HandlesOK
  <2>6. QED
    BY <2>2, <2>3, <2>4, <2>5 DEF LiveInv, HandlesOK
<1>2. ASSUME NEW k \in Client, OnStoppedRestart(k) PROVE LiveInv'
  <2> DEFINE N == NewClient(k.srv, k.id)
  <2>1. k.srv \in Server /\ N \in SUBSET Client /\ \A n \in N : n.srv = k.srv
    BY NewClientFacts, ClientFacts
  <2>2. /\ StartClients(k.srv, N) /\ DestroyClients
        /\ disconnecting' = disconnecting /\ scan' = scan /\ stopping' = {}
    BY <1>2 DEF OnStoppedRestart
  <2> HIDE DEF N
  <2>3. QED
    BY <2>1, <2>2, LiveStartClients
<1>3. ASSUME NEW k \in Client, OnStoppedErase(k) PROVE LiveInv'
  BY <1>3, LiveStopped DEF OnStoppedErase
<1>4. ASSUME NEW k \in Client, OnStoppedPromise(k) PROVE LiveInv'
  BY <1>4, LiveStopped DEF OnStoppedPromise
<1>5. ASSUME CommandDone PROVE LiveInv'
  <2> DEFINE k == unwind[1].cli
             c == Head(commands[k])
             code == unwind[1].code
  <2>1. /\ unwind # <<>> /\ commands' = [commands EXCEPT ![k] = Tail(@)]
        /\ stopping = {} /\ scan = 0
    BY <1>5 DEF CommandDone, ClosureOver
  <2>2. k \in Client /\ c \in Command /\ code \in DoneCode /\ commands[k] # <<>>
    BY <2>1, UnwindHead
  <2>3. \A o \in Client : commands'[o] # <<>> => commands[o] # <<>>
    BY <2>1, <2>2 DEF TypeOK
  <2>4. CASE strand = <<>>
    <3>1. ClientDone(k, c, code)
      BY <1>5, <2>4 DEF CommandDone
    <3> HIDE DEF k, c, code
    <3>2. QED
      BY <2>1, <2>2, <2>3, <3>1, LiveClientDone
  <2>5. CASE strand # <<>>
    <3>1. strand' = Append(strand, [op |-> "done", cli |-> k, cmd |-> c, code |-> code])
      BY <1>5, <2>5 DEF CommandDone, Post
    <3>2. HeldClosures
      BY <2>2, <3>1, Closures, HeldAppend
    <3>3. UNCHANGED <<connections, connectionsBin, handles, crashed, disconnecting, stopping, scan>>
      BY <1>5, <2>5 DEF CommandDone
    <3>4. ConnectionsOK' /\ ScanOK'
      BY <3>3 DEF LiveInv, ConnectionsOK, ScanOK
    <3>5. \A o \in Client : Held(o) => Held(o)'
      BY <3>2, <3>3 DEF Held, HeldClosures
    <3> HIDE DEF k, c, code
    <3>6. QED
      BY <2>3, <3>3, <3>4, <3>5 DEF LiveInv, HandlesOK, Up
  <2>6. QED
    BY <2>4, <2>5
<1>6. QED
  BY <1>1, <1>2, <1>3, <1>4, <1>5 DEF HandlerStep

\* DispatchCommands keeps LiveInv.
LEMMA LiveDispatch ==
  ASSUME TypeInv, LiveInv, DispatchStep
  PROVE  LiveInv'
<1> USE DEF TypeInv, ioVars, connVars, clientVars, commandVars, apiVars
<1>1. ASSUME DispatchBegin PROVE LiveInv'
  BY <1>1, LiveFrame DEF DispatchBegin
<1>2. ASSUME NEW c \in Command, DispatchCanceled(c) \/ DispatchFailed(c) \/ DispatchSkip(c)
      PROVE  LiveInv'
  <2>1. scan # 0
    BY <1>2 DEF DispatchCanceled, DispatchFailed, DispatchSkip, Wanted, At, TypeOK
  <2>2. QED
    BY <1>2, <2>1, LiveFrame DEF DispatchCanceled, DispatchFailed, DispatchSkip, LiveInv, ScanOK
<1>3. ASSUME NEW c \in Command, NEW k \in Client, DispatchRun(c, k) PROVE LiveInv'
  <2>1. k \in Candidates(c)
    BY <1>3 DEF DispatchRun, FirstOf
  <2>2. k \in connections[k.srv]
    BY <2>1, CandidateFacts DEF LiveInv
  <2>3. UNCHANGED <<strand, ioVars, connVars, crashed>>
    BY <1>3 DEF DispatchRun
  <2>4. ConnectionsOK' /\ ScanOK'
    BY <2>3 DEF LiveInv, ConnectionsOK, ScanOK
  <2>5. stopping = {}
    BY <1>3 DEF DispatchRun, Wanted, At, LiveInv, ScanOK, TypeOK
  <2>6. handles' = [handles EXCEPT ![k] = TRUE] /\ commands' = [commands EXCEPT ![k] = Append(@, c)]
    BY <1>3 DEF DispatchRun
  <2>7. \A o \in Client : commands'[o] # <<>> => handles'[o]
    BY <2>6 DEF LiveInv, HandlesOK, TypeOK
  <2>8. \A o \in Client : Held(o)' <=> Held(o)
    BY <2>3 DEF Held
  <2>9. Up' => \A o \in Client : handles'[o] => Held(o)'
    BY <2>2, <2>3, <2>6, <2>8 DEF LiveInv, HandlesOK, Up, Held, TypeOK
  <2>10. QED
    BY <2>3, <2>4, <2>5, <2>7, <2>9 DEF LiveInv, HandlesOK
<1>4. ASSUME DispatchEnd PROVE LiveInv'
  <2>1. HeldClosures \/ strand' = strand
    BY <1>4, Closures, HeldAppend DEF DispatchEnd, Post
  <2>2. QED
    BY <1>4, <2>1, LiveFrame DEF DispatchEnd
<1>5. QED
  BY <1>1, <1>2, <1>3, <1>4 DEF DispatchStep

\* The handlers of sockets and timers keep LiveInv.
LEMMA LiveNetwork ==
  ASSUME TypeInv, LiveInv, NetworkStep
  PROVE  LiveInv'
<1> USE DEF TypeInv, ioVars, connVars, clientVars, commandVars, apiVars
<1>1. ASSUME NEW k \in Client, NEW code, NEW n, Finish(k, code, n) PROVE LiveInv'
  BY <1>1, LiveFrame DEF Finish, IoIdle, ClosureOver
<1>2. ASSUME NEW k \in Client, CloseTimeout(k) PROVE LiveInv'
  BY <1>2, LiveFrame DEF CloseTimeout, IoIdle, ClosureOver
<1>3. ASSUME NEW k \in Client, Drain(k) PROVE LiveInv'
  <2>1. UNCHANGED <<strand, connVars, commands, crashed, disconnecting, scan>> /\ scan = 0
    BY <1>3 DEF Drain, IoIdle, ClosureOver
  <2>2. ConnectionsOK' /\ ScanOK'
    BY <2>1 DEF LiveInv, ConnectionsOK, ScanOK
  <2>3. handles' = [handles EXCEPT ![k] = FALSE] /\ commands[k] = <<>> /\ stopping' \subseteq {k}
    BY <1>3 DEF Drain
  <2>4. \A o \in Client : handles'[o] <=> (o # k /\ handles[o])
    BY <2>3 DEF TypeOK
  <2>5. \A o \in Client : Held(o)' <=> Held(o)
    BY <2>1 DEF Held
  <2>6. QED
    BY <2>1, <2>2, <2>3, <2>4, <2>5 DEF LiveInv, HandlesOK, Up
<1>4. QED
  BY <1>1, <1>2, <1>3 DEF NetworkStep

\* While the process is up, a client with pending handlers is reachable, and only
\* clients of its own server are in an entry of m_connections (StartClient,
\* ClientDone, AsyncDisconnectClients).
THEOREM LiveAlways == Spec => []LiveInv
<1>1. Init => LiveInv
  BY DEF Init, LiveInv, ConnectionsOK, ScanOK, HandlesOK
<1>2. TypeInv /\ LiveInv /\ [Next]_vars => LiveInv'
  <2> SUFFICES ASSUME TypeInv, LiveInv, [Next]_vars PROVE LiveInv'
    OBVIOUS
  <2>1. CASE Next
    BY <2>1, LiveApi, LiveClosure, LiveHandler, LiveDispatch, LiveNetwork DEF Next
  <2>2. CASE UNCHANGED vars
    BY <2>2, LiveFrame DEF TypeInv, vars, ioVars, connVars, clientVars, LiveInv, ScanOK
  <2>3. QED
    BY <2>1, <2>2
<1>3. QED
  BY <1>1, <1>2, TypeInvariant, PTL DEF Spec

-----------------------------------------------------------------------------
(* What a client may be given: NeverAskedTwice and PipelineBound.          *)

GivenOK == NeverAskedTwice /\ PipelineBound

\* A pipeline has room for a command.
LEMMA PipelineType == \A k \in Client : Pipeline[k.srv] \in Nat \ {0}
  BY NCCAssumption, ClientFacts

\* Numbers that HasCapacity compares.
LEMMA ArithmeticTwo ==
  ASSUME NEW l \in Nat, NEW p \in Nat, l < p, p <= 2, l + 1 > 1
  PROVE  l = 1
  OBVIOUS

\* Steps that give no command to a client.
LEMMA GivenFrame ==
  ASSUME GivenOK, commands' = commands, failed' = failed
  PROVE  GivenOK'
  BY DEF GivenOK, NeverAskedTwice, PipelineBound

\* m_failed changes for a command that no client has any more.
LEMMA AskedClientDone ==
  ASSUME TypeOK, NeverAskedTwice, RunningOnce', NEW k, NEW c \in Command, NEW code,
         ClientDone(k, c, code),
         \A o \in Client : \A i \in DOMAIN commands'[o] :
           \E j \in DOMAIN commands[o] : commands'[o][i] = commands[o][j]
  PROVE  NeverAskedTwice'
<1>1. phase'[c] # "running"
  BY DEF ClientDone, Requeue, Release, TypeOK
<1>2. \A d \in Command : d # c => failed'[d] = failed[d]
  BY DEF ClientDone, AddFailed, TypeOK
<1>3. \A o \in Client : \A j \in DOMAIN commands[o] : commands[o][j] \in Command
  BY ElementOfSeq DEF TypeOK
<1>4. \A o \in Client : \A i \in DOMAIN commands'[o] : commands'[o][i] # c
  BY <1>1 DEF RunningOnce
<1>5. QED
  BY <1>2, <1>3, <1>4 DEF NeverAskedTwice

\* A new client runs its own login, which failed nowhere.
LEMMA GivenStartClients ==
  ASSUME TypeOK, OneOwner, GivenOK, NEW s, NEW N \in SUBSET Client, StartClients(s, N),
         \A n \in N : ~ Alive(n)
  PROVE  GivenOK'
<1>1. \A n \in N : n \in Command /\ phase[n] = "released" /\ failed'[n] = {}
  BY DEF Alive, Command, StartClients
<1>2. \A d \in Command : d \notin N => failed'[d] = failed[d]
  BY DEF StartClients
<1>3. \A k \in Client : commands'[k] = IF k \in N THEN <<k>> ELSE commands[k]
  BY DEF StartClients
<1>4. \A k \in Client : \A i \in DOMAIN commands[k] : commands[k][i] \in Command
  BY ElementOfSeq DEF TypeOK
<1>5. NeverAskedTwice'
  <2> SUFFICES ASSUME NEW k \in Client, NEW i \in DOMAIN commands'[k]
               PROVE  k.srv \notin failed'[commands'[k][i]]
    BY DEF NeverAskedTwice
  <2>1. CASE k \in N
    <3>1. commands'[k] = <<k>>
      BY <1>3, <2>1
    <3>2. commands'[k][i] = k
      BY <3>1
    <3>3. QED
      BY <1>1, <2>1, <3>2
  <2>2. CASE k \notin N
    <3>1. i \in DOMAIN commands[k] /\ commands'[k][i] = commands[k][i]
      BY <1>3, <2>2
    <3>2. phase[commands[k][i]] = "running"
      BY <3>1 DEF OneOwner, RunningOnce
    <3>3. QED
      BY <1>1, <1>2, <1>4, <3>1, <3>2 DEF GivenOK, NeverAskedTwice
  <2>3. QED
    BY <2>1, <2>2
<1>6. ASSUME NEW k \in N
      PROVE  Len(commands'[k]) = 1
  <2>1. commands'[k] = <<k>>
    BY <1>3
  <2>2. QED
    BY <2>1
<1>7. PipelineBound'
  <2> SUFFICES ASSUME NEW k \in Client
               PROVE  /\ Len(commands'[k]) <= Pipeline[k.srv]
                      /\ Len(commands'[k]) > 1 /\ Pipeline[k.srv] <= 2 => Pipeable(Head(commands'[k]))
    BY DEF PipelineBound
  <2>1. CASE k \in N
    <3>1. Len(commands'[k]) = 1 /\ Pipeline[k.srv] \in Nat \ {0}
      BY <1>6, <2>1, PipelineType
    <3>2. QED
      BY <3>1
  <2>2. CASE k \notin N
    BY <1>3, <2>2 DEF GivenOK, PipelineBound
  <2>3. QED
    BY <2>1, <2>2
<1>8. QED
  BY <1>5, <1>7 DEF GivenOK

\* The closures of the strand keep GivenOK.
LEMMA GivenClosure ==
  ASSUME TypeInv, OneOwner, OneOwner', GivenOK, ClosureStep
  PROVE  GivenOK'
<1> USE DEF TypeInv, clientVars, commandVars
<1>1. ASSUME NEW s \in Server, RunAddServer(s) PROVE GivenOK'
  <2> DEFINE N == UNION {NewClient(s, i) : i \in 0 .. Threads[s] - 1}
  <2>1. N \in SUBSET Client /\ \A n \in N : ~ Alive(n)
    BY NewClientFacts
  <2>2. StartClients(s, N)
    BY <1>1 DEF RunAddServer
  <2> HIDE DEF N
  <2>3. QED
    BY <2>1, <2>2, GivenStartClients
<1>2. ASSUME NEW k \in Client, NEW c \in Command, NEW code \in DoneCode, RunClientDone(k, c, code)
      PROVE GivenOK'
  <2>1. ClientDone(k, c, code) /\ commands' = commands
    BY <1>2 DEF RunClientDone
  <2>2. NeverAskedTwice'
    BY <2>1, AskedClientDone DEF GivenOK, OneOwner
  <2>3. QED
    BY <2>1, <2>2 DEF GivenOK, PipelineBound
<1>3. ASSUME \/ \E a \in Article : RunPostCommand(a)
             \/ \E s \in Removable : RunRemoveServer(s)
             \/ RunStop \/ RunEvent
      PROVE GivenOK'
  BY <1>3, GivenFrame DEF RunPostCommand, RunRemoveServer, RunStop, RunEvent
<1>4. QED
  BY <1>1, <1>2, <1>3 DEF ClosureStep

\* OnDone takes a command from its client before m_failed grows.
LEMMA GivenCommandDone ==
  ASSUME TypeInv, OneOwner', GivenOK, CommandDone
  PROVE  GivenOK'
<1> DEFINE k == unwind[1].cli
           c == Head(commands[k])
           code == unwind[1].code
<1>1. unwind # <<>> /\ commands' = [commands EXCEPT ![k] = Tail(@)]
  BY DEF CommandDone
<1>2. k \in Client /\ c \in Command /\ code \in DoneCode /\ commands[k] # <<>>
  BY <1>1, UnwindHead
<1>3. TypeOK /\ \A o \in Client : commands[o] \in Seq(Command)
  BY DEF TypeInv, TypeOK
<1>4. \A o \in Client : commands'[o] = IF o = k THEN Tail(commands[k]) ELSE commands[o]
  BY <1>1, <1>3 DEF TypeOK
<1>5. \A i \in DOMAIN Tail(commands[k]) :
        i + 1 \in DOMAIN commands[k] /\ Tail(commands[k])[i] = commands[k][i + 1]
  BY <1>2, <1>3, TailIndex
<1>6. \A o \in Client : \A i \in DOMAIN commands'[o] :
        \E j \in DOMAIN commands[o] : commands'[o][i] = commands[o][j]
  BY <1>4, <1>5
<1>7. NeverAskedTwice'
  <2>1. CASE strand = <<>>
    <3>1. ClientDone(k, c, code)
      BY <2>1 DEF CommandDone
    <3> HIDE DEF k, c, code
    <3>2. QED
      BY <1>2, <1>3, <1>6, <3>1, AskedClientDone DEF GivenOK, OneOwner
  <2>2. CASE strand # <<>>
    <3>1. failed' = failed
      BY <2>2 DEF CommandDone
    <3> HIDE DEF k, c, code
    <3>2. QED
      BY <1>6, <3>1 DEF GivenOK, NeverAskedTwice
  <2>3. QED
    BY <2>1, <2>2
<1>8. PipelineBound'
  <2>1. Len(Tail(commands[k])) = Len(commands[k]) - 1 /\ Len(commands[k]) \in Nat
    BY <1>2, <1>3, HeadTailProperties, LenProperties
  <2>2. Pipeline[k.srv] \in Nat
    BY <1>2, PipelineType
  <2>3. /\ Len(commands'[k]) <= Pipeline[k.srv]
        /\ ~ (Len(commands'[k]) > 1 /\ Pipeline[k.srv] <= 2)
    <3>1. Len(commands[k]) <= Pipeline[k.srv]
      BY <1>2 DEF GivenOK, PipelineBound
    <3>2. commands'[k] = Tail(commands[k])
      BY <1>2, <1>4
    <3> HIDE DEF k
    <3>3. QED
      BY <2>1, <2>2, <3>1, <3>2
  <2>4. \A o \in Client : o # k => commands'[o] = commands[o]
    BY <1>4
  <2> HIDE DEF k
  <2>5. QED
    BY <2>3, <2>4 DEF GivenOK, PipelineBound
<1>9. QED
  BY <1>7, <1>8 DEF GivenOK

\* Disconnect and the ClientStopped handlers keep GivenOK.
LEMMA GivenHandler ==
  ASSUME TypeInv, OneOwner, OneOwner', GivenOK, HandlerStep
  PROVE  GivenOK'
<1> USE DEF TypeInv, clientVars, commandVars
<1>1. ASSUME NEW k \in Client, OnStoppedRestart(k) PROVE GivenOK'
  <2> DEFINE N == NewClient(k.srv, k.id)
  <2>1. N \in SUBSET Client /\ \A n \in N : ~ Alive(n)
    BY NewClientFacts, ClientFacts
  <2>2. StartClients(k.srv, N)
    BY <1>1 DEF OnStoppedRestart
  <2> HIDE DEF N
  <2>3. QED
    BY <2>1, <2>2, GivenStartClients
<1>2. ASSUME NEW k \in Client, Disconnect(k) \/ OnStoppedErase(k) \/ OnStoppedPromise(k)
      PROVE  GivenOK'
  BY <1>2, GivenFrame DEF Disconnect, OnStoppedErase, OnStoppedPromise
<1>3. QED
  BY <1>1, <1>2, GivenCommandDone DEF HandlerStep

\* RunCommand only gives a command to a client that DispatchCommands may choose.
LEMMA GivenDispatch ==
  ASSUME TypeInv, ConnectionsOK, GivenOK, DispatchStep
  PROVE  GivenOK'
<1> USE DEF TypeInv, clientVars, commandVars
<1>1. ASSUME NEW c \in Command, NEW k \in Client, DispatchRun(c, k) PROVE GivenOK'
  <2>1. k \in Candidates(c)
    BY <1>1 DEF DispatchRun, FirstOf
  <2>2. HasCapacity(k) /\ k.srv \notin failed[c]
    BY <2>1, CandidateFacts
  <2>3. failed' = failed /\ commands[k] \in Seq(Command) /\ Len(commands[k]) \in Nat
    BY <1>1 DEF DispatchRun, TypeOK
  <2>4. \A o \in Client : commands'[o] = IF o = k THEN Append(commands[k], c) ELSE commands[o]
    BY <1>1 DEF DispatchRun, TypeOK
  <2>5. /\ Len(Append(commands[k], c)) = Len(commands[k]) + 1
        /\ \A i \in DOMAIN Append(commands[k], c) :
             \/ Append(commands[k], c)[i] = c
             \/ i \in DOMAIN commands[k] /\ Append(commands[k], c)[i] = commands[k][i]
    BY <2>3, AppendProperties, LenProperties
  <2>6. NeverAskedTwice'
    BY <2>2, <2>3, <2>4, <2>5 DEF GivenOK, NeverAskedTwice
  <2>7. commands[k] # <<>> => Head(Append(commands[k], c)) = Head(commands[k])
    BY <2>3, HeadTailAppend
  <2>8. Len(commands[k]) = 1 => commands[k] # <<>>
    OBVIOUS
  <2>9. Pipeline[k.srv] \in Nat
    BY PipelineType
  <2>10. /\ Len(Append(commands[k], c)) <= Pipeline[k.srv]
         /\ Len(Append(commands[k], c)) > 1 /\ Pipeline[k.srv] <= 2
              => Pipeable(Head(Append(commands[k], c)))
    <3>1. Len(commands[k]) < Pipeline[k.srv]
      BY <2>2 DEF HasCapacity
    <3>2. Len(commands[k]) = 1 => Pipeable(Head(Append(commands[k], c)))
      BY <2>2, <2>7, <2>8 DEF HasCapacity
    <3>3. Len(commands[k]) + 1 > 1 /\ Pipeline[k.srv] <= 2 => Len(commands[k]) = 1
      BY <2>3, <2>9, <3>1, ArithmeticTwo
    <3>4. QED
      BY <2>3, <2>5, <2>9, <3>1, <3>2, <3>3
  <2>11. PipelineBound'
    BY <2>4, <2>10 DEF GivenOK, PipelineBound
  <2>12. QED
    BY <2>6, <2>11 DEF GivenOK
<1>2. ASSUME \/ DispatchBegin \/ DispatchEnd
             \/ \E c \in Command : DispatchCanceled(c) \/ DispatchFailed(c) \/ DispatchSkip(c)
      PROVE  GivenOK'
  BY <1>2, GivenFrame DEF DispatchBegin, DispatchEnd, DispatchCanceled, DispatchFailed, DispatchSkip
<1>3. QED
  BY <1>1, <1>2 DEF DispatchStep

\* No step breaks GivenOK.
LEMMA GivenStep ==
  ASSUME TypeInv, OneOwner, OneOwner', ConnectionsOK, GivenOK, [Next]_vars
  PROVE  GivenOK'
<1>1. CASE ApiStep
  BY <1>1, GivenFrame
     DEF ApiStep, AddServer, GetArticleStream, Cancel, RemoveServer, Stop, HeartBeat,
         clientVars, commandVars
<1>2. CASE NetworkStep
  BY <1>2, GivenFrame DEF NetworkStep, Finish, CloseTimeout, Drain, clientVars, commandVars
<1>3. CASE UNCHANGED vars
  BY <1>3, GivenFrame DEF vars, clientVars, commandVars
<1>4. QED
  BY <1>1, <1>2, <1>3, GivenClosure, GivenHandler, GivenDispatch DEF Next

\* What DispatchCommands tested when it gave a command to a client stays true while
\* the client has it: HasCapacity and HasFailed are not stale.
THEOREM GivenAlways == Spec => []GivenOK
<1>1. Init => GivenOK
  <2> SUFFICES ASSUME Init PROVE GivenOK
    OBVIOUS
  <2>1. \A k \in Client : commands[k] = <<>>
    BY DEF Init
  <2>2. QED
    BY <2>1, PipelineType DEF GivenOK, NeverAskedTwice, PipelineBound
<1>2. TypeInv /\ OneOwner /\ OneOwner' /\ LiveInv /\ GivenOK /\ [Next]_vars => GivenOK'
  BY GivenStep DEF LiveInv
<1>3. QED
  BY <1>1, <1>2, TypeInvariant, OneOwnerAlways, LiveAlways, PTL DEF Spec

\* A server that failed a command is never asked again (AddFailed, HasFailed),
\* for any number of servers, retries and restarts.
THEOREM NeverAskedTwiceAlways == Spec => []NeverAskedTwice
<1>1. GivenOK => NeverAskedTwice
  BY DEF GivenOK
<1>2. QED
  BY <1>1, GivenAlways, PTL

\* No connection has more commands in flight than its Pipeline setting
\* (HasCapacity, RunCommand), for any setting.
THEOREM PipelineBoundAlways == Spec => []PipelineBound
<1>1. GivenOK => PipelineBound
  BY DEF GivenOK
<1>2. QED
  BY <1>1, GivenAlways, PTL

-----------------------------------------------------------------------------
(* NoCommandLost                                                           *)

\* No command, or none but c, comes into phase st.
NoneJoins(st) == \A d \in Command : phase'[d] = st => phase[d] = st
OnlyJoins(c, st) == \A d \in Command : d # c /\ phase'[d] = st => phase[d] = st

WaitingKept == \A c \in Command : phase[c] = "waiting" => c \in Range(commandsWaiting)
RunningKept ==
  \A c \in Command : phase[c] = "running" => \E k \in Client : c \in Range(commands[k])
QueuedKept ==
  \A c \in Command : phase[c] \in {"posted", "finishing"} =>
    \E i \in DOMAIN strand : strand[i].op \in {"post", "done"} /\ strand[i].cmd = c

\* NoCommandLost, container by container.
LEMMA KeptParts == NoCommandLost <=> WaitingKept /\ RunningKept /\ QueuedKept
  BY DEF NoCommandLost, WaitingKept, RunningKept, QueuedKept

\* ... and in the next state.
LEMMA KeptNext == ASSUME WaitingKept', RunningKept', QueuedKept' PROVE NoCommandLost'
  BY DEF NoCommandLost, WaitingKept, RunningKept, QueuedKept

\* No command starts to wait and the queue stays.
LEMMA WaitingKeptSame ==
  ASSUME WaitingKept, NoneJoins("waiting"), commandsWaiting' = commandsWaiting
  PROVE  WaitingKept'
  BY DEF WaitingKept, NoneJoins

\* What a sequence has after an element is added at either end.
LEMMA RangeIncludes ==
  ASSUME NEW S, NEW s \in Seq(S), NEW c \in S
  PROVE  /\ c \in Range(Append(s, c)) /\ Range(s) \subseteq Range(Append(s, c))
         /\ c \in Range(<<c>> \o s) /\ Range(s) \subseteq Range(<<c>> \o s)
<1>1. Len(s) \in Nat /\ DOMAIN s = 1 .. Len(s)
  BY LenProperties
<1>2. /\ DOMAIN Append(s, c) = 1 .. Len(s) + 1
      /\ Append(s, c)[Len(s) + 1] = c
      /\ \A i \in 1 .. Len(s) : Append(s, c)[i] = s[i]
  BY AppendProperties, LenProperties
<1>3. c \in Range(Append(s, c)) /\ Range(s) \subseteq Range(Append(s, c))
  BY <1>1, <1>2 DEF Range
<1> DEFINE p == <<c>> \o s
<1>4. <<c>> \in Seq(S) /\ Len(<<c>>) = 1 /\ <<c>>[1] = c
  OBVIOUS
<1>5. /\ p \in Seq(S) /\ Len(p) = 1 + Len(s)
      /\ \A i \in 1 .. 1 + Len(s) : p[i] = IF i <= 1 THEN <<c>>[i] ELSE s[i - 1]
  BY <1>4, ConcatProperties
<1>6. DOMAIN p = 1 .. 1 + Len(s)
  BY <1>5, LenProperties
<1>7. p[1] = c /\ 1 \in DOMAIN p
  BY <1>1, <1>4, <1>5, <1>6
<1>8. ASSUME NEW i \in DOMAIN s
      PROVE  i + 1 \in DOMAIN p /\ p[i + 1] = s[i]
  BY <1>1, <1>5, <1>6
<1> HIDE DEF p
<1>9. c \in Range(p) /\ Range(s) \subseteq Range(p)
  BY <1>7, <1>8 DEF Range
<1>10. QED
  BY <1>3, <1>9 DEF p

\* One command starts to wait, and is put at an end of the queue.
LEMMA WaitingKeptPut ==
  ASSUME TypeOK, WaitingKept, NEW c \in Command, OnlyJoins(c, "waiting"),
         \/ commandsWaiting' = Append(commandsWaiting, c)
         \/ commandsWaiting' = <<c>> \o commandsWaiting
  PROVE  WaitingKept'
<1>1. commandsWaiting \in Seq(Command)
  BY DEF TypeOK
<1>2. c \in Range(commandsWaiting)' /\ Range(commandsWaiting) \subseteq Range(commandsWaiting)'
  BY <1>1, RangeIncludes
<1>3. QED
  BY <1>2 DEF WaitingKept, OnlyJoins

\* RemoveAt(s, i) has every other element of s.
LEMMA RemoveKeeps ==
  ASSUME NEW S, NEW s \in Seq(S), NEW i \in DOMAIN s, NEW j \in DOMAIN s, j # i
  PROVE  s[j] \in Range(RemoveAt(s, i))
<1>1. /\ i \in Nat /\ 1 <= i /\ i <= Len(s) /\ Len(s) \in Nat
      /\ j \in Nat /\ 1 <= j /\ j <= Len(s)
  BY LenProperties
<1> DEFINE a == SubSeq(s, 1, i - 1)
           b == SubSeq(s, i + 1, Len(s))
<1>2. a \in Seq(S) /\ Len(a) = i - 1 /\ \A m \in 1 .. i - 1 : a[m] = s[m]
  BY <1>1, SubSeqProperties
<1>3. b \in Seq(S) /\ Len(b) = Len(s) - i /\ \A m \in 1 .. Len(s) - i : b[m] = s[i + m]
  BY <1>1, SubSeqProperties
<1>4. RemoveAt(s, i) = a \o b
  BY DEF RemoveAt
<1> HIDE DEF a, b
<1>5. /\ a \o b \in Seq(S)
      /\ Len(a \o b) = Len(a) + Len(b)
      /\ \A m \in 1 .. Len(a) + Len(b) :
            (a \o b)[m] = IF m <= Len(a) THEN a[m] ELSE b[m - Len(a)]
  BY <1>2, <1>3, ConcatProperties
<1>6. DOMAIN (a \o b) = 1 .. Len(s) - 1 /\ Len(a) + Len(b) = Len(s) - 1
  <2>1. Len(a) + Len(b) = Len(s) - 1
    BY <1>1, <1>2, <1>3
  <2>2. QED
    BY <1>5, <2>1, LenProperties
<1>7. \E m \in DOMAIN (a \o b) : (a \o b)[m] = s[j]
  <2>1. CASE j < i
    <3>1. j \in 1 .. i - 1 /\ j \in 1 .. Len(s) - 1
      BY <1>1, <2>1
    <3>2. (a \o b)[j] = a[j]
      BY <1>1, <1>2, <1>5, <1>6, <3>1
    <3>3. QED
      BY <1>2, <1>6, <3>1, <3>2
  <2>2. CASE i < j
    <3>1. /\ j - 1 \in 1 .. Len(s) - 1 /\ ~ (j - 1 <= i - 1)
          /\ (j - 1) - (i - 1) \in 1 .. Len(s) - i /\ i + ((j - 1) - (i - 1)) = j
      <4> DEFINE l == Len(s)
      <4>1. l \in Nat /\ j <= l /\ i \in Nat /\ j \in Nat /\ 1 <= i /\ i < j
        BY <1>1, <2>2
      <4> HIDE DEF l
      <4>2. j - 1 \in 1 .. l - 1 /\ ~ (j - 1 <= i - 1)
        BY <4>1
      <4>3. (j - 1) - (i - 1) = j - i /\ j - i \in 1 .. l - i /\ i + (j - i) = j
        BY <4>1
      <4>4. QED
        BY <4>2, <4>3 DEF l
    <3>2. (a \o b)[j - 1] = b[(j - 1) - (i - 1)]
      <4>1. j - 1 \in 1 .. Len(a) + Len(b) /\ Len(a) = i - 1
        BY <1>2, <1>6, <3>1
      <4>2. QED
        BY <1>5, <3>1, <4>1
    <3>3. b[(j - 1) - (i - 1)] = s[j]
      BY <1>3, <3>1
    <3>4. QED
      BY <1>6, <3>1, <3>2, <3>3
  <2>3. QED
    BY <1>1, <2>1, <2>2
<1>8. QED
  BY <1>4, <1>7 DEF Range

\* The command that is erased from the queue no longer waits.
LEMMA WaitingKeptErase ==
  ASSUME TypeOK, WaitingKept, scan \in DOMAIN commandsWaiting, EraseWaiting,
         NoneJoins("waiting"), phase'[commandsWaiting[scan]] # "waiting"
  PROVE  WaitingKept'
<1>1. commandsWaiting \in Seq(Command)
  BY DEF TypeOK
<1>2. ASSUME NEW d \in Command, phase'[d] = "waiting"
      PROVE  d \in Range(RemoveAt(commandsWaiting, scan))
  <2>1. PICK j \in DOMAIN commandsWaiting : commandsWaiting[j] = d
    BY <1>2 DEF WaitingKept, NoneJoins, Range
  <2>2. j # scan
    BY <1>2, <2>1
  <2>3. QED
    BY <1>1, <2>1, <2>2, RemoveKeeps
<1>3. QED
  BY <1>2 DEF WaitingKept, EraseWaiting

\* No command starts to run and the clients keep theirs.
LEMMA RunningKeptSame ==
  ASSUME RunningKept, NoneJoins("running"), commands' = commands
  PROVE  RunningKept'
  BY DEF RunningKept, NoneJoins

\* The command that a client pops no longer runs.
LEMMA RunningKeptPop ==
  ASSUME TypeOK, RunningKept, NEW k \in Client, commands[k] # <<>>,
         NoneJoins("running"), phase'[Head(commands[k])] # "running",
         commands' = [commands EXCEPT ![k] = Tail(@)]
  PROVE  RunningKept'
<1>1. \A o \in Client : commands'[o] = IF o = k THEN Tail(commands[k]) ELSE commands[o]
  BY DEF TypeOK
<1>2. commands[k] \in Seq(Command) /\ Len(commands[k]) \in Nat \ {0} /\ DOMAIN commands[k] = 1 .. Len(commands[k])
  BY EmptySeq, LenProperties DEF TypeOK
<1>3. /\ DOMAIN Tail(commands[k]) = 1 .. Len(commands[k]) - 1
      /\ \A i \in 1 .. Len(commands[k]) - 1 : Tail(commands[k])[i] = commands[k][i + 1]
  BY <1>2, HeadTailProperties, LenProperties
<1>4. Head(commands[k]) = commands[k][1]
  BY <1>2
<1>5. ASSUME NEW j \in DOMAIN commands[k], commands[k][j] # Head(commands[k])
      PROVE  commands[k][j] \in Range(Tail(commands[k]))
  <2>1. j - 1 \in 1 .. Len(commands[k]) - 1 /\ (j - 1) + 1 = j
    BY <1>2, <1>4, <1>5
  <2>2. Tail(commands[k])[j - 1] = commands[k][j]
    BY <1>3, <2>1
  <2>3. QED
    BY <1>3, <2>1, <2>2 DEF Range
<1>6. ASSUME NEW d \in Command, phase'[d] = "running"
      PROVE  \E o \in Client : d \in Range(commands'[o])
  <2>1. PICK o \in Client : \E j \in DOMAIN commands[o] : commands[o][j] = d
    BY <1>6 DEF RunningKept, NoneJoins, Range
  <2>2. CASE o = k
    BY <1>1, <1>5, <1>6, <2>1, <2>2
  <2>3. CASE o # k
    BY <1>1, <2>1, <2>3 DEF Range
  <2>4. QED
    BY <2>2, <2>3
<1>7. QED
  BY <1>6 DEF RunningKept

\* The command that starts to run is pushed to a client.
LEMMA RunningKeptPush ==
  ASSUME TypeOK, RunningKept, NEW k \in Client, NEW c \in Command, OnlyJoins(c, "running"),
         commands' = [commands EXCEPT ![k] = Append(@, c)]
  PROVE  RunningKept'
<1>1. commands[k] \in Seq(Command)
  BY DEF TypeOK
<1>2. c \in Range(Append(commands[k], c)) /\ Range(commands[k]) \subseteq Range(Append(commands[k], c))
  BY <1>1, RangeIncludes
<1>3. \A o \in Client : commands'[o] = IF o = k THEN Append(commands[k], c) ELSE commands[o]
  BY DEF TypeOK
<1>4. QED
  BY <1>2, <1>3 DEF RunningKept, OnlyJoins

\* The logins that start to run are pushed to their new clients.
LEMMA RunningKeptStart ==
  ASSUME RunningKept, NEW N \in SUBSET Client, \A n \in N : commands[n] = <<>>,
         \A d \in Command : phase'[d] = "running" => d \in N \/ phase[d] = "running",
         commands' = [k \in Client |-> IF k \in N THEN <<k>> ELSE commands[k]]
  PROVE  RunningKept'
<1>1. \A k \in Client : Range(<<k>>) = {k}
  BY DEF Range
<1>2. Range(<<>>) = {}
  BY DEF Range
<1>3. ASSUME NEW d \in Command, phase'[d] = "running"
      PROVE  \E k \in Client : d \in Range(commands'[k])
  <2>1. CASE d \in N
    BY <1>1, <2>1
  <2>2. CASE d \notin N
    <3>1. PICK k \in Client : d \in Range(commands[k])
      BY <1>3, <2>2 DEF RunningKept
    <3>2. k \notin N
      BY <1>2, <3>1
    <3>3. QED
      BY <3>1, <3>2
  <2>3. QED
    BY <2>1, <2>2
<1>4. QED
  BY <1>3 DEF RunningKept

\* No command is posted or finishing that was not, and the strand stays.
LEMMA QueuedKeptSame ==
  ASSUME QueuedKept, NoneJoins("posted"), NoneJoins("finishing"), strand' = strand
  PROVE  QueuedKept'
  BY DEF QueuedKept, NoneJoins

\* The command that is posted or finishing is in the closure appended.
LEMMA QueuedKeptAppend ==
  ASSUME TypeOK, QueuedKept, NEW cl \in Closure, strand' = Append(strand, cl),
         \A d \in Command : phase'[d] \in {"posted", "finishing"} =>
           \/ phase[d] \in {"posted", "finishing"}
           \/ cl.op \in {"post", "done"} /\ cl.cmd = d
  PROVE  QueuedKept'
<1>1. strand \in Seq(Closure) /\ Len(strand) \in Nat /\ DOMAIN strand = 1 .. Len(strand)
  BY LenProperties DEF TypeOK
<1>2. /\ DOMAIN strand' = 1 .. Len(strand) + 1
      /\ strand'[Len(strand) + 1] = cl
      /\ \A i \in 1 .. Len(strand) : strand'[i] = strand[i]
  BY <1>1, AppendProperties, LenProperties
<1>3. QED
  BY <1>1, <1>2 DEF QueuedKept

\* The closure that ran was not about a command, or that command moved on.
LEMMA QueuedKeptTail ==
  ASSUME TypeOK, QueuedKept, strand # <<>>, strand' = Tail(strand),
         NoneJoins("posted"), NoneJoins("finishing"),
         \/ Head(strand).op \notin {"post", "done"}
         \/ phase'[Head(strand).cmd] \notin {"posted", "finishing"}
  PROVE  QueuedKept'
<1>1. strand \in Seq(Closure) /\ Len(strand) \in Nat \ {0} /\ DOMAIN strand = 1 .. Len(strand)
  BY EmptySeq, LenProperties DEF TypeOK
<1>2. /\ DOMAIN strand' = 1 .. Len(strand) - 1
      /\ \A i \in 1 .. Len(strand) - 1 : strand'[i] = strand[i + 1]
  BY <1>1, HeadTailProperties, LenProperties
<1>3. Head(strand) = strand[1]
  BY <1>1
<1>4. ASSUME NEW d \in Command, phase'[d] \in {"posted", "finishing"}
      PROVE  \E i \in DOMAIN strand' : strand'[i].op \in {"post", "done"} /\ strand'[i].cmd = d
  <2>1. PICK j \in DOMAIN strand : strand[j].op \in {"post", "done"} /\ strand[j].cmd = d
    BY <1>4 DEF QueuedKept, NoneJoins
  <2>2. j # 1
    BY <1>3, <1>4, <2>1
  <2>3. j - 1 \in 1 .. Len(strand) - 1 /\ (j - 1) + 1 = j
    BY <1>1, <2>2
  <2>4. strand'[j - 1] = strand[j]
    BY <1>2, <2>3
  <2>5. QED
    BY <1>2, <2>1, <2>3, <2>4
<1>5. QED
  BY <1>4 DEF QueuedKept

\* The calls from other threads lose no command.
LEMMA KeptApi ==
  ASSUME TypeInv, NoCommandLost, ApiStep
  PROVE  NoCommandLost'
<1> USE DEF TypeInv, clientVars, commandVars
<1>1. ASSUME NEW a \in Article, GetArticleStream(a) PROVE NoCommandLost'
  <2> DEFINE cl == [op |-> "post", cmd |-> a]
  <2>1. /\ strand' = Append(strand, cl) /\ cl \in Closure /\ cl.op = "post" /\ cl.cmd = a
        /\ phase' = [phase EXCEPT ![a] = "posted"]
        /\ commands' = commands /\ commandsWaiting' = commandsWaiting
    BY <1>1, Closures DEF GetArticleStream, Post
  <2> HIDE DEF cl
  <2>2. /\ NoneJoins("waiting") /\ NoneJoins("running")
        /\ \A d \in Command : phase'[d] \in {"posted", "finishing"} =>
             d = a \/ phase[d] \in {"posted", "finishing"}
    BY <2>1 DEF NoneJoins, TypeOK
  <2>3. QueuedKept'
    BY <2>1, <2>2, KeptParts, KeptNext, QueuedKeptAppend
  <2>4. QED
    BY <2>1, <2>2, <2>3, KeptParts, KeptNext, WaitingKeptSame, RunningKeptSame
<1>2. ASSUME \/ \E s \in Server : AddServer(s)
             \/ \E s \in Removable : RemoveServer(s)
             \/ Stop \/ HeartBeat
      PROVE  NoCommandLost'
  <2>1. /\ phase' = phase /\ commands' = commands /\ commandsWaiting' = commandsWaiting
        /\ \E cl \in Closure : strand' = Append(strand, cl)
    BY <1>2, Closures DEF AddServer, RemoveServer, Stop, HeartBeat, Post
  <2>2. QueuedKept'
    BY <2>1, KeptParts, KeptNext, QueuedKeptAppend
  <2>3. QED
    BY <2>1, <2>2, KeptParts, KeptNext, WaitingKeptSame, RunningKeptSame DEF NoneJoins
<1>3. ASSUME NEW a \in Cancelable, Cancel(a) PROVE NoCommandLost'
  BY <1>3 DEF Cancel, NoCommandLost
<1>4. QED
  BY <1>1, <1>2, <1>3 DEF ApiStep

\* ClientDone puts its command in the queue or releases it.
LEMMA KeptClientDone ==
  ASSUME TypeOK, WaitingKept, NEW k, NEW c \in Command, NEW code, ClientDone(k, c, code)
  PROVE  /\ WaitingKept'
         /\ phase'[c] \notin {"running", "posted", "finishing"}
         /\ NoneJoins("running") /\ NoneJoins("posted") /\ NoneJoins("finishing")
<1>1. Requeue(c) \/ Release(c)
  BY DEF ClientDone
<1>2. \E p \in {"waiting", "released"} : phase' = [phase EXCEPT ![c] = p]
  BY <1>1 DEF Requeue, Release
<1>3. /\ phase'[c] \notin {"running", "posted", "finishing"}
      /\ NoneJoins("running") /\ NoneJoins("posted") /\ NoneJoins("finishing")
      /\ OnlyJoins(c, "waiting")
  BY <1>2 DEF NoneJoins, OnlyJoins, TypeOK
<1>4. CASE Requeue(c)
  BY <1>3, <1>4, WaitingKeptPut DEF Requeue
<1>5. CASE Release(c)
  <2>1. NoneJoins("waiting") /\ commandsWaiting' = commandsWaiting
    BY <1>5 DEF Release, NoneJoins, TypeOK
  <2>2. QED
    BY <1>3, <2>1, WaitingKeptSame
<1>6. QED
  BY <1>1, <1>3, <1>4, <1>5

\* StartClient replaces no client that still has commands.
LEMMA KeptStartClients ==
  ASSUME TypeOK, LiveInv, Up, NoCommandLost, NEW s, NEW N \in SUBSET Client, StartClients(s, N),
         \A n \in N : ~ Alive(n), commandsWaiting' = commandsWaiting,
         \/ strand' = strand
         \/ strand # <<>> /\ strand' = Tail(strand) /\ Head(strand).op \notin {"post", "done"}
  PROVE  NoCommandLost'
<1>1. \A n \in N : commands[n] = <<>>
  BY DEF LiveInv, HandlesOK, Alive
<1>2. \A d \in Command : phase'[d] = IF d \in N THEN "running" ELSE phase[d]
  BY DEF StartClients
<1>3. commands' = [k \in Client |-> IF k \in N THEN <<k>> ELSE commands[k]]
  BY DEF StartClients
<1>4. NoneJoins("waiting") /\ NoneJoins("posted") /\ NoneJoins("finishing")
  BY <1>2 DEF NoneJoins
<1>5. RunningKept'
  BY <1>1, <1>2, <1>3, KeptParts, KeptNext, RunningKeptStart
<1>6. QED
  BY <1>4, <1>5, KeptParts, KeptNext, WaitingKeptSame, QueuedKeptSame, QueuedKeptTail

\* The closures of the strand lose no command.
LEMMA KeptClosure ==
  ASSUME TypeInv, LiveInv, NoCommandLost, ClosureStep
  PROVE  NoCommandLost'
<1> USE DEF TypeInv, clientVars, commandVars
<1>0. ASSUME NEW cl, Run(cl)
      PROVE  strand # <<>> /\ strand' = Tail(strand) /\ Head(strand) = cl /\ Up
  BY <1>0 DEF Run, IoIdle, ClosureOver
<1>1. ASSUME NEW s \in Server, RunAddServer(s) PROVE NoCommandLost'
  <2> DEFINE N == UNION {NewClient(s, i) : i \in 0 .. Threads[s] - 1}
  <2>1. N \in SUBSET Client /\ \A n \in N : ~ Alive(n)
    BY NewClientFacts
  <2>2. StartClients(s, N) /\ commandsWaiting' = commandsWaiting
    BY <1>1 DEF RunAddServer
  <2>3. strand # <<>> /\ strand' = Tail(strand) /\ Head(strand).op \notin {"post", "done"} /\ Up
    BY <1>0, <1>1 DEF RunAddServer
  <2> HIDE DEF N
  <2>4. QED
    BY <2>1, <2>2, <2>3, KeptStartClients
<1>2. ASSUME NEW a \in Article, RunPostCommand(a) PROVE NoCommandLost'
  <2>1. /\ strand # <<>> /\ strand' = Tail(strand) /\ Head(strand).cmd = a
        /\ phase' = [phase EXCEPT ![a] = "waiting"]
        /\ commandsWaiting' = Append(commandsWaiting, a) /\ commands' = commands
    BY <1>0, <1>2 DEF RunPostCommand
  <2>2. a \in Command
    BY DEF Command
  <2>3. /\ phase'[a] = "waiting" /\ OnlyJoins(a, "waiting") /\ NoneJoins("running")
        /\ NoneJoins("posted") /\ NoneJoins("finishing")
    BY <2>1, <2>2 DEF NoneJoins, OnlyJoins, TypeOK
  <2>4. WaitingKept'
    BY <2>1, <2>2, <2>3, KeptParts, KeptNext, WaitingKeptPut
  <2>5. QueuedKept'
    BY <2>1, <2>3, KeptParts, KeptNext, QueuedKeptTail
  <2>6. QED
    BY <2>1, <2>3, <2>4, <2>5, KeptParts, KeptNext, RunningKeptSame
<1>3. ASSUME NEW k \in Client, NEW c \in Command, NEW code \in DoneCode, RunClientDone(k, c, code)
      PROVE NoCommandLost'
  <2>1. /\ strand # <<>> /\ strand' = Tail(strand) /\ Head(strand).cmd = c
        /\ commands' = commands /\ ClientDone(k, c, code)
    BY <1>0, <1>3 DEF RunClientDone
  <2>2. /\ WaitingKept' /\ phase'[c] \notin {"posted", "finishing"}
        /\ NoneJoins("running") /\ NoneJoins("posted") /\ NoneJoins("finishing")
    BY <2>1, KeptParts, KeptNext, KeptClientDone
  <2>3. QED
    BY <2>1, <2>2, KeptParts, KeptNext, RunningKeptSame, QueuedKeptTail
<1>4. ASSUME RunStop PROVE NoCommandLost'
  <2>1. /\ strand # <<>> /\ strand' = Tail(strand) /\ Head(strand).op \notin {"post", "done"}
        /\ commandsWaiting' = <<>> /\ commands' = commands
    BY <1>0, <1>4 DEF RunStop
  <2>2. \A c \in Command : phase'[c] = IF c \in Range(commandsWaiting) THEN "released" ELSE phase[c]
    BY <1>4 DEF RunStop
  <2>3. NoneJoins("running") /\ NoneJoins("posted") /\ NoneJoins("finishing")
    BY <2>2 DEF NoneJoins
  <2>4. WaitingKept'
    BY <2>2, KeptParts, KeptNext DEF WaitingKept
  <2>5. QED
    BY <2>1, <2>3, <2>4, KeptParts, KeptNext, RunningKeptSame, QueuedKeptTail
<1>5. ASSUME (\E s \in Removable : RunRemoveServer(s)) \/ RunEvent
      PROVE  NoCommandLost'
  <2>1. /\ strand # <<>> /\ strand' = Tail(strand) /\ Head(strand).op \notin {"post", "done"}
        /\ phase' = phase /\ commands' = commands /\ commandsWaiting' = commandsWaiting
    <3>1. CASE \E s \in Removable : RunRemoveServer(s)
      <4> PICK s \in Removable : RunRemoveServer(s)
        BY <3>1
      <4>1. Run([op |-> "remove", srv |-> s])
        BY DEF RunRemoveServer
      <4>2. UNCHANGED commandVars /\ commands' = commands
        BY DEF RunRemoveServer
      <4>3. QED
        BY <1>0, <4>1, <4>2
    <3>2. CASE RunEvent
      BY <1>0, <3>2 DEF RunEvent
    <3>3. QED
      BY <1>5, <3>1, <3>2
  <2>2. QED
    BY <2>1, KeptParts, KeptNext, WaitingKeptSame, RunningKeptSame, QueuedKeptTail DEF NoneJoins
<1>6. QED
  BY <1>1, <1>2, <1>3, <1>4, <1>5 DEF ClosureStep

\* OnDone hands the command it pops to ClientDone or to the strand.
LEMMA KeptCommandDone ==
  ASSUME TypeInv, NoCommandLost, CommandDone
  PROVE  NoCommandLost'
<1> DEFINE k == unwind[1].cli
           c == Head(commands[k])
           code == unwind[1].code
           cl == [op |-> "done", cli |-> k, cmd |-> c, code |-> code]
<1>1. unwind # <<>> /\ commands' = [commands EXCEPT ![k] = Tail(@)]
  BY DEF CommandDone
<1>2. k \in Client /\ c \in Command /\ code \in DoneCode /\ commands[k] # <<>> /\ TypeOK
  BY <1>1, UnwindHead DEF TypeInv
<1>3. CASE strand = <<>>
  <2>1. strand' = strand /\ ClientDone(k, c, code)
    BY <1>3 DEF CommandDone
  <2> HIDE DEF k, c, code
  <2>2. /\ WaitingKept' /\ phase'[c] # "running"
        /\ NoneJoins("running") /\ NoneJoins("posted") /\ NoneJoins("finishing")
    BY <1>2, <2>1, KeptParts, KeptNext, KeptClientDone
  <2>3. RunningKept'
    BY <1>1, <1>2, <2>2, KeptParts, KeptNext, RunningKeptPop DEF c
  <2>4. QED
    BY <2>1, <2>2, <2>3, KeptParts, KeptNext, QueuedKeptSame
<1>4. CASE strand # <<>>
  <2>1. /\ strand' = Append(strand, cl) /\ commandsWaiting' = commandsWaiting
        /\ phase' = [phase EXCEPT ![c] = "finishing"]
    BY <1>4 DEF CommandDone, Post
  <2>2. cl \in Closure /\ cl.op = "done" /\ cl.cmd = c
    BY <1>2, Closures
  <2> HIDE DEF cl, k, c, code
  <2>3. /\ phase'[c] = "finishing" /\ NoneJoins("running") /\ NoneJoins("waiting")
        /\ \A d \in Command : phase'[d] \in {"posted", "finishing"} =>
             d = c \/ phase[d] \in {"posted", "finishing"}
    BY <1>2, <2>1 DEF NoneJoins, TypeOK
  <2>4. RunningKept'
    BY <1>1, <1>2, <2>3, KeptParts, KeptNext, RunningKeptPop DEF c
  <2>5. QueuedKept'
    BY <1>2, <2>1, <2>2, <2>3, KeptParts, KeptNext, QueuedKeptAppend
  <2>6. QED
    BY <2>1, <2>3, <2>4, <2>5, KeptParts, KeptNext, WaitingKeptSame
<1>5. QED
  BY <1>3, <1>4

\* Disconnect and the ClientStopped handlers lose no command.
LEMMA KeptHandler ==
  ASSUME TypeInv, LiveInv, NoCommandLost, HandlerStep
  PROVE  NoCommandLost'
<1> USE DEF TypeInv, clientVars, commandVars
<1>1. ASSUME NEW k \in Client, OnStoppedRestart(k) PROVE NoCommandLost'
  <2> DEFINE N == NewClient(k.srv, k.id)
  <2>1. N \in SUBSET Client /\ \A n \in N : ~ Alive(n)
    BY NewClientFacts, ClientFacts
  <2>2. StartClients(k.srv, N) /\ commandsWaiting' = commandsWaiting /\ strand' = strand /\ Up
    BY <1>1 DEF OnStoppedRestart
  <2> HIDE DEF N
  <2>3. QED
    BY <2>1, <2>2, KeptStartClients
<1>2. ASSUME NEW k \in Client, Disconnect(k) \/ OnStoppedErase(k) \/ OnStoppedPromise(k)
      PROVE  NoCommandLost'
  <2>1. UNCHANGED <<strand, phase, commands, commandsWaiting>>
    BY <1>2 DEF Disconnect, OnStoppedErase, OnStoppedPromise
  <2>2. QED
    BY <2>1, KeptParts, KeptNext, WaitingKeptSame, RunningKeptSame, QueuedKeptSame DEF NoneJoins
<1>3. QED
  BY <1>1, <1>2, KeptCommandDone DEF HandlerStep

\* DispatchCommands loses no command.
LEMMA KeptDispatch ==
  ASSUME TypeInv, NoCommandLost, DispatchStep
  PROVE  NoCommandLost'
<1> USE DEF TypeInv, clientVars, commandVars
<1>1. ASSUME NEW c \in Command, DispatchCanceled(c) \/ DispatchFailed(c) PROVE NoCommandLost'
  <2>1. /\ At(c) /\ EraseWaiting /\ phase' = [phase EXCEPT ![c] = "released"]
        /\ strand' = strand /\ commands' = commands
    BY <1>1 DEF DispatchCanceled, DispatchFailed, Wanted
  <2>2. /\ phase'[c] # "waiting"
        /\ NoneJoins("waiting") /\ NoneJoins("running") /\ NoneJoins("posted") /\ NoneJoins("finishing")
    BY <2>1 DEF NoneJoins, TypeOK
  <2>3. WaitingKept'
    BY <2>1, <2>2, KeptParts, KeptNext, WaitingKeptErase DEF At
  <2>4. QED
    BY <2>1, <2>2, <2>3, KeptParts, KeptNext, RunningKeptSame, QueuedKeptSame
<1>2. ASSUME NEW c \in Command, NEW k \in Client, DispatchRun(c, k) PROVE NoCommandLost'
  <2>1. /\ At(c) /\ EraseWaiting /\ phase' = [phase EXCEPT ![c] = "running"]
        /\ strand' = strand /\ commands' = [commands EXCEPT ![k] = Append(@, c)]
    BY <1>2 DEF DispatchRun, Wanted
  <2>2. /\ phase'[c] # "waiting" /\ OnlyJoins(c, "running")
        /\ NoneJoins("waiting") /\ NoneJoins("posted") /\ NoneJoins("finishing")
    BY <2>1 DEF NoneJoins, OnlyJoins, TypeOK
  <2>3. WaitingKept'
    BY <2>1, <2>2, KeptParts, KeptNext, WaitingKeptErase DEF At
  <2>4. RunningKept'
    BY <2>1, <2>2, KeptParts, KeptNext, RunningKeptPush
  <2>5. QED
    BY <2>1, <2>2, <2>3, <2>4, KeptParts, KeptNext, QueuedKeptSame
<1>3. ASSUME DispatchBegin \/ DispatchEnd \/ \E c \in Command : DispatchSkip(c)
      PROVE  NoCommandLost'
  <2>1. /\ UNCHANGED <<phase, commands, commandsWaiting>>
        /\ strand' = strand \/ \E cl \in Closure : strand' = Append(strand, cl)
    BY <1>3, Closures DEF DispatchBegin, DispatchEnd, DispatchSkip, Post
  <2>2. QueuedKept'
    BY <2>1, KeptParts, KeptNext, QueuedKeptSame, QueuedKeptAppend DEF NoneJoins
  <2>3. QED
    BY <2>1, <2>2, KeptParts, KeptNext, WaitingKeptSame, RunningKeptSame DEF NoneJoins
<1>4. QED
  BY <1>1, <1>2, <1>3 DEF DispatchStep

\* No command is lost: until it is released, a posted command is in the strand,
\* in m_commandsWaiting or in MyClient::commands (PostCommand, ClientDone,
\* DispatchCommands), so its handler can still be called.
THEOREM NoCommandLostAlways == Spec => []NoCommandLost
<1>1. Init => NoCommandLost
  BY DEF Init, NoCommandLost
<1>2. TypeInv /\ LiveInv /\ NoCommandLost /\ [Next]_vars => NoCommandLost'
  <2> SUFFICES ASSUME TypeInv, LiveInv, NoCommandLost, [Next]_vars PROVE NoCommandLost'
    OBVIOUS
  <2>1. CASE NetworkStep \/ UNCHANGED vars
    <3>1. UNCHANGED <<strand, phase, commands, commandsWaiting>>
      BY <2>1 DEF NetworkStep, Finish, CloseTimeout, Drain, vars, clientVars, commandVars
    <3>2. QED
      BY <3>1, KeptParts, KeptNext, WaitingKeptSame, RunningKeptSame, QueuedKeptSame DEF NoneJoins
  <2>2. QED
    BY <2>1, KeptApi, KeptClosure, KeptHandler, KeptDispatch DEF Next
<1>3. QED
  BY <1>1, <1>2, TypeInvariant, LiveAlways, PTL DEF Spec


-----------------------------------------------------------------------------
(* Where an article is.                                                    *)

\* An article that no client has and no completion is about is at no server.
LEMMA AtNone ==
  ASSUME TypeOK, OneOwner, NEW a \in Article, phase[a] \notin {"running", "finishing"}
  PROVE  ServersAt(a) = {}
<1>1. \A k \in Client : a \notin Range(commands[k])
  BY DEF OneOwner, RunningOnce, Range
<1>2. \A i \in DOMAIN strand : ~ (strand[i].op = "done" /\ strand[i].cmd = a)
  BY DEF OneOwner, QueuedOnce
<1>3. QED
  BY <1>1, <1>2 DEF ServersAt

\* The article of a client is at the client's server.
LEMMA AtClient ==
  ASSUME TypeOK, OneOwner, NEW a \in Article, NEW k \in Client, a \in Range(commands[k])
  PROVE  ServersAt(a) = {k.srv} /\ phase[a] = "running"
<1>1. PICK i \in DOMAIN commands[k] : commands[k][i] = a
  BY DEF Range
<1>2. phase[a] = "running"
  BY <1>1 DEF OneOwner, RunningOnce
<1>3. \A o \in Client : a \in Range(commands[o]) => o = k
  BY <1>1 DEF OneOwner, RunningOnce, Range
<1>4. \A j \in DOMAIN strand : ~ (strand[j].op = "done" /\ strand[j].cmd = a)
  BY <1>2 DEF OneOwner, QueuedOnce
<1>5. QED
  BY <1>2, <1>3, <1>4 DEF ServersAt

\* An article whose completion is queued is at the server of that client.
LEMMA AtClosure ==
  ASSUME TypeOK, OneOwner, NEW a \in Article, NEW i \in DOMAIN strand,
         strand[i].op = "done", strand[i].cmd = a
  PROVE  ServersAt(a) = {strand[i].cli.srv} /\ phase[a] = "finishing"
<1>1. phase[a] = "finishing"
  BY DEF OneOwner, QueuedOnce
<1>2. \A k \in Client : a \notin Range(commands[k])
  BY <1>1 DEF OneOwner, RunningOnce, Range
<1>3. \A j \in DOMAIN strand : strand[j].op = "done" /\ strand[j].cmd = a => j = i
  BY DEF OneOwner, QueuedOnce
<1>4. QED
  BY <1>1, <1>2, <1>3 DEF ServersAt

\* Each article is in one place, which says at which server it is.
Located ==
  \A a \in Article :
    /\ phase[a] \notin {"running", "finishing"} => ServersAt(a) = {}
    /\ \A k \in Client : a \in Range(commands[k]) =>
         ServersAt(a) = {k.srv} /\ phase[a] = "running"
    /\ \A i \in DOMAIN strand : strand[i].op = "done" /\ strand[i].cmd = a =>
         ServersAt(a) = {strand[i].cli.srv} /\ phase[a] = "finishing"

LEMMA LocatedByOwner == TypeOK /\ OneOwner => Located
  BY AtNone, AtClient, AtClosure DEF Located

\* What is known before and after every step.
ServiceInv == TypeInv /\ OneOwner /\ LiveInv /\ NoCommandLost /\ Located

LEMMA ServiceAlways == Spec => []ServiceInv
  BY TypeInvariant, OneOwnerAlways, LiveAlways, NoCommandLostAlways, LocatedByOwner, PTL
     DEF ServiceInv, TypeInv

-----------------------------------------------------------------------------
(* Steps of one article.                                                   *)

Moves(a) ==
  \/ Service!Idle(a) \/ Service!Post(a) \/ Service!Return(a) \/ Service!Finish(a)
  \/ Service!GiveUp(a) \/ \E s \in Server : Service!Send(a, s)

\* A client that has article a keeps it, and so does the closure of a
\* completion.
KeepsClient(a) == \A k \in Client : a \in Range(commands[k]) => a \in Range(commands'[k])
KeepsClosure(a) ==
  \A i \in DOMAIN strand : strand[i].op = "done" /\ strand[i].cmd = a =>
    \E j \in DOMAIN strand' : strand'[j] = strand[i]

\* An article stays where it is.
LEMMA MovesNot ==
  ASSUME ServiceInv, ServiceInv', NEW a \in Article,
         phase'[a] = phase[a], failed'[a] = failed[a],
         phase[a] = "running" => KeepsClient(a),
         phase[a] = "finishing" => KeepsClosure(a)
  PROVE  Service!Idle(a)
<1>0. OneOwner /\ NoCommandLost /\ Located /\ Located'
  BY DEF ServiceInv
<1>1. ServiceState(a)' = ServiceState(a)
  BY DEF ServiceState
<1>2. ServersAt(a)' = ServersAt(a)
  <2>1. CASE phase[a] = "running"
    <3>1. PICK k \in Client : a \in Range(commands[k])
      BY <1>0, <2>1 DEF NoCommandLost, Command
    <3>2. a \in Range(commands'[k])
      BY <2>1, <3>1 DEF KeepsClient
    <3>3. QED
      BY <1>0, <3>1, <3>2 DEF Located
  <2>2. CASE phase[a] = "finishing"
    <3>1. PICK i \in DOMAIN strand : strand[i].op \in {"post", "done"} /\ strand[i].cmd = a
      BY <1>0, <2>2 DEF NoCommandLost, Command
    <3>2. strand[i].op = "done"
      BY <1>0, <2>2, <3>1 DEF OneOwner, QueuedOnce
    <3>3. PICK j \in DOMAIN strand' : strand'[j] = strand[i]
      BY <2>2, <3>1, <3>2 DEF KeepsClosure
    <3>4. ServersAt(a) = {strand[i].cli.srv}
      BY <1>0, <3>1, <3>2 DEF Located
    <3>5. strand'[j].op = "done" /\ strand'[j].cmd = a
      BY <3>1, <3>2, <3>3
    <3>6. ServersAt(a)' = {strand'[j].cli.srv}
      BY <1>0, <3>5 DEF Located
    <3>7. QED
      BY <3>3, <3>4, <3>6
  <2>3. CASE phase[a] \notin {"running", "finishing"}
    BY <1>0, <2>3 DEF Located
  <2>4. QED
    BY <2>1, <2>2, <2>3
<1>3. QED
  BY <1>1, <1>2 DEF Service!Idle

\* GetArticleStream.
LEMMA MovesPost ==
  ASSUME ServiceInv, ServiceInv', NEW a \in Article,
         phase[a] = "new", phase'[a] = "posted", failed'[a] = failed[a]
  PROVE  Service!Post(a)
<1>1. ServersAt(a) = {} /\ ServersAt(a)' = {}
  BY DEF ServiceInv, Located
<1>2. QED
  BY <1>1 DEF Service!Post, Service!Becomes, ServiceState

\* A client is given the article.
LEMMA MovesSend ==
  ASSUME ServiceInv, ServiceInv', NEW a \in Article, NEW k \in Client,
         phase[a] = "waiting", a \in Range(commands'[k]), failed'[a] = failed[a],
         a \notin canceled, k \in Candidates(a)
  PROVE  Service!Send(a, k.srv)
<1>1. phase'[a] = "running" /\ ServersAt(a)' = {k.srv}
  BY DEF ServiceInv, Located
<1>2. k.srv \in Tier(a)
  <2>1. PICK s \in Ready(a) : k \in connections[s]
    BY DEF Candidates
  <2>2. s \in Server /\ k.srv = s
    BY <2>1 DEF Ready, Tier, ServiceInv, LiveInv, ConnectionsOK, TypeInv, TypeOK
  <2>3. QED
    BY <2>1, <2>2 DEF Ready
<1>3. k.srv \in servers \ failed[a]
  BY <1>2 DEF Tier
<1>4. k.srv \in Backup => servers \ Backup \subseteq failed[a]
  BY <1>2, NCCAssumption DEF Tier, Primary, ServiceInv, TypeInv, TypeOK
<1>5. QED
  BY <1>1, <1>3, <1>4 DEF Service!Send, Service!Becomes, ServiceState

\* The command of the article ended and is put back.
LEMMA MovesReturn ==
  ASSUME ServiceInv, ServiceInv', NEW a \in Article,
         phase[a] \in {"running", "finishing"}, phase'[a] = "waiting",
         failed'[a] \in {failed[a], failed[a] \cup ServersAt(a)}
  PROVE  Service!Return(a)
<1>1. ServersAt(a)' = {}
  BY DEF ServiceInv, Located
<1>2. QED
  BY <1>1 DEF Service!Return, Service!Becomes, ServiceState

\* The command of the article ended and is released.
LEMMA MovesFinish ==
  ASSUME ServiceInv, ServiceInv', NEW a \in Article,
         phase[a] \in {"running", "finishing"}, phase'[a] = "released",
         failed'[a] = failed[a]
  PROVE  Service!Finish(a)
<1>1. ServersAt(a)' = {}
  BY DEF ServiceInv, Located
<1>2. QED
  BY <1>1 DEF Service!Finish, Service!Becomes, ServiceState

\* The article is given up.
LEMMA MovesGiveUp ==
  ASSUME ServiceInv, ServiceInv', NEW a \in Article,
         phase[a] = "waiting", phase'[a] = "released", failed'[a] = failed[a],
         servers \subseteq failed[a] \/ a \in canceled'
  PROVE  Service!GiveUp(a)
<1>1. ServersAt(a)' = {}
  BY DEF ServiceInv, Located
<1>2. QED
  BY <1>1 DEF Service!GiveUp, Service!Becomes, ServiceState

-----------------------------------------------------------------------------
(* Steps of NewsClientCache.                                               *)

ServiceStep ==
  /\ \A a \in Article : Moves(a)
  /\ canceled \cap Article \subseteq canceled' \cap Article

\* What the strand has after a closure is added to it or taken from it.
LEMMA ClosuresKept ==
  ASSUME TypeOK, NEW a \in Article,
         \/ strand' = strand
         \/ \E cl \in Closure : strand' = Append(strand, cl)
         \/ /\ strand # <<>> /\ strand' = Tail(strand)
            /\ Head(strand).op = "done" => Head(strand).cmd # a
  PROVE  KeepsClosure(a)
<1>0. strand \in Seq(Closure)
  BY DEF TypeOK
<1>1. Len(strand) \in Nat /\ DOMAIN strand = 1 .. Len(strand)
  BY <1>0, LenProperties
<1>2. CASE strand' = strand
  BY <1>2 DEF KeepsClosure
<1>3. CASE \E cl \in Closure : strand' = Append(strand, cl)
  <2>1. PICK cl \in Closure : strand' = Append(strand, cl)
    BY <1>3
  <2>2. \A i \in DOMAIN strand : i \in DOMAIN strand' /\ strand'[i] = strand[i]
    BY <1>0, <2>1, AppendProperties, LenProperties
  <2>3. QED
    BY <2>2 DEF KeepsClosure
<1>4. CASE /\ strand # <<>> /\ strand' = Tail(strand)
           /\ Head(strand).op = "done" => Head(strand).cmd # a
  <2>1. /\ DOMAIN strand' = 1 .. Len(strand) - 1
        /\ \A i \in 1 .. Len(strand) - 1 : strand'[i] = strand[i + 1]
    BY <1>0, <1>4, HeadTailProperties, LenProperties
  <2>2. ASSUME NEW i \in DOMAIN strand, strand[i].op = "done", strand[i].cmd = a
        PROVE  \E j \in DOMAIN strand' : strand'[j] = strand[i]
    <3>1. Head(strand) = strand[1]
      BY <1>0, <1>4, EmptySeq
    <3>2. i # 1
      BY <1>4, <2>2, <3>1
    <3>3. i - 1 \in 1 .. Len(strand) - 1 /\ (i - 1) + 1 = i
      BY <1>1, <3>2
    <3>4. QED
      BY <2>1, <3>3
  <2>3. QED
    BY <2>2 DEF KeepsClosure
<1>5. QED
  BY <1>2, <1>3, <1>4

\* Steps that move no article.
LEMMA StepNot ==
  ASSUME ServiceInv, ServiceInv', UNCHANGED <<phase, failed, commands>>, canceled \subseteq canceled',
         \/ strand' = strand
         \/ \E cl \in Closure : strand' = Append(strand, cl)
         \/ strand # <<>> /\ strand' = Tail(strand) /\ Head(strand).op # "done"
  PROVE  ServiceStep
<1> SUFFICES ASSUME NEW a \in Article PROVE Service!Idle(a)
  BY DEF ServiceStep, Moves
<1>1. KeepsClient(a)
  BY DEF KeepsClient
<1>2. KeepsClosure(a)
  BY ClosuresKept DEF ServiceInv, TypeInv
<1>3. QED
  BY <1>1, <1>2, MovesNot

\* The calls from other threads.
LEMMA StepApi ==
  ASSUME ServiceInv, ServiceInv', ApiStep
  PROVE  ServiceStep
<1> USE DEF clientVars, commandVars
<1>1. ASSUME NEW a \in Article, GetArticleStream(a) PROVE ServiceStep
  <2> DEFINE cl == [op |-> "post", cmd |-> a]
  <2>1. /\ strand' = Append(strand, cl) /\ cl \in Closure
        /\ phase' = [phase EXCEPT ![a] = "posted"] /\ phase[a] = "new"
        /\ commands' = commands /\ failed' = failed /\ canceled' = canceled
    BY <1>1, Closures DEF GetArticleStream, Post
  <2> HIDE DEF cl
  <2>2. a \in Command /\ TypeOK
    BY DEF Command, ServiceInv, TypeInv
  <2>3. phase'[a] = "posted" /\ \A b \in Article : b # a => phase'[b] = phase[b]
    BY <2>1, <2>2 DEF TypeOK, Command
  <2>4. Service!Post(a)
    BY <2>1, <2>3, MovesPost
  <2>5. ASSUME NEW b \in Article, b # a PROVE Service!Idle(b)
    <3>1. KeepsClient(b) /\ KeepsClosure(b)
      BY <2>1, <2>2, ClosuresKept DEF KeepsClient
    <3>2. QED
      BY <2>1, <2>3, <2>5, <3>1, MovesNot
  <2>6. QED
    BY <2>1, <2>4, <2>5 DEF ServiceStep, Moves
<1>2. ASSUME \/ \E s \in Server : AddServer(s)
             \/ \E s \in Removable : RemoveServer(s)
             \/ Stop \/ HeartBeat
      PROVE  ServiceStep
  <2>1. /\ UNCHANGED <<phase, failed, commands>> /\ canceled' = canceled
        /\ \E cl \in Closure : strand' = Append(strand, cl)
    BY <1>2, Closures DEF AddServer, RemoveServer, Stop, HeartBeat, Post
  <2>2. QED
    BY <2>1, StepNot
<1>3. ASSUME NEW a \in Cancelable, Cancel(a) PROVE ServiceStep
  <2>1. UNCHANGED <<phase, failed, commands, strand>> /\ canceled \subseteq canceled'
    BY <1>3 DEF Cancel
  <2>2. QED
    BY <2>1, StepNot
<1>4. QED
  BY <1>1, <1>2, <1>3 DEF ApiStep

\* StartClient makes logins and replaces no client that still has commands.
LEMMA StepStartClients ==
  ASSUME ServiceInv, ServiceInv', Up, NEW s, NEW N \in SUBSET Client, StartClients(s, N),
         \A n \in N : ~ Alive(n),
         \/ strand' = strand
         \/ strand # <<>> /\ strand' = Tail(strand) /\ Head(strand).op # "done"
  PROVE  ServiceStep
<1>1. \A n \in N : commands[n] = <<>>
  BY DEF ServiceInv, LiveInv, HandlesOK, Alive
<1>2. Range(<<>>) = {}
  BY DEF Range
<1>3. ASSUME NEW a \in Article PROVE Service!Idle(a)
  <2>1. a \in Command /\ a \notin N
    BY CommandsDiffer DEF Command
  <2>2. phase'[a] = phase[a] /\ failed'[a] = failed[a]
    BY <2>1 DEF StartClients
  <2>3. KeepsClient(a)
    BY <1>1, <1>2 DEF KeepsClient, StartClients
  <2>4. KeepsClosure(a)
    BY ClosuresKept DEF ServiceInv, TypeInv
  <2>5. QED
    BY <2>2, <2>3, <2>4, MovesNot
<1>4. canceled \cap Article \subseteq canceled'
  BY CommandsDiffer DEF StartClients
<1>5. QED
  BY <1>3, <1>4 DEF ServiceStep, Moves

\* ClientDone, for a command that client k had.
LEMMA StepClientDone ==
  ASSUME ServiceInv, ServiceInv', NEW k \in Client, NEW c \in Command, NEW code,
         ClientDone(k, c, code),
         c \in Article => phase[c] \in {"running", "finishing"} /\ ServersAt(c) = {k.srv},
         \A a \in Article : a # c => KeepsClient(a) /\ KeepsClosure(a)
  PROVE  ServiceStep
<1>1. /\ phase \in [Command -> {"new", "posted", "waiting", "running", "finishing", "released"}]
      /\ failed \in [Command -> SUBSET Server]
  BY DEF ServiceInv, TypeInv, TypeOK
<1>2. canceled' = canceled
  BY DEF ClientDone
<1>3. \/ /\ phase' = [phase EXCEPT ![c] = "waiting"]
         /\ failed' \in {failed, [failed EXCEPT ![c] = @ \cup {k.srv}]}
      \/ phase' = [phase EXCEPT ![c] = "released"] /\ failed' = failed
  BY DEF ClientDone, Requeue, Release, AddFailed
<1>4. ASSUME NEW a \in Article, a # c PROVE Service!Idle(a)
  <2>1. a \in Command
    BY DEF Command
  <2>2. phase'[a] = phase[a]
    BY <1>1, <1>3, <1>4, <2>1
  <2>3. failed'[a] = failed[a]
    BY <1>1, <1>3, <1>4, <2>1
  <2>4. QED
    BY <1>4, <2>2, <2>3, MovesNot
<1>5. ASSUME c \in Article PROVE Service!Return(c) \/ Service!Finish(c)
  <2>1. phase[c] \in {"running", "finishing"} /\ ServersAt(c) = {k.srv}
    BY <1>5
  <2>2. \/ phase'[c] = "waiting" /\ failed'[c] \in {failed[c], failed[c] \cup {k.srv}}
        \/ phase'[c] = "released" /\ failed'[c] = failed[c]
    BY <1>1, <1>3
  <2>3. CASE phase'[c] = "waiting" /\ failed'[c] \in {failed[c], failed[c] \cup {k.srv}}
    BY <1>5, <2>1, <2>3, MovesReturn
  <2>4. CASE phase'[c] = "released" /\ failed'[c] = failed[c]
    BY <1>5, <2>1, <2>4, MovesFinish
  <2>5. QED
    BY <2>2, <2>3, <2>4
<1>6. QED
  BY <1>2, <1>4, <1>5 DEF ServiceStep, Moves

\* What a client has after its first command is popped.
LEMMA PopKeeps ==
  ASSUME TypeOK, NEW k \in Client, commands[k] # <<>>,
         commands' = [commands EXCEPT ![k] = Tail(@)],
         NEW a, a # Head(commands[k])
  PROVE  KeepsClient(a)
<1>1. \A o \in Client : commands'[o] = IF o = k THEN Tail(commands[k]) ELSE commands[o]
  BY DEF TypeOK
<1>2. /\ commands[k] \in Seq(Command) /\ Len(commands[k]) \in Nat \ {0}
      /\ DOMAIN commands[k] = 1 .. Len(commands[k])
  BY EmptySeq, LenProperties DEF TypeOK
<1>3. /\ DOMAIN Tail(commands[k]) = 1 .. Len(commands[k]) - 1
      /\ \A i \in 1 .. Len(commands[k]) - 1 : Tail(commands[k])[i] = commands[k][i + 1]
  BY <1>2, HeadTailProperties, LenProperties
<1>4. Head(commands[k]) = commands[k][1]
  BY <1>2
<1>5. ASSUME NEW j \in DOMAIN commands[k], commands[k][j] = a
      PROVE  a \in Range(Tail(commands[k]))
  <2>1. j - 1 \in 1 .. Len(commands[k]) - 1 /\ (j - 1) + 1 = j
    BY <1>2, <1>4, <1>5
  <2>2. Tail(commands[k])[j - 1] = commands[k][j]
    BY <1>3, <2>1
  <2>3. QED
    BY <1>3, <1>5, <2>1, <2>2 DEF Range
<1>6. QED
  BY <1>1, <1>5 DEF KeepsClient, Range

\* OnDone calls ClientDone or leaves it to the strand.
LEMMA StepCommandDone ==
  ASSUME ServiceInv, ServiceInv', CommandDone
  PROVE  ServiceStep
<1>0. PICK k \in Client, c \in Command, code \in DoneCode :
        k = unwind[1].cli /\ c = Head(commands[k]) /\ code = unwind[1].code
  BY UnwindHead DEF ServiceInv, CommandDone
<1> DEFINE cl == [op |-> "done", cli |-> k, cmd |-> c, code |-> code]
<1>1. unwind # <<>> /\ commands' = [commands EXCEPT ![k] = Tail(@)]
  BY <1>0 DEF CommandDone
<1>2. commands[k] # <<>> /\ TypeOK
  BY <1>0, <1>1, UnwindHead DEF ServiceInv, TypeInv
<1>3. c \in Range(commands[k])
  <2>1. commands[k] \in Seq(Command) /\ 1 \in DOMAIN commands[k] /\ commands[k][1] = c
    BY <1>0, <1>2, EmptySeq, LenProperties DEF TypeOK
  <2>2. QED
    BY <2>1 DEF Range
<1>4. c \in Article => phase[c] = "running" /\ ServersAt(c) = {k.srv}
  BY <1>2, <1>3 DEF ServiceInv, Located
<1>5. \A a \in Article : a # c => KeepsClient(a)
  BY <1>0, <1>1, <1>2, PopKeeps
<1>6. CASE strand = <<>>
  <2>1. strand' = strand /\ ClientDone(k, c, code)
    BY <1>0, <1>6 DEF CommandDone
  <2>2. \A a \in Article : KeepsClosure(a)
    BY <1>2, <2>1, ClosuresKept
  <2>3. QED
    BY <1>2, <1>4, <1>5, <2>1, <2>2, StepClientDone
<1>7. CASE strand # <<>>
  <2>1. /\ strand' = Append(strand, cl) /\ failed' = failed /\ canceled' = canceled
        /\ phase' = [phase EXCEPT ![c] = "finishing"]
    BY <1>0, <1>7 DEF CommandDone, Post
  <2>2. cl \in Closure /\ cl.op = "done" /\ cl.cmd = c /\ cl.cli = k
    BY <1>2, Closures
  <2> HIDE DEF cl
  <2>3. phase'[c] = "finishing" /\ \A a \in Article : a # c => phase'[a] = phase[a]
    BY <1>2, <2>1 DEF TypeOK, Command
  <2>4. ASSUME NEW a \in Article, a # c PROVE Service!Idle(a)
    <3>1. KeepsClosure(a)
      BY <1>2, <2>1, <2>2, ClosuresKept
    <3>2. QED
      BY <1>5, <2>1, <2>3, <2>4, <3>1, MovesNot
  <2>5. ASSUME c \in Article PROVE Service!Idle(c)
    <3>1. \E i \in DOMAIN strand' : strand'[i] = cl
      <4>1. strand \in Seq(Closure) /\ Len(strand) \in Nat
        BY <1>2, LenProperties DEF TypeOK
      <4>2. strand'[Len(strand) + 1] = cl /\ Len(strand) + 1 \in DOMAIN strand'
        BY <2>1, <2>2, <4>1, AppendProperties, LenProperties
      <4>3. QED
        BY <4>2
    <3>2. ServersAt(c)' = {k.srv}
      BY <2>2, <2>5, <3>1 DEF ServiceInv, Located
    <3>3. QED
      BY <1>4, <2>1, <2>3, <2>5, <3>2 DEF Service!Idle, ServiceState
  <2>6. QED
    BY <2>1, <2>4, <2>5 DEF ServiceStep, Moves
<1>8. QED
  BY <1>6, <1>7

\* The closures of the strand.
LEMMA StepClosure ==
  ASSUME ServiceInv, ServiceInv', ClosureStep
  PROVE  ServiceStep
<1> USE DEF clientVars, commandVars
<1>0. ASSUME NEW cl, Run(cl)
      PROVE  strand # <<>> /\ strand' = Tail(strand) /\ Head(strand) = cl /\ Up
  BY <1>0 DEF Run, IoIdle, ClosureOver
<1>1. TypeOK
  BY DEF ServiceInv, TypeInv
<1>2. ASSUME NEW s \in Server, RunAddServer(s) PROVE ServiceStep
  <2> DEFINE N == UNION {NewClient(s, i) : i \in 0 .. Threads[s] - 1}
  <2>1. N \in SUBSET Client /\ \A n \in N : ~ Alive(n)
    BY NewClientFacts
  <2>2. StartClients(s, N)
    BY <1>2 DEF RunAddServer
  <2>3. strand # <<>> /\ strand' = Tail(strand) /\ Head(strand).op # "done" /\ Up
    BY <1>0, <1>2 DEF RunAddServer
  <2> HIDE DEF N
  <2>4. QED
    BY <2>1, <2>2, <2>3, StepStartClients
<1>3. ASSUME NEW a \in Article, RunPostCommand(a) PROVE ServiceStep
  <2>1. /\ strand # <<>> /\ strand' = Tail(strand)
        /\ Head(strand).op = "post" /\ Head(strand).cmd = a
        /\ phase' = [phase EXCEPT ![a] = "waiting"]
        /\ failed' = failed /\ canceled' = canceled /\ commands' = commands
    BY <1>0, <1>3 DEF RunPostCommand
  <2>2. phase[a] = "posted"
    <3>1. strand \in Seq(Closure)
      BY <1>1 DEF TypeOK
    <3>2. 1 \in DOMAIN strand /\ strand[1] = Head(strand)
      BY <2>1, <3>1, EmptySeq, LenProperties
    <3>3. QED
      BY <2>1, <3>2 DEF ServiceInv, OneOwner, QueuedOnce
  <2>3. phase'[a] = "waiting" /\ \A b \in Article : b # a => phase'[b] = phase[b]
    BY <1>1, <2>1 DEF TypeOK, Command
  <2>4. Service!Idle(a)
    <3>1. ServersAt(a) = {} /\ ServersAt(a)' = {}
      BY <2>2, <2>3 DEF ServiceInv, Located
    <3>2. QED
      BY <2>1, <2>2, <2>3, <3>1 DEF Service!Idle, ServiceState
  <2>5. ASSUME NEW b \in Article, b # a PROVE Service!Idle(b)
    <3>1. KeepsClient(b) /\ KeepsClosure(b)
      BY <1>1, <2>1, ClosuresKept DEF KeepsClient
    <3>2. QED
      BY <2>1, <2>3, <2>5, <3>1, MovesNot
  <2>6. QED
    BY <2>1, <2>4, <2>5 DEF ServiceStep, Moves
<1>4. ASSUME NEW k \in Client, NEW c \in Command, NEW code \in DoneCode, RunClientDone(k, c, code)
      PROVE  ServiceStep
  <2>1. /\ strand # <<>> /\ strand' = Tail(strand)
        /\ Head(strand).op = "done" /\ Head(strand).cmd = c /\ Head(strand).cli = k
        /\ commands' = commands /\ ClientDone(k, c, code)
    BY <1>0, <1>4 DEF RunClientDone
  <2>2. c \in Article => phase[c] \in {"running", "finishing"} /\ ServersAt(c) = {k.srv}
    <3>1. strand \in Seq(Closure)
      BY <1>1 DEF TypeOK
    <3>2. 1 \in DOMAIN strand /\ strand[1] = Head(strand)
      BY <2>1, <3>1, EmptySeq, LenProperties
    <3>3. QED
      BY <2>1, <3>2 DEF ServiceInv, Located
  <2>3. \A a \in Article : a # c => KeepsClient(a) /\ KeepsClosure(a)
    BY <1>1, <2>1, ClosuresKept DEF KeepsClient
  <2>4. QED
    BY <2>1, <2>2, <2>3, StepClientDone
<1>5. ASSUME RunStop PROVE ServiceStep
  <2>1. /\ strand # <<>> /\ strand' = Tail(strand) /\ Head(strand).op # "done"
        /\ commands' = commands /\ failed' = failed
        /\ canceled' = canceled \cup Range(commandsWaiting) \cup commandsRunning
        /\ phase' = [c \in Command |-> IF c \in Range(commandsWaiting) THEN "released" ELSE phase[c]]
    BY <1>0, <1>5 DEF RunStop
  <2>2. ASSUME NEW a \in Article, a \in Range(commandsWaiting) PROVE Service!GiveUp(a)
    <3>1. phase[a] = "waiting"
      BY <2>2 DEF Range, ServiceInv, OneOwner, WaitingOnce
    <3>2. phase'[a] = "released" /\ a \in canceled'
      BY <2>1, <2>2 DEF Command
    <3>3. QED
      BY <2>1, <3>1, <3>2, MovesGiveUp
  <2>3. ASSUME NEW a \in Article, a \notin Range(commandsWaiting) PROVE Service!Idle(a)
    <3>1. phase'[a] = phase[a]
      BY <2>1, <2>3 DEF Command
    <3>2. KeepsClient(a) /\ KeepsClosure(a)
      BY <1>1, <2>1, ClosuresKept DEF KeepsClient
    <3>3. QED
      BY <2>1, <3>1, <3>2, MovesNot
  <2>4. QED
    BY <2>1, <2>2, <2>3 DEF ServiceStep, Moves
<1>6. ASSUME NEW s \in Removable, RunRemoveServer(s) PROVE ServiceStep
  <2>1. Run([op |-> "remove", srv |-> s])
    BY <1>6 DEF RunRemoveServer
  <2>2. UNCHANGED <<phase, failed, commands>> /\ canceled' = canceled
    BY <1>6 DEF RunRemoveServer
  <2>3. QED
    BY <1>0, <2>1, <2>2, StepNot
<1>7. ASSUME RunEvent PROVE ServiceStep
  <2>1. Run([op |-> "event"]) /\ UNCHANGED <<phase, failed, commands>> /\ canceled' = canceled
    BY <1>7 DEF RunEvent
  <2>2. QED
    BY <1>0, <2>1, StepNot
<1>8. QED
  BY <1>2, <1>3, <1>4, <1>5, <1>6, <1>7 DEF ClosureStep

\* Disconnect, the ClientStopped handlers and OnDone.
LEMMA StepHandler ==
  ASSUME ServiceInv, ServiceInv', HandlerStep
  PROVE  ServiceStep
<1> USE DEF clientVars, commandVars
<1>1. ASSUME NEW k \in Client, OnStoppedRestart(k) PROVE ServiceStep
  <2> DEFINE N == NewClient(k.srv, k.id)
  <2>1. N \in SUBSET Client /\ \A n \in N : ~ Alive(n)
    BY NewClientFacts, ClientFacts
  <2>2. StartClients(k.srv, N) /\ strand' = strand /\ Up
    BY <1>1 DEF OnStoppedRestart
  <2> HIDE DEF N
  <2>3. QED
    BY <2>1, <2>2, StepStartClients
<1>2. ASSUME NEW k \in Client, Disconnect(k) \/ OnStoppedErase(k) \/ OnStoppedPromise(k)
      PROVE  ServiceStep
  <2>1. UNCHANGED <<strand, phase, failed, commands>> /\ canceled' = canceled
    BY <1>2 DEF Disconnect, OnStoppedErase, OnStoppedPromise
  <2>2. QED
    BY <2>1, StepNot
<1>3. QED
  BY <1>1, <1>2, StepCommandDone DEF HandlerStep

\* DispatchCommands.
LEMMA StepDispatch ==
  ASSUME ServiceInv, ServiceInv', DispatchStep
  PROVE  ServiceStep
<1> USE DEF clientVars, commandVars
<1>0. TypeOK
  BY DEF ServiceInv, TypeInv
<1>1. ASSUME NEW c \in Command, At(c) PROVE phase[c] = "waiting"
  BY <1>1 DEF At, ServiceInv, OneOwner, WaitingOnce
<1>2. ASSUME NEW c \in Command, DispatchCanceled(c) \/ DispatchFailed(c) PROVE ServiceStep
  <2>1. /\ At(c) /\ phase' = [phase EXCEPT ![c] = "released"] /\ failed' = failed
        /\ strand' = strand /\ commands' = commands /\ canceled' = canceled
        /\ c \in canceled \/ Tier(c) = {}
    BY <1>2 DEF DispatchCanceled, DispatchFailed, Wanted
  <2>2. phase'[c] = "released" /\ \A a \in Article : a # c => phase'[a] = phase[a]
    BY <1>0, <2>1 DEF TypeOK, Command
  <2>3. servers \subseteq failed[c] \/ c \in canceled'
    BY <2>1 DEF Tier
  <2>4. c \in Article => Service!GiveUp(c)
    BY <1>1, <2>1, <2>2, <2>3, MovesGiveUp
  <2>5. ASSUME NEW a \in Article, a # c PROVE Service!Idle(a)
    <3>1. KeepsClient(a) /\ KeepsClosure(a)
      BY <1>0, <2>1, ClosuresKept DEF KeepsClient
    <3>2. QED
      BY <2>1, <2>2, <2>5, <3>1, MovesNot
  <2>6. QED
    BY <2>1, <2>4, <2>5 DEF ServiceStep, Moves
<1>3. ASSUME NEW c \in Command, NEW k \in Client, DispatchRun(c, k) PROVE ServiceStep
  <2>1. /\ At(c) /\ c \notin canceled /\ k \in Candidates(c)
        /\ phase' = [phase EXCEPT ![c] = "running"] /\ failed' = failed
        /\ strand' = strand /\ canceled' = canceled
        /\ commands' = [commands EXCEPT ![k] = Append(@, c)]
    BY <1>3 DEF DispatchRun, Wanted, FirstOf
  <2>2. \A a \in Article : a # c => phase'[a] = phase[a]
    BY <1>0, <2>1 DEF TypeOK, Command
  <2>3. commands[k] \in Seq(Command)
    BY <1>0 DEF TypeOK
  <2>4. c \in Range(Append(commands[k], c)) /\ Range(commands[k]) \subseteq Range(Append(commands[k], c))
    BY <2>3, RangeIncludes
  <2>5. \A o \in Client : commands'[o] = IF o = k THEN Append(commands[k], c) ELSE commands[o]
    BY <1>0, <2>1 DEF TypeOK
  <2>6. c \in Article => Service!Send(c, k.srv)
    BY <1>1, <2>1, <2>4, <2>5, MovesSend
  <2>7. ASSUME NEW a \in Article, a # c PROVE Service!Idle(a)
    <3>1. KeepsClient(a)
      BY <2>4, <2>5 DEF KeepsClient
    <3>2. KeepsClosure(a)
      BY <1>0, <2>1, ClosuresKept
    <3>3. QED
      BY <2>1, <2>2, <2>7, <3>1, <3>2, MovesNot
  <2>8. k.srv \in Server
    BY ClientFacts
  <2>9. QED
    BY <2>1, <2>6, <2>7, <2>8 DEF ServiceStep, Moves
<1>4. ASSUME DispatchBegin \/ DispatchEnd \/ \E c \in Command : DispatchSkip(c)
      PROVE  ServiceStep
  <2>1. /\ UNCHANGED <<phase, failed, commands>> /\ canceled' = canceled
        /\ strand' = strand \/ \E cl \in Closure : strand' = Append(strand, cl)
    BY <1>4, Closures DEF DispatchBegin, DispatchEnd, DispatchSkip, Post
  <2>2. QED
    BY <2>1, StepNot
<1>5. QED
  BY <1>2, <1>3, <1>4 DEF DispatchStep

\* A step moves the articles as the service does.
LEMMA StepNext ==
  ASSUME ServiceInv, ServiceInv', [Next]_vars
  PROVE  [Service!Next]_(Service!svars)
<1>1. ServiceStep
  <2>1. CASE NetworkStep \/ UNCHANGED vars
    <3>1. UNCHANGED <<strand, phase, failed, commands>> /\ canceled' = canceled
      BY <2>1 DEF NetworkStep, Finish, CloseTimeout, Drain, vars, clientVars, commandVars
    <3>2. QED
      BY <3>1, StepNot
  <2>2. QED
    BY <2>1, StepApi, StepClosure, StepHandler, StepDispatch DEF Next
<1>2. servers' \subseteq Server
  BY DEF ServiceInv, TypeInv, TypeOK
<1>3. Service!Next
  BY <1>1, <1>2 DEF ServiceStep, Moves, Service!Next
<1>4. QED
  BY <1>3

\* The dispatcher starts as the service does.
LEMMA StepInit == Init => Service!Init
<1> SUFFICES ASSUME Init PROVE Service!Init
  OBVIOUS
<1>1. \A a \in Article : ServiceState(a) = "new" /\ ServersAt(a) = {} /\ failed[a] = {}
  <2>1. Range(<<>>) = {}
    BY DEF Range
  <2>2. QED
    BY <2>1 DEF Init, ServiceState, ServersAt, Command
<1>2. servers = {} /\ canceled = {}
  BY DEF Init
<1>3. QED
  BY <1>1, <1>2 DEF Service!Init

\* NewsClientCache keeps what CommandService promises (PostCommand, ClientDone,
\* DispatchCommands): an article is at one server at a time, never goes back to one
\* that failed it, reaches a backup server only when all connected primaries
\* failed it, and is given up only when all servers did or it was canceled.
THEOREM ImplementsService == Spec => ServiceSpec
<1>1. ServiceInv /\ ServiceInv' /\ [Next]_vars => [Service!Next]_(Service!svars)
  BY StepNext
<1>2. QED
  BY <1>1, StepInit, ServiceAlways, PTL DEF Spec, ServiceSpec, Service!Spec
-----------------------------------------------------------------------------
(* No wake-up is lost, while no server is removed.  RunRemoveServer may    *)
(* turn to the backup servers for the commands that wait, and calls no     *)
(* DispatchCommands.                                                       *)

\* No client could take the command, or DispatchCommands forgot its timeouts.
Settled(c) == c \in tryAgain \/ Candidates(c) = {}

\* m_connections has an entry for every server with clients.
KeysOK == \A s \in Server : s \notin servers => connections[s] = {}

\* DispatchCommands settled the commands behind its iterator...
PassOK ==
  scan # 0 => \A i \in DOMAIN commandsWaiting : i < scan => Settled(commandsWaiting[i])

\* ... and they stay settled until a command ends, which calls it again.
RestOK ==
  scan = 0 /\ ~ redispatch /\ Up /\ (\A i \in DOMAIN strand : strand[i].op # "done") =>
    \A i \in DOMAIN commandsWaiting : Settled(commandsWaiting[i])

WakeInv == KeysOK /\ PassOK /\ RestOK

\* A command is settled as long as no client gets capacity and no server is added.
LEMMA SettledKept ==
  ASSUME NEW c \in Command, Settled(c), TypeOK,
         servers' = servers, connections' = connections,
         \A k \in Client : HasCapacity(k)' => HasCapacity(k),
         failed'[c] = failed[c], timeout'[c] = timeout[c], c \in tryAgain => c \in tryAgain'
  PROVE  Settled(c)'
<1>1. Ready(c)' = Ready(c)
  BY DEF Ready, Tier
<1>2. \A s \in Ready(c) : connections[s] \subseteq Client
  BY DEF Ready, Tier, TypeOK
<1>3. Candidates(c)' \subseteq Candidates(c)
  BY <1>1, <1>2 DEF Candidates
<1>4. QED
  BY <1>3 DEF Settled

\* The commands that wait.
LEMMA WaitingType ==
  ASSUME TypeOK
  PROVE  \A i \in DOMAIN commandsWaiting : commandsWaiting[i] \in Command /\ i \in Nat
  BY ElementOfSeq, LenProperties DEF TypeOK

\* Steps that leave the commands, the clients and DispatchCommands alone.
LEMMA WakeFrame ==
  ASSUME TypeOK, WakeInv, Up, HeldClosures \/ strand' = strand,
         UNCHANGED <<servers, connections, commands, commandsWaiting, failed, timeout,
                     tryAgain, redispatch, scan>>
  PROVE  WakeInv'
<1>1. \A c \in Command : Settled(c) => Settled(c)'
  BY SettledKept DEF HasCapacity
<1>2. \A i \in DOMAIN commandsWaiting : Settled(commandsWaiting[i]) => Settled(commandsWaiting[i])'
  BY <1>1, WaitingType
<1>3. KeysOK' /\ PassOK'
  BY <1>2 DEF WakeInv, KeysOK, PassOK
<1>4. (\A i \in DOMAIN strand' : strand'[i].op # "done") => \A i \in DOMAIN strand : strand[i].op # "done"
  BY DEF HeldClosures
<1>5. RestOK'
  BY <1>2, <1>4 DEF WakeInv, RestOK, Up
<1>6. QED
  BY <1>3, <1>5 DEF WakeInv

\* A new client is busy with its login: StartClient makes no room for a command.
LEMMA WakeStartClients ==
  ASSUME TypeOK, OneOwner, WakeInv, Up, HeldClosures \/ strand' = strand,
         NEW s \in Server, NEW N \in SUBSET Client, StartClients(s, N),
         \A n \in N : ~ Alive(n),
         UNCHANGED <<commandsWaiting, redispatch, scan>>
  PROVE  WakeInv'
<1>1. \A k \in Client : HasCapacity(k)' => k \notin N /\ HasCapacity(k)
  <2> SUFFICES ASSUME NEW k \in Client, HasCapacity(k)' PROVE k \notin N /\ HasCapacity(k)
    OBVIOUS
  <2>1. k \notin N
    <3>1. SUFFICES ASSUME k \in N PROVE FALSE
      OBVIOUS
    <3>2. commands'[k] = <<k>>
      BY <3>1 DEF StartClients
    <3>3. Len(<<k>>) = 1 /\ Head(<<k>>) = k
      OBVIOUS
    <3>4. k \in Article
      BY <3>2, <3>3 DEF HasCapacity, Pipeable
    <3>5. QED
      BY <3>4, CommandsDiffer
  <2>2. commands'[k] = commands[k]
    BY <2>1 DEF StartClients
  <2>3. QED
    BY <2>1, <2>2 DEF HasCapacity
<1>2. \A t \in Server : connections'[t] \subseteq connections[t] \cup N
  BY DEF StartClients, TypeOK
<1>3. ASSUME NEW c \in Command, phase[c] = "waiting", Settled(c)
      PROVE  Settled(c)'
  <2>1. c \notin N
    BY <1>3 DEF Alive
  <2>2. failed'[c] = failed[c] /\ timeout'[c] = timeout[c] /\ (c \in tryAgain => c \in tryAgain')
    BY <2>1 DEF StartClients
  <2>3. servers' = servers \/ (s \notin servers /\ servers' = servers \cup {s})
    BY DEF StartClients
  <2>4. Ready(c)' \subseteq Ready(c) \cup (servers' \ servers)
    <3>1. CASE servers' = servers
      BY <2>2, <3>1 DEF Ready, Tier
    <3>2. CASE s \notin servers /\ servers' = servers \cup {s}
      BY <2>2, <3>2 DEF Ready, Tier
    <3>3. QED
      BY <2>3, <3>1, <3>2
  <2>5. Ready(c)' \subseteq servers' /\ servers' \subseteq Server
    BY DEF Ready, Tier, TypeOK, StartClients
  <2>6. ASSUME NEW k \in Candidates(c)' PROVE k \in Candidates(c)
    <3>1. PICK t \in Ready(c)' : k \in connections'[t] /\ HasCapacity(k)'
      BY <2>6 DEF Candidates
    <3>2. t \in Server
      BY <2>5
    <3>3. k \in Client
      BY <1>2, <3>1, <3>2 DEF TypeOK
    <3>4. k \in connections[t] /\ HasCapacity(k)
      BY <1>1, <1>2, <3>1, <3>2, <3>3
    <3>5. t \in servers
      BY <3>2, <3>4 DEF WakeInv, KeysOK
    <3>6. t \in Ready(c)
      BY <2>4, <3>5
    <3>7. QED
      BY <3>4, <3>6 DEF Candidates
  <2>7. CASE c \in tryAgain
    BY <2>2, <2>7 DEF Settled
  <2>8. CASE Candidates(c) = {}
    <3>1. Candidates(c)' = {}
      BY <2>6, <2>8
    <3>2. QED
      BY <3>1 DEF Settled
  <2>9. QED
    BY <1>3, <2>7, <2>8 DEF Settled
<1>9. \A i \in DOMAIN commandsWaiting :
        Settled(commandsWaiting[i]) => Settled(commandsWaiting[i])'
  <2> SUFFICES ASSUME NEW i \in DOMAIN commandsWaiting, Settled(commandsWaiting[i])
               PROVE  Settled(commandsWaiting[i])'
    OBVIOUS
  <2>1. PICK c \in Command : c = commandsWaiting[i]
    BY WaitingType
  <2>2. phase[c] = "waiting" /\ Settled(c)
    BY <2>1 DEF OneOwner, WaitingOnce
  <2>3. Settled(c)' /\ c = commandsWaiting'[i]
    BY <1>3, <2>1, <2>2
  <2>4. QED
    BY <2>3
<1>4. KeysOK'
  BY DEF WakeInv, KeysOK, StartClients, TypeOK
<1>5. PassOK'
  BY <1>9 DEF WakeInv, PassOK
<1>6. (\A i \in DOMAIN strand' : strand'[i].op # "done") => \A i \in DOMAIN strand : strand[i].op # "done"
  BY DEF HeldClosures
<1>7. RestOK'
  BY <1>9, <1>6 DEF WakeInv, RestOK, Up
<1>8. QED
  BY <1>4, <1>5, <1>7 DEF WakeInv

\* ClientDone calls DispatchCommands, and erases the entry of a server with no client.
LEMMA WakeClientDone ==
  ASSUME TypeOK, WakeInv, scan = 0,
         NEW k \in Client, NEW c, NEW code, ClientDone(k, c, code)
  PROVE  WakeInv'
<1>1. k.srv \in Server
  BY ClientFacts
<1>2. KeysOK'
  <2>1. CASE StopClient(k)
    BY <1>1, <2>1 DEF StopClient, EraseConnection, WakeInv, KeysOK, TypeOK
  <2>2. CASE RestartClient(k)
    BY <1>1, <2>2 DEF RestartClient, EraseConnection, WakeInv, KeysOK, TypeOK
  <2>3. CASE UNCHANGED connVars
    BY <2>3 DEF connVars, WakeInv, KeysOK
  <2>4. QED
    BY <2>1, <2>2, <2>3 DEF ClientDone
<1>3. redispatch' /\ scan' = 0
  BY DEF ClientDone
<1>4. QED
  BY <1>2, <1>3 DEF WakeInv, PassOK, RestOK

\* The calls from other threads only queue closures.
LEMMA WakeApi ==
  ASSUME TypeInv, WakeInv, ApiStep
  PROVE  WakeInv'
<1> USE DEF TypeInv, ioVars, connVars, clientVars, commandVars, apiVars
<1>1. ASSUME NEW s \in Server, AddServer(s) PROVE WakeInv'
  BY <1>1, Closures, HeldAppend, WakeFrame DEF AddServer, Post
<1>2. ASSUME NEW a \in Article, GetArticleStream(a) PROVE WakeInv'
  BY <1>2, Closures, HeldAppend, WakeFrame DEF GetArticleStream, Post
<1>3. ASSUME NEW a \in Cancelable, Cancel(a) PROVE WakeInv'
  BY <1>3, WakeFrame DEF Cancel
<1>4. ASSUME NEW s \in Removable, RemoveServer(s) PROVE WakeInv'
  BY <1>4, Closures, HeldAppend, WakeFrame DEF RemoveServer, Post
<1>5. ASSUME Stop PROVE WakeInv'
  BY <1>5, Closures, HeldAppend, WakeFrame DEF Stop, Post
<1>6. ASSUME HeartBeat PROVE WakeInv'
  BY <1>6, Closures, HeldAppend, WakeFrame DEF HeartBeat, Post
<1>7. QED
  BY <1>1, <1>2, <1>3, <1>4, <1>5, <1>6 DEF ApiStep

\* The closures of the strand, without RemoveServer's.
LEMMA WakeClosure ==
  ASSUME Removable = {}, TypeInv, OneOwner, WakeInv, ClosureStep
  PROVE  WakeInv'
<1> USE DEF TypeInv, ioVars, connVars, clientVars, commandVars, apiVars
<1>0. ASSUME NEW cl, Run(cl)
      PROVE  /\ strand # <<>> /\ strand' = Tail(strand) /\ Head(strand) = cl
             /\ scan = 0 /\ Up
             /\ cl.op # "done" => HeldClosures
  BY <1>0, HeldTail DEF Run, IoIdle, ClosureOver
<1>1. ASSUME NEW s \in Server, RunAddServer(s) PROVE WakeInv'
  <2> DEFINE N == UNION {NewClient(s, i) : i \in 0 .. Threads[s] - 1}
  <2>1. N \in SUBSET Client /\ \A n \in N : ~ Alive(n)
    BY NewClientFacts
  <2>2. StartClients(s, N) /\ UNCHANGED <<commandsWaiting, redispatch, scan>>
    BY <1>1 DEF RunAddServer
  <2>3. HeldClosures /\ Up
    BY <1>0, <1>1 DEF RunAddServer
  <2> HIDE DEF N
  <2>4. QED
    BY <2>1, <2>2, <2>3, WakeStartClients
<1>2. ASSUME NEW a \in Article, RunPostCommand(a) PROVE WakeInv'
  <2>1. scan' = 0 /\ redispatch' /\ UNCHANGED connVars
    BY <1>0, <1>2 DEF RunPostCommand
  <2>2. QED
    BY <2>1 DEF WakeInv, KeysOK, PassOK, RestOK
<1>3. ASSUME NEW k \in Client, NEW c \in Command, NEW code \in DoneCode, RunClientDone(k, c, code)
      PROVE WakeInv'
  <2>1. scan = 0 /\ ClientDone(k, c, code)
    BY <1>0, <1>3 DEF RunClientDone
  <2>2. QED
    BY <2>1, WakeClientDone
<1>4. ASSUME NEW s \in Removable, RunRemoveServer(s) PROVE WakeInv'
  BY <1>4
<1>5. ASSUME RunStop PROVE WakeInv'
  <2>1. commandsWaiting' = <<>> /\ connections' = [s \in Server |-> {}]
    BY <1>5 DEF RunStop
  <2>2. DOMAIN commandsWaiting' = {}
    BY <2>1
  <2>3. QED
    BY <2>1, <2>2 DEF WakeInv, KeysOK, PassOK, RestOK
<1>6. ASSUME RunEvent PROVE WakeInv'
  <2>1. HeldClosures /\ Up
    BY <1>0, <1>6 DEF RunEvent
  <2>2. QED
    BY <1>6, <2>1, WakeFrame DEF RunEvent
<1>7. QED
  BY <1>1, <1>2, <1>3, <1>4, <1>5, <1>6 DEF ClosureStep

\* Disconnect, the ClientStopped handlers and OnDone: a command that ends makes
\* room, and its ClientDone runs or is queued.
LEMMA WakeHandler ==
  ASSUME TypeInv, OneOwner, WakeInv, HandlerStep
  PROVE  WakeInv'
<1> USE DEF TypeInv, ioVars, connVars, clientVars, commandVars, apiVars
<1>1. ASSUME NEW k \in Client, Disconnect(k) PROVE WakeInv'
  BY <1>1, WakeFrame DEF Disconnect
<1>2. ASSUME NEW k \in Client, OnStoppedRestart(k) PROVE WakeInv'
  <2> DEFINE N == NewClient(k.srv, k.id)
  <2>1. k.srv \in Server /\ N \in SUBSET Client /\ \A n \in N : ~ Alive(n)
    BY NewClientFacts, ClientFacts
  <2>2. /\ StartClients(k.srv, N) /\ strand' = strand /\ Up
        /\ UNCHANGED <<commandsWaiting, redispatch, scan>>
    BY <1>2 DEF OnStoppedRestart
  <2> HIDE DEF N
  <2>3. QED
    BY <2>1, <2>2, WakeStartClients
<1>3. ASSUME NEW k \in Client, OnStoppedErase(k) PROVE WakeInv'
  BY <1>3, WakeFrame DEF OnStoppedErase
<1>4. ASSUME NEW k \in Client, OnStoppedPromise(k) PROVE WakeInv'
  BY <1>4, WakeFrame DEF OnStoppedPromise
<1>5. ASSUME CommandDone PROVE WakeInv'
  <2> DEFINE k == unwind[1].cli
             c == Head(commands[k])
             code == unwind[1].code
  <2>1. unwind # <<>> /\ scan = 0
    BY <1>5 DEF CommandDone, ClosureOver
  <2>2. k \in Client /\ c \in Command /\ code \in DoneCode
    BY <2>1, UnwindHead
  <2>3. CASE strand = <<>>
    <3>1. ClientDone(k, c, code)
      BY <1>5, <2>3 DEF CommandDone
    <3> HIDE DEF k, c, code
    <3>2. QED
      BY <2>1, <2>2, <3>1, WakeClientDone
  <2>4. CASE strand # <<>>
    <3> DEFINE cl == [op |-> "done", cli |-> k, cmd |-> c, code |-> code]
    <3>1. strand' = Append(strand, cl) /\ scan' = scan /\ UNCHANGED connVars
      BY <1>5, <2>4 DEF CommandDone, Post
    <3>2. cl.op = "done"
      OBVIOUS
    <3> HIDE DEF k, c, code, cl
    <3>3. Len(strand) + 1 \in DOMAIN strand' /\ strand'[Len(strand) + 1] = cl
      BY <3>1, AppendProperties, LenProperties DEF TypeOK
    <3>4. QED
      BY <2>1, <3>1, <3>2, <3>3 DEF WakeInv, KeysOK, PassOK, RestOK
  <2>5. QED
    BY <2>3, <2>4
<1>6. QED
  BY <1>1, <1>2, <1>3, <1>4, <1>5 DEF HandlerStep

\* A command that leaves m_commandsWaiting leaves those behind the iterator settled.
LEMMA WakeErase ==
  ASSUME TypeOK, WaitingOnce, WakeInv, scan \in DOMAIN commandsWaiting, EraseWaiting,
         UNCHANGED <<servers, connections, scan>>,
         \A c \in Command : c # commandsWaiting[scan] /\ Settled(c) => Settled(c)'
  PROVE  WakeInv'
<1>1. scan \in Nat \ {0}
  BY LenProperties DEF TypeOK
<1>2. \A j \in DOMAIN commandsWaiting' :
        /\ j \in Nat
        /\ Skip(scan, j) \in DOMAIN commandsWaiting
        /\ Skip(scan, j) # scan
        /\ commandsWaiting'[j] = commandsWaiting[Skip(scan, j)]
  BY RemoveIndex DEF TypeOK, EraseWaiting
<1>3. ASSUME NEW j \in DOMAIN commandsWaiting', j < scan PROVE Settled(commandsWaiting[j])'
  <2>1. j \in DOMAIN commandsWaiting /\ commandsWaiting'[j] = commandsWaiting[j] /\ j # scan
    BY <1>2, <1>3 DEF Skip
  <2>2. PICK c \in Command : c = commandsWaiting[j]
    BY <2>1, WaitingType
  <2>3. Settled(c) /\ c # commandsWaiting[scan]
    BY <1>1, <1>3, <2>1, <2>2 DEF WakeInv, PassOK, WaitingOnce
  <2>4. Settled(c)' /\ c = commandsWaiting'[j]
    BY <2>1, <2>2, <2>3
  <2>5. QED
    BY <2>4
<1>4. KeysOK'
  BY DEF WakeInv, KeysOK
<1>5. QED
  BY <1>1, <1>3, <1>4 DEF WakeInv, PassOK, RestOK

\* The pass of DispatchCommands: what it leaves behind it has no client to run on.
LEMMA WakeDispatch ==
  ASSUME TypeInv, OneOwner, LiveInv, WakeInv, DispatchStep
  PROVE  WakeInv'
<1> USE DEF TypeInv, ioVars, connVars, clientVars, commandVars, apiVars
<1>1. ASSUME DispatchBegin PROVE WakeInv'
  <2>1. UNCHANGED <<connVars, commandVars, clientVars>>
    BY <1>1 DEF DispatchBegin
  <2>2. KeysOK'
    BY <2>1 DEF WakeInv, KeysOK
  <2>3. CASE servers = {} \/ commandsWaiting = <<>>
    <3>1. scan' = 0
      BY <1>1, <2>3 DEF DispatchBegin
    <3>2. \A i \in DOMAIN commandsWaiting' : Settled(commandsWaiting[i])'
      <4>1. CASE servers = {}
        BY <2>1, <4>1 DEF Settled, Candidates, Ready, Tier
      <4>2. CASE commandsWaiting = <<>>
        BY <2>1, <4>2
      <4>3. QED
        BY <2>3, <4>1, <4>2
    <3>3. QED
      BY <2>2, <3>1, <3>2 DEF WakeInv, PassOK, RestOK
  <2>4. CASE ~ (servers = {} \/ commandsWaiting = <<>>)
    <3>1. scan' = 1
      BY <1>1, <2>4 DEF DispatchBegin
    <3>2. \A i \in DOMAIN commandsWaiting' : ~ (i < 1)
      <4>1. \A i \in DOMAIN commandsWaiting : i \in 1 .. Len(commandsWaiting)
        BY LenProperties DEF TypeOK
      <4>2. QED
        BY <2>1, <4>1
    <3>3. QED
      BY <2>2, <3>1, <3>2 DEF WakeInv, PassOK, RestOK
  <2>5. QED
    BY <2>3, <2>4
<1>2. ASSUME NEW c \in Command, DispatchCanceled(c) \/ DispatchFailed(c) PROVE WakeInv'
  <2>1. /\ scan \in DOMAIN commandsWaiting /\ EraseWaiting
        /\ UNCHANGED <<connVars, commands, failed, timeout, tryAgain, scan>>
    BY <1>2 DEF DispatchCanceled, DispatchFailed, Wanted, At
  <2>2. \A d \in Command : Settled(d) => Settled(d)'
    BY <2>1, SettledKept DEF HasCapacity
  <2>3. QED
    BY <2>1, <2>2, WakeErase DEF OneOwner, connVars
<1>3. ASSUME NEW c \in Command, NEW k \in Client, DispatchRun(c, k) PROVE WakeInv'
  <2>1. /\ scan \in DOMAIN commandsWaiting /\ EraseWaiting /\ c = commandsWaiting[scan]
        /\ UNCHANGED <<connVars, failed, timeout, scan>>
        /\ commands' = [commands EXCEPT ![k] = Append(@, c)]
        /\ tryAgain' = tryAgain \ {c}
    BY <1>3 DEF DispatchRun, Wanted, At
  <2>2. HasCapacity(k)
    BY <1>3, CandidateFacts DEF DispatchRun, FirstOf, LiveInv
  <2>3. \A o \in Client : HasCapacity(o)' => HasCapacity(o)
    <3> SUFFICES ASSUME NEW o \in Client, HasCapacity(o)', o # k PROVE HasCapacity(o)
      BY <2>2
    <3>1. commands'[o] = commands[o]
      BY <2>1 DEF TypeOK
    <3>2. QED
      BY <3>1 DEF HasCapacity
  <2>4. \A d \in Command : d # c /\ Settled(d) => Settled(d)'
    BY <2>1, <2>3, SettledKept
  <2>5. QED
    BY <2>1, <2>4, WakeErase DEF OneOwner
<1>4. ASSUME NEW c \in Command, DispatchSkip(c) PROVE WakeInv'
  <2>1. /\ scan \in DOMAIN commandsWaiting /\ c = commandsWaiting[scan] /\ scan' = scan + 1
        /\ UNCHANGED <<connVars, commands, commandsWaiting, failed>>
        /\ Candidates(c) = {}
        /\ \A d \in Command : d # c => timeout'[d] = timeout[d] /\ (d \in tryAgain => d \in tryAgain')
    BY <1>4 DEF DispatchSkip, Wanted, At, TypeOK
  <2>2. scan \in Nat \ {0}
    BY <2>1, LenProperties DEF TypeOK
  <2>3. \A k \in Client : HasCapacity(k)' => HasCapacity(k)
    BY <2>1 DEF HasCapacity
  <2>4. \A d \in Command : d # c /\ Settled(d) => Settled(d)'
    BY <2>1, <2>3, SettledKept
  <2>5. Settled(c)'
    <3>1. CASE Ready(c) = {}
      BY <1>4, <3>1 DEF DispatchSkip, Settled
    <3>2. CASE Ready(c) # {}
      <4>1. timeout'[c] = timeout[c]
        BY <1>4, <3>2 DEF DispatchSkip, TypeOK
      <4>2. Candidates(c)' = {}
        BY <2>1, <4>1 DEF Candidates, Ready, Tier, HasCapacity
      <4>3. QED
        BY <4>2 DEF Settled
    <3>3. QED
      BY <3>1, <3>2
  <2>6. ASSUME NEW i \in DOMAIN commandsWaiting, i < scan + 1 PROVE Settled(commandsWaiting[i])'
    <3>1. PICK d \in Command : d = commandsWaiting[i]
      BY WaitingType
    <3>2. i \in Nat
      BY WaitingType
    <3>3. Settled(d)'
      <4>1. CASE i = scan
        BY <2>1, <2>5, <3>1, <4>1
      <4>2. CASE i # scan
        <5>1. i < scan
          BY <2>2, <2>6, <3>2, <4>2
        <5>2. Settled(d)
          BY <2>2, <3>1, <5>1 DEF WakeInv, PassOK
        <5>3. d # c
          BY <2>1, <3>1, <4>2 DEF OneOwner, WaitingOnce
        <5>4. QED
          BY <2>4, <5>2, <5>3
      <4>3. QED
        BY <4>1, <4>2
    <3>4. d = commandsWaiting'[i]
      BY <2>1, <3>1
    <3>5. QED
      BY <3>3, <3>4
  <2>7. PassOK'
    BY <2>1, <2>6 DEF PassOK
  <2>8. QED
    BY <2>1, <2>2, <2>7 DEF WakeInv, KeysOK, RestOK
<1>5. ASSUME DispatchEnd PROVE WakeInv'
  <2>1. UNCHANGED <<connVars, clientVars, commandVars>> /\ scan' = 0 /\ scan > Len(commandsWaiting)
    BY <1>5 DEF DispatchEnd
  <2>2. \A i \in DOMAIN commandsWaiting : Settled(commandsWaiting[i])
    <3>1. Len(commandsWaiting) \in Nat /\ DOMAIN commandsWaiting = 1 .. Len(commandsWaiting)
      BY LenProperties DEF TypeOK
    <3>2. scan \in Nat \ {0} /\ \A i \in DOMAIN commandsWaiting : i < scan
      BY <2>1, <3>1 DEF TypeOK
    <3>3. QED
      BY <3>2 DEF WakeInv, PassOK
  <2>3. \A i \in DOMAIN commandsWaiting : Settled(commandsWaiting[i])'
    BY <2>1, <2>2, WaitingType, SettledKept DEF HasCapacity
  <2>4. QED
    BY <2>1, <2>3 DEF WakeInv, KeysOK, PassOK, RestOK
<1>6. QED
  BY <1>1, <1>2, <1>3, <1>4, <1>5 DEF DispatchStep

\* No wake-up is lost (DispatchCommands, ClientDone): when the io thread has
\* nothing to run, no connection could take a command that waits, unless
\* DispatchCommands has just forgotten the command's timeouts; whatever the
\* numbers of servers, connections, commands and faults, as long as RemoveServer
\* is not called.
THEOREM NoLostWakeupAlways == ASSUME Removable = {} PROVE Spec => []NoLostWakeup
<1>1. Init => WakeInv
  BY DEF Init, WakeInv, KeysOK, PassOK, RestOK
<1>2. TypeInv /\ OneOwner /\ LiveInv /\ WakeInv /\ [Next]_vars => WakeInv'
  <2> SUFFICES ASSUME TypeInv, OneOwner, LiveInv, WakeInv, [Next]_vars PROVE WakeInv'
    OBVIOUS
  <2>1. CASE NetworkStep
    <3>1. UNCHANGED <<strand, connVars, commands, commandVars, redispatch, scan>> /\ Up
      BY <2>1 DEF NetworkStep, Finish, CloseTimeout, Drain, IoIdle, ClosureOver, ioVars, clientVars
    <3>2. QED
      BY <3>1, WakeFrame DEF TypeInv, connVars, commandVars
  <2>2. CASE UNCHANGED vars
    BY <2>2 DEF vars, ioVars, connVars, clientVars, commandVars, WakeInv, KeysOK, PassOK, RestOK,
                Settled, Candidates, Ready, Tier, HasCapacity, Up
  <2>3. QED
    BY <2>1, <2>2, WakeApi, WakeClosure, WakeHandler, WakeDispatch DEF Next
<1>3. TypeInv /\ WakeInv => NoLostWakeup
  <2> SUFFICES ASSUME TypeInv, WakeInv, IoIdle, strand = <<>>,
                      NEW c \in Range(commandsWaiting) \ tryAgain
               PROVE  Candidates(c) = {}
    BY DEF NoLostWakeup
  <2>1. PICK i \in DOMAIN commandsWaiting : c = commandsWaiting[i]
    BY DEF Range
  <2>2. scan = 0 /\ ~ redispatch /\ Up /\ \A j \in DOMAIN strand : strand[j].op # "done"
    BY DEF IoIdle, ClosureOver
  <2>3. Settled(c)
    BY <2>1, <2>2 DEF WakeInv, RestOK
  <2>4. QED
    BY <2>3 DEF Settled
<1>4. QED
  BY <1>1, <1>2, <1>3, TypeInvariant, OneOwnerAlways, LiveAlways, PTL DEF Spec
=============================================================================
