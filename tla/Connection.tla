------------------------------ MODULE Connection ------------------------------
(***************************************************************************)
(* One NNTP connection: a NewsClient, the command that logs in             *)
(* (NewsClientConnect) and the commands that fetch articles                *)
(* (NewsClientReadArticleStream), several at a time when the server's      *)
(* pipeline allows it, the one deadline timer they share, and the server   *)
(* at the other end.                                                       *)
(*                                                                         *)
(* An action is a completion handler of the io thread with everything it   *)
(* calls.  Handlers are functions from the NewsClient's state to its next  *)
(* state; they end in an asynchronous operation or in OnDone.  Of the      *)
(* dispatcher there is what m_done does with the client and the command    *)
(* when the strand is free; NewsClientCache has the rest of it.            *)
(*                                                                         *)
(* response  holds what the server sent, or will send, from the next line  *)
(* to read on: a line is read when it has arrived, and a server may let    *)
(* the client wait for ever.  When the socket is closed any first part of  *)
(* it may be in m_response or in the handler of a read already, and the    *)
(* rest is lost.                                                           *)
(***************************************************************************)
EXTENDS Naturals, Sequences, SequencesExt, FiniteSets

CONSTANTS
  Article,      \* the commands GetArticleStream made
  login,        \* the NewsClientConnect command of the client
  Setting,      \* the servers, and what is asked of them
  MaxFaults,    \* bound: connections the server breaks
  MaxRestarts   \* bound: NewsClients that replace one another

\* pipeline: NewsServer::Pipeline; absent: articles the server does not have;
\* groupless: articles whose nzb file names no group.
ASSUME ConnectionAssumption ==
  /\ login \notin Article
  /\ Setting \subseteq [ssl : BOOLEAN, password : BOOLEAN, pipeline : Nat \ {0},
                        absent : SUBSET Article, groupless : SUBSET Article]
  /\ MaxFaults \in Nat
  /\ MaxRestarts \in Nat

Command == Article \cup {login}

\* The operation of a command that waits for its completion handler; "queued"
\* waits in m_pipeline instead, and of a command that "sent" its request the
\* handler only waits to be run.
Reading == {"greeting", "user", "pass", "status", "data"}
Op == {"none", "resolve", "connect", "handshake", "write", "sent", "queued"} \cup Reading

\* What the server sends: status lines, lines of an article and its last one.
Line == [is : {"status"}, code : {200, 281, 381, 222, 400, 430, 502}, of : Command]
          \cup [is : {"data", "end"}, of : Article]

VARIABLES
  setting,   \* the server
  client,    \* the NewsClient
  article,   \* each article's command: its state, m_request and what OnData got
  restarts,  \* NewsClients that were replaced
  sentTwice, \* articles asked for twice by one write
  faults     \* connections the server broke

vars == <<setting, client, article, restarts, sentTwice, faults>>

-----------------------------------------------------------------------------
(* The NewsClient.                                                         *)

\* A new NewsClient that StartClient runs the login on.
NewClient ==
  [life |-> "up",           \* in m_connections; else how it leaves the bin
   op |-> [c \in Command |-> IF c = login THEN "resolve" ELSE "none"],
   active |-> {login},      \* m_active
   pipeline |-> <<>>,       \* m_pipeline
   writing |-> <<>>,        \* commands whose write is under way, in order
   timer |-> "off",         \* m_timer; "expired": its handler is queued
   timedOut |-> FALSE,      \* m_timeout
   disconnecting |-> FALSE, \* m_disconnecting
   canceled |-> FALSE,      \* NewsClientCommand::m_canceled of the login
   socket |-> "closed",     \* "connecting", "open"; "eof" and "reset": broken
   endpoints |-> 0,         \* endpoints left to try
   response |-> <<>>]

Busy(n) == {c \in Command : n.op[c] # "none"}

\* m_handles > 0
Handles(n) ==
  \/ n.timer # "off"
  \/ \E c \in Command : n.op[c] \notin {"none", "queued"}

HasCapacity(n) ==
  /\ Cardinality(Busy(n)) < setting.pipeline
  /\ n.op[login] = "none"

\* The handler of a timer that expired before sees the new expiry time.
SetTimeout(n) == [n EXCEPT !.timer = "armed"]

\* A handler that is queued already stays so.
CancelTimeout(n) == [n EXCEPT !.timer = IF @ = "armed" THEN "off" ELSE @]

\* What a read of client n may still find after its socket is closed.
Arrived(n) == {SubSeq(n.response, 1, i) : i \in 0 .. Len(n.response)}

\* Mutant: m_disconnecting is not set.
Disconnect_quiet(n, arrived) ==
  [n EXCEPT !.canceled = @ \/ login \in n.active,
            !.socket = "closed", !.response = arrived]

Disconnect(n, arrived) ==
  [n EXCEPT !.disconnecting = TRUE,
            !.canceled = @ \/ login \in n.active,
            !.socket = "closed", !.response = arrived]

AsyncConnect(n, left) ==
  [n EXCEPT !.op[login] = "connect", !.active = {login}, !.socket = "connecting",
            !.endpoints = left, !.response = <<>>]

AsyncWriteRequest(n, c) ==
  SetTimeout([n EXCEPT !.op[c] = "write", !.writing = Append(@, c)])

\* Mutant: no test of m_active.
AsyncReadResponse_at_once(n, c, what) ==
  SetTimeout([n EXCEPT !.op[c] = what, !.active = {c}])

AsyncReadResponse(n, c, what) ==
  IF n.active \subseteq {c}
  THEN SetTimeout([n EXCEPT !.op[c] = what, !.active = {c}])
  ELSE [n EXCEPT !.op[c] = "queued", !.pipeline = Append(@, c)]

\* Mutant: no timeout while the lines of an article are read.
AsyncReadDataResponse_untimed(n, c) == [n EXCEPT !.op[c] = "data"]

AsyncReadDataResponse(n, c) == SetTimeout([n EXCEPT !.op[c] = "data"])

IsConnected(n) == n.socket # "closed"

\* Commands that end when command c does.
Ending(n, c, code) ==
  {c} \cup (IF code \in {"ReconnectRetry", "DisconnectClient"} THEN Range(n.pipeline) ELSE {})

\* NewsClient::OnDone: c ends with the code, and the commands in m_pipeline
\* with it, or the first of them gets its turn to read.  m_done takes the
\* client out of m_connections when it is to be replaced or given up.
OnDone(n, c, code, arrived) ==
  LET over == Ending(n, c, code)
      idle == [CancelTimeout(n) EXCEPT
                 !.active = {}, !.op = [d \in Command |-> IF d \in over THEN "none" ELSE @[d]]]
      leaving == CASE code = "DisconnectClient" -> "stopping"
                   [] code = "ReconnectRetry" \/ (code = "OK" /\ ~ IsConnected(n)) -> "restarting"
                   [] OTHER -> n.life
      done == [idle EXCEPT !.life = IF @ = "up" THEN leaving ELSE @] IN
  IF code = "DisconnectClient" THEN [Disconnect(done, arrived) EXCEPT !.pipeline = <<>>]
  ELSE IF code = "ReconnectRetry" THEN [done EXCEPT !.pipeline = <<>>]
  ELSE IF n.pipeline = <<>> THEN done
  ELSE AsyncReadResponse([done EXCEPT !.pipeline = Tail(@)], Head(n.pipeline), "status")

\* What m_done makes of an article that ended; one that the dispatcher puts
\* back in its queue is  "waiting"  again.
Outcome(n, code) ==
  CASE code = "OK" /\ IsConnected(n) -> "ok"
    [] code = "RetryOther" -> "missing"
    [] code = "Error" -> "failed"
    [] code = "DisconnectClient" -> "dropped"
    [] OTHER -> "waiting"

\* The handler that runs on client state n ends command c.
End(n, c, code) ==
  /\ \E arrived \in Arrived(n) : client' = OnDone(n, c, code, arrived)
  /\ article' = [a \in Article |-> IF a \in Ending(n, c, code)
                                   THEN [article[a] EXCEPT !.state = Outcome(n, code)]
                                   ELSE article[a]]
  /\ UNCHANGED <<setting, restarts, sentTwice, faults>>

\* The handler goes on with another operation, or waits for its turn.
Continue(n) ==
  /\ client' = n
  /\ UNCHANGED <<setting, article, restarts, sentTwice, faults>>

-----------------------------------------------------------------------------
(* The login: NewsClientConnect.                                           *)

\* An error other than "try again" and "timed out" gives the client up, and so
\* does every error after Disconnect told the login.
ErrorConnecting(n) ==
  \E code \in {"DisconnectClient"} \cup (IF n.canceled THEN {} ELSE {"ReconnectRetry"}) :
    End(n, login, code)

\* HandleResolve, for an answer with one or two endpoints.
HandleResolve ==
  LET n == [client EXCEPT !.active = {}] IN
  /\ client.op[login] = "resolve"
  /\ \/ \E left \in {0, 1} : Continue(AsyncConnect(n, left))
     \/ ErrorConnecting(n)

\* What a new connection is greeted with.
Greeting == {<<[is |-> "status", code |-> k, of |-> login]>> : k \in {200, 400, 502}}

\* HandleConnect: the connection stands, or the next endpoint is tried.
HandleConnect ==
  LET n == [client EXCEPT !.active = {}]
      open == [n EXCEPT !.socket = "open"] IN
  /\ client.op[login] = "connect"
  /\ \/ /\ client.socket = "connecting"
        /\ IF setting.ssl THEN Continue([open EXCEPT !.op[login] = "handshake"])
           ELSE \E g \in Greeting :
                  Continue(AsyncReadResponse([open EXCEPT !.response = g], login, "greeting"))
     \/ /\ client.endpoints > 0
        /\ Continue(AsyncConnect(n, client.endpoints - 1))
     \/ /\ client.endpoints = 0
        /\ ErrorConnecting([n EXCEPT !.socket = "closed"])

HandleAsyncHandshake ==
  /\ client.op[login] = "handshake"
  /\ \/ /\ client.socket = "open"
        /\ \E g \in Greeting :
             Continue(AsyncReadResponse([client EXCEPT !.response = g], login, "greeting"))
     \/ ErrorConnecting(client)

\* A read completes with a line, or fails when no more can come.
Receives(c) == client.op[c] \in Reading /\ client.response # <<>>
ReadFails(c) ==
  /\ client.op[c] \in Reading
  /\ client.response = <<>>
  /\ client.socket \in {"closed", "eof", "reset"}

\* ReadStatusResponse: 0 for a line that is no status.
Status(line) == IF line.is = "status" THEN line.code ELSE 0

\* The client after a line was consumed.
Consumed == [CancelTimeout(client) EXCEPT !.response = Tail(@)]

\* HandleReadConnectLine, HandleReadUserLine and HandleReadPassLine: the status
\* that was read was the one waited for, or how the login ends.
ReadLoginLine ==
  LET code == Status(Head(client.response))
      step == client.op[login] IN
  /\ Receives(login)
  /\ \/ code = 200 /\ step = "greeting" /\ ~ setting.password /\ End(Consumed, login, "OK")
     \/ code = 200 /\ step = "greeting" /\ setting.password
          /\ Continue(AsyncWriteRequest(Consumed, login))
     \/ code = 381 /\ step = "user" /\ Continue(AsyncReadResponse(Consumed, login, "pass"))
     \/ code = 281 /\ step = "pass" /\ End(Consumed, login, "OK")
     \/ code \in {0, 400} /\ End(Consumed, login, "ReconnectRetry")
     \/ code = 502 /\ step = "greeting" /\ End(Consumed, login, "Error")
     \/ code = 502 /\ step # "greeting" /\ End(Consumed, login, "DisconnectClient")

LoginReadFails == ReadFails(login) /\ ErrorConnecting(CancelTimeout(client))

\* The answers to  AUTHINFO USER  and  AUTHINFO PASS,  sent in one write.
LoginAnswers ==
  LET status(k) == [is |-> "status", code |-> k, of |-> login] IN
  {<<status(381), status(281)>>, <<status(381), status(502)>>, <<status(400)>>, <<status(502)>>}

\* The request of command c, with its answers, goes to the server; the end of a
\* connection the server closed answers it with a reset.
Sent(c, answers) ==
  IF client.socket = "open"
  THEN [client EXCEPT !.op[c] = "sent", !.response = @ \o answers]
  ELSE [client EXCEPT !.op[c] = "sent", !.socket = "reset"]

\* Writes go out in the order they were started in, and so run their handlers.
Writable(c) ==
  /\ client.socket \in {"open", "eof"}
  /\ \E i \in DOMAIN client.writing :
       /\ c = client.writing[i] /\ client.op[c] = "write"
       /\ \A j \in 1 .. i - 1 : client.op[client.writing[j]] = "sent"
WriteEnds(c) == client.writing # <<>> /\ c = Head(client.writing)
WriteFails(c) == WriteEnds(c) /\ client.op[c] = "write" /\ client.socket \in {"reset", "closed"}
AfterWrite == [CancelTimeout(client) EXCEPT !.writing = Tail(@)]

WriteLogin ==
  /\ Writable(login)
  /\ \E answers \in LoginAnswers : Continue(Sent(login, answers))

HandleLoginRequest ==
  \/ /\ WriteEnds(login) /\ client.op[login] = "sent"
     /\ Continue(AsyncReadResponse(AfterWrite, login, "user"))
  \/ WriteFails(login) /\ ErrorConnecting(AfterWrite)

-----------------------------------------------------------------------------
(* An article: NewsClientReadArticleStream.                                *)

\* HandleError: which error it was is the choice between the last two.
HandleError(n, c) ==
  \E code \in {"ReconnectRetry", "DisconnectClient", "Error"} :
    /\ n.timedOut => code = "ReconnectRetry"
    /\ ~ n.timedOut => (code = "DisconnectClient" <=> n.disconnecting)
    /\ End(n, c, code)

\* Run: without groups the article is not asked for.
RunGroupless(a) ==
  /\ client.life = "up" /\ HasCapacity(client)
  /\ article[a].state = "waiting"
  /\ a \in setting.groupless
  /\ End(client, a, "RetryOther")

\* GetArticleStream appends to m_request, which keeps what was not sent.
Run(a) ==
  /\ client.life = "up" /\ HasCapacity(client)
  /\ article[a].state = "waiting"
  /\ a \notin setting.groupless
  /\ client' = AsyncWriteRequest(client, a)
  /\ article' = [article EXCEPT ![a] = [state |-> "running", request |-> @.request + 1, got |-> <<>>]]
  /\ UNCHANGED <<setting, restarts, sentTwice, faults>>

\* The server's answer to  BODY <a>.
Answer(a) ==
  LET status(k) == [is |-> "status", code |-> k, of |-> a] IN
  IF a \in setting.absent THEN <<status(430)>>
  ELSE <<status(222), [is |-> "data", of |-> a], [is |-> "end", of |-> a]>>

\* The sequence s, n times.
Repeated(s, n) == [i \in 1 .. n * Len(s) |-> s[1 + ((i - 1) % Len(s))]]

\* Every BODY of m_request is sent, and answered.
WriteBody(a) ==
  /\ Writable(a)
  /\ client' = Sent(a, Repeated(Answer(a), article[a].request))
  /\ sentTwice' = IF article[a].request > 1 THEN sentTwice \cup {a} ELSE sentTwice
  /\ UNCHANGED <<setting, article, restarts, faults>>

\* HandleBodyResponse
HandleBodyResponse(a) ==
  \/ /\ WriteEnds(a) /\ client.op[a] = "sent"
     /\ client' = AsyncReadResponse(AfterWrite, a, "status")
     /\ article' = [article EXCEPT ![a].request = 0]
     /\ UNCHANGED <<setting, restarts, sentTwice, faults>>
  \/ WriteFails(a) /\ HandleError(AfterWrite, a)

\* Mutants: any article is taken for the one asked for, an error for a missing one.
Expected_any(line, a) == Status(line) = 222
Missing_any(line) == Status(line) >= 400

\* The status line is the one that announces article a.
Expected(line, a) == Status(line) = 222 /\ line.of = a

\* "no such article"
Missing(line) == Status(line) = 430

\* HandleBodyRequestBODYResponse
ReadStatus(a) ==
  LET line == Head(client.response) IN
  /\ client.op[a] = "status" /\ Receives(a)
  /\ \/ /\ Expected(line, a)
        /\ Continue(AsyncReadDataResponse(Consumed, a))
     \/ /\ Missing(line)
        /\ End(Consumed, a, "RetryOther")
     \/ /\ ~ Expected(line, a) /\ ~ Missing(line)
        /\ End(Consumed, a, "ReconnectRetry")

\* HandleReadBodyStream: any line but the last goes to OnData.
ReadData(a) ==
  LET line == Head(client.response) IN
  /\ client.op[a] = "data" /\ Receives(a)
  /\ \/ line.is = "end" /\ End(Consumed, a, "OK")
     \/ /\ line.is # "end"
        /\ client' = AsyncReadDataResponse(Consumed, a)
        /\ article' = [article EXCEPT ![a].got = Append(@, line)]
        /\ UNCHANGED <<setting, restarts, sentTwice, faults>>

BodyReadFails(a) == ReadFails(a) /\ HandleError(CancelTimeout(client), a)

-----------------------------------------------------------------------------
(* The timer, the dispatcher and the server.                               *)

TimerExpires ==
  /\ client.timer = "armed"
  /\ Continue([client EXCEPT !.timer = "expired"])

\* The handler of SetTimeout's wait, with CloseTimeout.
TimerFires ==
  LET n == [client EXCEPT !.timer = "off"] IN
  /\ client.timer = "expired"
  /\ \/ /\ client.disconnecting \/ client.timedOut
        /\ Continue(n)
     \/ /\ ~ client.disconnecting /\ ~ client.timedOut
        /\ \E arrived \in Arrived(n) : Continue(Disconnect([n EXCEPT !.timedOut = TRUE], arrived))

\* RemoveServer or Stop: AsyncDisconnectClients.
Disconnected ==
  /\ client.life = "up"
  /\ \E arrived \in Arrived(client) :
       Continue([Disconnect(client, arrived) EXCEPT !.life = "stopping"])

\* OnStopped, when the last handler of a client in the bin is over.
OnStopped ==
  /\ ~ Handles(client)
  /\ \/ client.life = "stopping" /\ Continue([client EXCEPT !.life = "stopped"])
     \/ /\ client.life = "restarting" /\ restarts < MaxRestarts
        /\ client' = NewClient
        /\ restarts' = restarts + 1
        /\ UNCHANGED <<setting, article, sentTwice, faults>>

\* The server ends the connection, perhaps with a last status.
ServerCloses ==
  /\ client.socket = "open" /\ faults < MaxFaults
  /\ \E arrived \in Arrived(client), how \in {"eof", "reset"},
        last \in {<<>>, <<[is |-> "status", code |-> 400, of |-> login]>>} :
       client' = [client EXCEPT !.socket = how, !.response = arrived \o last]
  /\ faults' = faults + 1
  /\ UNCHANGED <<setting, article, restarts, sentTwice>>

Login ==
  HandleResolve \/ HandleConnect \/ HandleAsyncHandshake \/ ReadLoginLine \/ LoginReadFails
    \/ WriteLogin \/ HandleLoginRequest

Body(a) == WriteBody(a) \/ HandleBodyResponse(a) \/ ReadStatus(a) \/ ReadData(a) \/ BodyReadFails(a)

Next ==
  \/ Login
  \/ \E a \in Article : RunGroupless(a) \/ Run(a) \/ Body(a)
  \/ TimerExpires \/ TimerFires \/ Disconnected \/ OnStopped \/ ServerCloses

Init ==
  /\ setting \in Setting
  /\ client = NewClient
  /\ article = [a \in Article |-> [state |-> "waiting", request |-> 0, got |-> <<>>]]
  /\ restarts = 0
  /\ sentTwice = {}
  /\ faults = 0

Spec == Init /\ [][Next]_vars

\* Once the socket is closed every handler runs.
Closed == client.socket = "closed"

\* The resolver and the connect call end by themselves, and the timer expires;
\* the server need not answer.
Fairness ==
  /\ WF_vars(HandleResolve) /\ WF_vars(HandleConnect)
  /\ WF_vars(TimerExpires) /\ WF_vars(TimerFires)
  /\ WF_vars(Closed /\ Login)
  /\ \A a \in Article : WF_vars(Closed /\ Body(a))

FairSpec == Spec /\ Fairness

-----------------------------------------------------------------------------
(* Properties.                                                             *)

\* The values of the variables.
TypeOK ==
  /\ setting \in Setting
  /\ client.life \in {"up", "restarting", "stopping", "stopped"}
  /\ client.op \in [Command -> Op]
  /\ client.active \subseteq Command /\ Cardinality(client.active) <= 1
  /\ client.timer \in {"off", "armed", "expired"}
  /\ client.socket \in {"closed", "connecting", "open", "eof", "reset"}
  /\ Range(client.response) \subseteq Line
  /\ client.endpoints \in {0, 1}
  /\ Range(client.pipeline) = {c \in Command : client.op[c] = "queued"}
  /\ Range(client.writing) = {c \in Command : client.op[c] \in {"write", "sent"}}
  /\ restarts \in 0 .. MaxRestarts
  /\ faults \in 0 .. MaxFaults

\* A command that ends while another one reads gives the connection to a third:
\* one whose write fails, with a pipeline of three, and one without groups.
\* Without them the commands of a connection do not disturb each other.
Orderly ==
  \/ setting.pipeline = 1
  \/ setting.pipeline = 2 /\ setting.groupless = {}

\* NewsClient::m_response is read by one command at a time.
OneReader == Orderly => Cardinality({c \in Command : client.op[c] \in Reading}) <= 1

\* An article that ended OK got its own lines and no others, whatever was left
\* on the connection by the commands before it.
RightArticle ==
  Orderly => \A a \in Article :
    article[a].state = "ok" => article[a].got = <<[is |-> "data", of |-> a]>>

\* An article is recorded as missing on a server that does not have it, unless
\* a BODY left in m_request by a failed write was sent with the next one: the
\* second answer is taken for that of the next command.
MissingIsMissing ==
  Orderly => \A a \in Article :
    article[a].state = "missing" =>
      a \in setting.absent \cup setting.groupless \/ sentTwice \cap setting.absent # {}

\* To its dispatcher the client is the one that NewsClientCache assumes.
Service == INSTANCE ClientService WITH
  running <- Busy(client),
  link <- IF client.timedOut THEN "timeout" ELSE IF client.disconnecting THEN "closed" ELSE "open",
  life <- client.life
ServiceSpec == Service!Spec

\* With one command at a time, every operation ends, even if the server never
\* answers again; except the SSL handshake, which has no timeout, and a login
\* that went on to connect after it was told to disconnect, whose timeout is
\* ignored.
Unguarded ==
  \/ setting.pipeline > 1
  \/ client.op[login] = "handshake"
  \/ client.disconnecting /\ client.socket # "closed"

CommandsEnd ==
  \A c \in Command : client.op[c] # "none" ~> client.op[c] = "none" \/ Unguarded
=============================================================================
