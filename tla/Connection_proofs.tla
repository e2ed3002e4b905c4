--------------------------- MODULE Connection_proofs ---------------------------
(***************************************************************************)
(* What holds of a connection for any articles, servers, pipelines, faults *)
(* and restarts: it is the client that the dispatcher assumes, and, where  *)
(* its commands do not disturb each other, one command reads at a time and *)
(* gets its own article.                                                   *)
(***************************************************************************)
EXTENDS Connection, SequenceTheorems, FiniteSetTheorems, TLAPS

-----------------------------------------------------------------------------
(* The inductive invariant, on the value of a NewsClient.                  *)

ClientRec ==
  [life : {"up", "restarting", "stopping", "stopped"},
   op : [Command -> Op],
   active : SUBSET Command,
   pipeline : Seq(Command),
   writing : Seq(Command),
   timer : {"off", "armed", "expired"},
   timedOut : BOOLEAN,
   disconnecting : BOOLEAN,
   canceled : BOOLEAN,
   socket : {"closed", "connecting", "open", "eof", "reset"},
   endpoints : {0, 1},
   response : Seq(Line)]

\* The members of C that are in the sequence q, each once.
Lists(q, C) ==
  /\ \A i \in DOMAIN q : q[i] \in C
  /\ \A c \in C : \E i \in DOMAIN q : q[i] = c
  /\ \A i, j \in DOMAIN q : q[i] = q[j] => i = j

\* The commands other than c are in the queues that their operations say, the
\* active one reads, and the login has the connection for itself.
FitsBut(n, c) ==
  /\ n \in ClientRec
  /\ Lists(n.pipeline, {d \in Command \ {c} : n.op[d] = "queued"})
  /\ Lists(n.writing, {d \in Command \ {c} : n.op[d] \in {"write", "sent"}})
  /\ \A d \in n.active \ {c} : d # login /\ n.op[d] \in {"status", "data"}
  /\ \A d, e \in n.active : d = e
  /\ IF c = login THEN \A d \in Article : n.op[d] = "none" ELSE n.op[login] = "none"
  /\ \A d \in Article \ {c} : n.op[d] \in {"none", "write", "sent", "queued", "status", "data"}

LoginOp == {"none", "resolve", "connect", "handshake", "write", "sent", "greeting", "user", "pass"}
ArticleOp == {"none", "write", "sent", "queued", "status", "data"}

\* The login has the connection for itself; a command that waits for its turn
\* waits for one that reads.
Fits(n) ==
  /\ n \in ClientRec
  /\ Lists(n.pipeline, {d \in Command : n.op[d] = "queued"})
  /\ Lists(n.writing, {d \in Command : n.op[d] \in {"write", "sent"}})
  /\ \A d, e \in n.active : d = e
  /\ n.op[login] \in LoginOp
  /\ \A d \in Article : n.op[d] \in ArticleOp
  /\ n.op[login] # "none" => \A d \in Article : n.op[d] = "none"
  /\ login \in n.active => n.op[login] # "none"
  /\ \A d \in Article : d \in n.active => n.op[d] \in {"status", "data"}
  /\ n.pipeline # <<>> => n.active # {}

\* The socket of a client that works is open, unless it was disconnected.
SocketOK(n) ==
  /\ n.timedOut => n.disconnecting
  /\ n.life = "up" /\ n.socket = "closed" => n.disconnecting \/ n.op[login] = "resolve"

ArticleRec ==
  [state : {"waiting", "running", "ok", "missing", "failed", "dropped"},
   request : Nat,
   got : Seq(Line)]

ServiceInv ==
  /\ setting \in Setting
  /\ Fits(client)
  /\ SocketOK(client)
  /\ article \in [Article -> ArticleRec]
  /\ \A a \in Article : article[a].state = "running" <=> client.op[a] # "none"

-----------------------------------------------------------------------------
(* Queues.                                                                 *)

LEMMA EmptyLists ==
  ASSUME NEW C, NEW q
  PROVE  /\ C = {} => Lists(<<>>, C)
         /\ Lists(<<>>, C) => C = {}
         /\ q \in Seq(Command) /\ Lists(q, {}) => q = <<>>
BY DEF Lists

LEMMA AppendLists ==
  ASSUME NEW C, NEW q \in Seq(Command), NEW c \in Command, Lists(q, C), c \notin C
  PROVE  Append(q, c) \in Seq(Command) /\ Lists(Append(q, c), C \cup {c})
<1> DEFINE r == Append(q, c)
<1>1. /\ r \in Seq(Command) /\ Len(q) \in Nat /\ DOMAIN q = 1 .. Len(q)
      /\ DOMAIN r = 1 .. Len(q) + 1
      /\ r[Len(q) + 1] = c /\ \A i \in 1 .. Len(q) : r[i] = q[i]
  OBVIOUS
<1> HIDE DEF r
<1>2. \A i \in DOMAIN r : i = Len(q) + 1 \/ i \in DOMAIN q
  BY <1>1
<1>3. \A i \in DOMAIN q : i \in DOMAIN r /\ i # Len(q) + 1 /\ r[i] = q[i]
  BY <1>1
<1>4. Len(q) + 1 \in DOMAIN r
  BY <1>1
<1>5. \A i \in DOMAIN r : r[i] \in C \cup {c}
  BY <1>1, <1>2, <1>3 DEF Lists
<1>6. \A d \in C \cup {c} : \E i \in DOMAIN r : r[i] = d
  BY <1>1, <1>3, <1>4 DEF Lists
<1>7. \A i, j \in DOMAIN r : r[i] = r[j] => i = j
  BY <1>1, <1>2, <1>3 DEF Lists
<1>8. QED
  BY <1>1, <1>5, <1>6, <1>7 DEF Lists, r

LEMMA TailLists ==
  ASSUME NEW C, NEW q \in Seq(Command), Lists(q, C), q # <<>>
  PROVE  /\ Head(q) \in C /\ Head(q) \in Command
         /\ Tail(q) \in Seq(Command) /\ Lists(Tail(q), C \ {Head(q)})
<1> DEFINE r == Tail(q)
<1>1. /\ r \in Seq(Command) /\ Len(q) \in Nat /\ Len(q) > 0 /\ DOMAIN q = 1 .. Len(q)
      /\ DOMAIN r = 1 .. Len(q) - 1
      /\ Head(q) = q[1] /\ \A i \in 1 .. Len(q) - 1 : r[i] = q[i + 1]
  BY EmptySeq
<1> HIDE DEF r
<1>2. 1 \in DOMAIN q
  BY <1>1
<1>3. \A i \in DOMAIN r : i + 1 \in DOMAIN q /\ i + 1 # 1 /\ r[i] = q[i + 1]
  BY <1>1
<1>4. \A i \in DOMAIN q : i # 1 => i - 1 \in DOMAIN r /\ r[i - 1] = q[i]
  BY <1>1
<1>5. Head(q) \in C
  BY <1>1, <1>2 DEF Lists
<1>6. \A i \in DOMAIN r : r[i] \in C \ {Head(q)}
  BY <1>1, <1>2, <1>3 DEF Lists
<1>7. \A d \in C \ {Head(q)} : \E i \in DOMAIN r : r[i] = d
  BY <1>1, <1>4 DEF Lists
<1>8. \A i, j \in DOMAIN r : r[i] = r[j] => i = j
  <2> SUFFICES ASSUME NEW i \in DOMAIN r, NEW j \in DOMAIN r, r[i] = r[j] PROVE i = j
    OBVIOUS
  <2>1. i + 1 = j + 1
    BY <1>3 DEF Lists
  <2>2. QED
    BY <1>1, <2>1
<1>9. QED
  BY <1>1, <1>2, <1>5, <1>6, <1>7, <1>8 DEF Lists, r

LEMMA SameLists ==
  ASSUME NEW C, NEW D, NEW q, Lists(q, C), C = D
  PROVE  Lists(q, D)
OBVIOUS

-----------------------------------------------------------------------------
(* What the members of NewsClient do.                                      *)

\* How m comes from n when c is to read, to write, or when the socket is closed.
Reads(m, n, c, what) ==
  /\ m \in ClientRec
  /\ m.op = [n.op EXCEPT ![c] = IF n.active \subseteq {c} THEN what ELSE "queued"]
  /\ m.active = (IF n.active \subseteq {c} THEN {c} ELSE n.active)
  /\ m.pipeline = (IF n.active \subseteq {c} THEN n.pipeline ELSE Append(n.pipeline, c))
  /\ m.writing = n.writing /\ m.life = n.life /\ m.socket = n.socket
  /\ m.timedOut = n.timedOut /\ m.disconnecting = n.disconnecting
  /\ m.response = n.response

Writes(m, n, c) ==
  /\ m \in ClientRec
  /\ m.op = [n.op EXCEPT ![c] = "write"]
  /\ m.writing = Append(n.writing, c)
  /\ m.active = n.active /\ m.pipeline = n.pipeline /\ m.life = n.life
  /\ m.socket = n.socket /\ m.timedOut = n.timedOut /\ m.disconnecting = n.disconnecting
  /\ m.response = n.response

Quiet(m, n) ==
  /\ m \in ClientRec
  /\ m.op = n.op /\ m.active = n.active /\ m.pipeline = n.pipeline
  /\ m.writing = n.writing /\ m.life = n.life /\ m.socket = n.socket
  /\ m.timedOut = n.timedOut /\ m.disconnecting = n.disconnecting
  /\ m.response = n.response /\ m.canceled = n.canceled

Closes(m, n, arrived) ==
  /\ m \in ClientRec
  /\ m.op = n.op /\ m.active = n.active /\ m.pipeline = n.pipeline
  /\ m.writing = n.writing /\ m.life = n.life /\ m.socket = "closed"
  /\ m.timedOut = n.timedOut /\ m.disconnecting = TRUE
  /\ m.response = arrived

LEMMA ReadResponseEffect ==
  ASSUME NEW n \in ClientRec, NEW c \in Command, NEW what \in Reading
  PROVE  Reads(AsyncReadResponse(n, c, what), n, c, what)
<1> DEFINE m == AsyncReadResponse(n, c, what)
<1>1. what \in Op /\ "queued" \in Op
  BY DEF Op, Reading
<1>2. CASE n.active \subseteq {c}
  <2> DEFINE op == [n.op EXCEPT ![c] = what]
  <2>1. m = [n EXCEPT !.op = op, !.active = {c}, !.timer = "armed"]
    BY <1>2 DEF AsyncReadResponse, SetTimeout, ClientRec
  <2> HIDE DEF m
  <2>2. op \in [Command -> Op] /\ {c} \in SUBSET Command
    BY <1>1 DEF ClientRec
  <2>3. op = [n.op EXCEPT ![c] = IF n.active \subseteq {c} THEN what ELSE "queued"]
    BY <1>2
  <2> HIDE DEF op
  <2>4. /\ m \in ClientRec /\ m.op = op /\ m.active = {c} /\ m.pipeline = n.pipeline
        /\ m.writing = n.writing /\ m.life = n.life /\ m.socket = n.socket
        /\ m.timedOut = n.timedOut /\ m.disconnecting = n.disconnecting
        /\ m.response = n.response
    BY <2>1, <2>2 DEF ClientRec
  <2>5. QED
    BY <1>2, <2>3, <2>4 DEF Reads, m
<1>3. CASE ~ (n.active \subseteq {c})
  <2> DEFINE op == [n.op EXCEPT ![c] = "queued"]
             pipeline == Append(n.pipeline, c)
  <2>1. m = [n EXCEPT !.op = op, !.pipeline = pipeline]
    BY <1>3 DEF AsyncReadResponse, ClientRec
  <2> HIDE DEF m
  <2>2. op \in [Command -> Op] /\ pipeline \in Seq(Command)
    BY <1>1 DEF ClientRec
  <2>3. op = [n.op EXCEPT ![c] = IF n.active \subseteq {c} THEN what ELSE "queued"]
    BY <1>3
  <2> HIDE DEF op, pipeline
  <2>4. /\ m \in ClientRec /\ m.op = op /\ m.active = n.active /\ m.pipeline = pipeline
        /\ m.writing = n.writing /\ m.life = n.life /\ m.socket = n.socket
        /\ m.timedOut = n.timedOut /\ m.disconnecting = n.disconnecting
        /\ m.response = n.response
    BY <2>1, <2>2 DEF ClientRec
  <2>5. QED
    BY <1>3, <2>3, <2>4 DEF pipeline, Reads, m
<1>4. QED
  BY <1>2, <1>3

LEMMA WriteRequestEffect ==
  ASSUME NEW n \in ClientRec, NEW c \in Command
  PROVE  Writes(AsyncWriteRequest(n, c), n, c)
<1> DEFINE m == AsyncWriteRequest(n, c)
<1>1. "write" \in Op
  BY DEF Op
<1> DEFINE op == [n.op EXCEPT ![c] = "write"]
           writing == Append(n.writing, c)
<1>2. m = [n EXCEPT !.op = op, !.writing = writing, !.timer = "armed"]
  BY DEF AsyncWriteRequest, SetTimeout, ClientRec
<1> HIDE DEF m
<1>3. op \in [Command -> Op] /\ writing \in Seq(Command)
  BY <1>1 DEF ClientRec
<1> HIDE DEF op, writing
<1>4. /\ m \in ClientRec /\ m.op = op /\ m.writing = writing
      /\ m.active = n.active /\ m.pipeline = n.pipeline /\ m.life = n.life
      /\ m.socket = n.socket /\ m.timedOut = n.timedOut /\ m.disconnecting = n.disconnecting
      /\ m.response = n.response
  BY <1>2, <1>3 DEF ClientRec
<1>5. QED
  BY <1>4 DEF op, writing, Writes, m

LEMMA CancelTimeoutEffect ==
  ASSUME NEW n \in ClientRec
  PROVE  Quiet(CancelTimeout(n), n)
<1> DEFINE m == CancelTimeout(n)
<1>1. m = [n EXCEPT !.timer = IF n.timer = "armed" THEN "off" ELSE n.timer]
  BY DEF CancelTimeout, ClientRec
<1> HIDE DEF m
<1>2. Quiet(m, n)
  BY <1>1 DEF ClientRec, Quiet
<1>3. QED
  BY <1>2 DEF m

LEMMA DisconnectEffect ==
  ASSUME NEW n \in ClientRec, NEW arrived \in Seq(Line)
  PROVE  Closes(Disconnect(n, arrived), n, arrived)
<1> DEFINE m == Disconnect(n, arrived)
<1>1. m = [n EXCEPT !.disconnecting = TRUE, !.canceled = n.canceled \/ login \in n.active,
                    !.socket = "closed", !.response = arrived]
  BY DEF Disconnect, ClientRec
<1>2. (n.canceled \/ login \in n.active) \in BOOLEAN
  OBVIOUS
<1> HIDE DEF m
<1>3. Closes(m, n, arrived)
  BY <1>1, <1>2 DEF ClientRec, Closes
<1>4. QED
  BY <1>3 DEF m

Code == {"OK", "Error", "RetryOther", "ReconnectRetry", "DisconnectClient"}

\* The operations when the commands that end with c are over, and where the
\* client goes from the connections that work.
Ended(n, c, code) == [d \in Command |-> IF d \in Ending(n, c, code) THEN "none" ELSE n.op[d]]
Leaving(n, code) ==
  IF n.life # "up" THEN n.life
  ELSE IF code = "DisconnectClient" THEN "stopping"
  ELSE IF code = "ReconnectRetry" \/ (code = "OK" /\ n.socket = "closed") THEN "restarting"
  ELSE "up"

\* How m comes from n when c ends with the code.
Ends(m, n, c, code, arrived) ==
  /\ m \in ClientRec
  /\ m.writing = n.writing /\ m.timedOut = n.timedOut /\ m.life = Leaving(n, code)
  /\ IF code = "DisconnectClient"
     THEN m.disconnecting = TRUE /\ m.socket = "closed" /\ m.response = arrived
     ELSE /\ m.disconnecting = n.disconnecting /\ m.socket = n.socket
          /\ m.response = n.response
  /\ IF code \in {"DisconnectClient", "ReconnectRetry"} \/ n.pipeline = <<>>
     THEN m.op = Ended(n, c, code) /\ m.active = {} /\ m.pipeline = <<>>
     ELSE /\ m.op = [Ended(n, c, code) EXCEPT ![Head(n.pipeline)] = "status"]
          /\ m.active = {Head(n.pipeline)} /\ m.pipeline = Tail(n.pipeline)

LEMMA OnDoneEffect ==
  ASSUME NEW n \in ClientRec, NEW c \in Command, NEW code \in Code, NEW arrived \in Seq(Line)
  PROVE  Ends(OnDone(n, c, code, arrived), n, c, code, arrived)
<1> DEFINE m == OnDone(n, c, code, arrived)
<1> DEFINE life == Leaving(n, code)
           op == Ended(n, c, code)
           quiet == CancelTimeout(n)
           done == [quiet EXCEPT !.active = {}, !.op = op, !.life = life]
<1>1. /\ quiet \in ClientRec
      /\ quiet.op = n.op /\ quiet.active = n.active /\ quiet.pipeline = n.pipeline
      /\ quiet.writing = n.writing /\ quiet.life = n.life /\ quiet.socket = n.socket
      /\ quiet.timedOut = n.timedOut /\ quiet.disconnecting = n.disconnecting
      /\ quiet.response = n.response
  BY CancelTimeoutEffect DEF Quiet
<1>2. op \in [Command -> Op] /\ life \in {"up", "restarting", "stopping", "stopped"}
  <2>1. "none" \in Op /\ n.op \in [Command -> Op] /\ n.life \in {"up", "restarting", "stopping", "stopped"}
    BY DEF Op, ClientRec
  <2>2. op \in [Command -> Op]
    BY <2>1 DEF Ended
  <2>3. QED
    BY <2>1, <2>2 DEF Leaving
<1>3. m = IF code = "DisconnectClient" THEN [Disconnect(done, arrived) EXCEPT !.pipeline = <<>>]
          ELSE IF code = "ReconnectRetry" THEN [done EXCEPT !.pipeline = <<>>]
          ELSE IF n.pipeline = <<>> THEN done
          ELSE AsyncReadResponse([done EXCEPT !.pipeline = Tail(n.pipeline)],
                                 Head(n.pipeline), "status")
  <2> DEFINE leaving == CASE code = "DisconnectClient" -> "stopping"
                          [] code = "ReconnectRetry" \/ (code = "OK" /\ ~ IsConnected(n)) -> "restarting"
                          [] OTHER -> n.life
             ops == [d \in Command |-> IF d \in Ending(n, c, code) THEN "none" ELSE CancelTimeout(n).op[d]]
             idle == [CancelTimeout(n) EXCEPT !.active = {}, !.op = ops]
             left == [idle EXCEPT !.life = IF idle.life = "up" THEN leaving ELSE idle.life]
  <2>1. m = IF code = "DisconnectClient" THEN [Disconnect(left, arrived) EXCEPT !.pipeline = <<>>]
            ELSE IF code = "ReconnectRetry" THEN [left EXCEPT !.pipeline = <<>>]
            ELSE IF n.pipeline = <<>> THEN left
            ELSE AsyncReadResponse([left EXCEPT !.pipeline = Tail(left.pipeline)],
                                   Head(n.pipeline), "status")
    <3> HIDE DEF life, op, quiet
    <3>1. QED
      BY Zenon DEF OnDone
  <2>2. ops = op
    BY <1>1 DEF Ended
  <2>3. life = IF n.life = "up" THEN leaving ELSE n.life
    BY DEF Leaving, IsConnected, Code
  <2>4. idle = [quiet EXCEPT !.active = {}, !.op = op]
    BY <2>2
  <2> HIDE DEF life, op, quiet, leaving, ops, idle, m
  <2>5. idle.life = n.life
    BY <1>1, <2>4 DEF ClientRec
  <2>6. left = done
    BY <1>1, <1>2, <2>3, <2>4, <2>5 DEF ClientRec
  <2>7. left.pipeline = n.pipeline
    <3>1. done.pipeline = n.pipeline
      BY <1>1, <1>2 DEF ClientRec
    <3>2. QED
      BY <2>6, <3>1
  <2> HIDE DEF done, left
  <2>8. QED
    BY <2>1, <2>6, <2>7
<1> HIDE DEF life, op, quiet, m
<1>4. /\ done \in ClientRec /\ done.op = op /\ done.active = {} /\ done.life = life
      /\ done.pipeline = n.pipeline /\ done.writing = n.writing /\ done.socket = n.socket
      /\ done.timedOut = n.timedOut /\ done.disconnecting = n.disconnecting
      /\ done.response = n.response
  BY <1>1, <1>2 DEF ClientRec
<1> HIDE DEF done
<1>5. n.pipeline \in Seq(Command) /\ <<>> \in Seq(Command)
  BY DEF ClientRec
<1>6. done \in ClientRec
  BY <1>4
<1>7. CASE code = "DisconnectClient"
  <2> DEFINE gone == Disconnect(done, arrived)
  <2>1. m = [gone EXCEPT !.pipeline = <<>>]
    BY <1>3, <1>7
  <2>2. Closes(gone, done, arrived)
    BY <1>6, DisconnectEffect
  <2> HIDE DEF gone
  <2>3. /\ m \in ClientRec /\ m.op = gone.op /\ m.active = gone.active /\ m.life = gone.life
        /\ m.pipeline = <<>> /\ m.writing = gone.writing /\ m.socket = gone.socket
        /\ m.timedOut = gone.timedOut /\ m.disconnecting = gone.disconnecting
        /\ m.response = gone.response
    BY <1>5, <2>1, <2>2 DEF ClientRec, Closes
  <2>4. QED
    BY <1>4, <1>7, <2>2, <2>3 DEF op, life, Closes, Ends, m
<1>8. CASE code = "ReconnectRetry"
  <2>1. m = [done EXCEPT !.pipeline = <<>>]
    BY <1>3, <1>8
  <2>2. /\ m \in ClientRec /\ m.op = done.op /\ m.active = done.active /\ m.life = done.life
        /\ m.pipeline = <<>> /\ m.writing = done.writing /\ m.socket = done.socket
        /\ m.timedOut = done.timedOut /\ m.disconnecting = done.disconnecting
        /\ m.response = done.response
    BY <1>5, <1>6, <2>1 DEF ClientRec
  <2>3. QED
    BY <1>4, <1>8, <2>2 DEF op, life, Ends, m
<1>9. CASE code \notin {"DisconnectClient", "ReconnectRetry"} /\ n.pipeline = <<>>
  <2>1. m = done
    BY <1>3, <1>9
  <2>2. QED
    BY <1>4, <1>9, <2>1 DEF op, life, Ends, m
<1>10. CASE code \notin {"DisconnectClient", "ReconnectRetry"} /\ n.pipeline # <<>>
  <2> DEFINE k == [done EXCEPT !.pipeline = Tail(n.pipeline)]
             h == Head(n.pipeline)
  <2>1. m = AsyncReadResponse(k, h, "status")
    BY <1>3, <1>10
  <2>2. Tail(n.pipeline) \in Seq(Command) /\ h \in Command
    BY <1>5, <1>10, HeadTailProperties
  <2>3. /\ k \in ClientRec /\ k.op = done.op /\ k.active = done.active /\ k.life = done.life
        /\ k.pipeline = Tail(n.pipeline) /\ k.writing = done.writing /\ k.socket = done.socket
        /\ k.timedOut = done.timedOut /\ k.disconnecting = done.disconnecting
        /\ k.response = done.response
    BY <1>4, <2>2 DEF ClientRec
  <2> HIDE DEF k, h
  <2>4. "status" \in Reading /\ k.active \subseteq {h}
    BY <1>4, <2>3 DEF Reading
  <2>5. Reads(m, k, h, "status")
    <3>1. k \in ClientRec /\ h \in Command /\ "status" \in Reading
      BY <2>2, <2>3, <2>4
    <3>2. QED
      BY <2>1, <3>1, ReadResponseEffect
  <2>6. /\ m.op = [op EXCEPT ![h] = "status"] /\ m.active = {h} /\ m.pipeline = Tail(n.pipeline)
    BY <1>4, <2>3, <2>4, <2>5 DEF Reads
  <2>7. QED
    BY <1>4, <1>10, <2>3, <2>5, <2>6 DEF op, life, h, Reads, Ends, m
<1>11. QED
  BY <1>7, <1>8, <1>9, <1>10

-----------------------------------------------------------------------------
(* Fits is kept.                                                           *)

\* A command that is in no queue can be set aside.
LEMMA FitsAside ==
  ASSUME NEW n, Fits(n), NEW c \in Command, n.op[c] \notin {"write", "sent", "queued"},
         n.op[login] # "none" <=> c = login
  PROVE  FitsBut(n, c)
<1>1. /\ n \in ClientRec /\ login \in Command /\ Article \subseteq Command
      /\ Command = Article \cup {login}
  BY DEF Fits, Command
<1>2. Lists(n.pipeline, {d \in Command \ {c} : n.op[d] = "queued"})
  <2>1. {d \in Command \ {c} : n.op[d] = "queued"} = {d \in Command : n.op[d] = "queued"}
    OBVIOUS
  <2>2. QED
    BY <2>1 DEF Fits
<1>3. Lists(n.writing, {d \in Command \ {c} : n.op[d] \in {"write", "sent"}})
  <2>1. {d \in Command \ {c} : n.op[d] \in {"write", "sent"}}
          = {d \in Command : n.op[d] \in {"write", "sent"}}
    OBVIOUS
  <2>2. QED
    BY <2>1 DEF Fits
<1>4. \A d \in n.active \ {c} : d # login /\ n.op[d] \in {"status", "data"}
  <2> SUFFICES ASSUME NEW d \in n.active \ {c} PROVE d # login /\ n.op[d] \in {"status", "data"}
    OBVIOUS
  <2>1. d \in Command
    BY <1>1 DEF ClientRec
  <2>2. d # login
    BY DEF Fits
  <2>3. QED
    BY <1>1, <2>1, <2>2 DEF Fits
<1>5. QED
  BY <1>1, <1>2, <1>3, <1>4 DEF Fits, FitsBut, ArticleOp

\* So can the one whose write is over, out of the queue of writes.
LEMMA FitsAfterWrite ==
  ASSUME NEW n, NEW k, Fits(k), k.writing # <<>>, NEW c, c = Head(k.writing),
         n \in ClientRec, n.op = k.op, n.active = k.active, n.pipeline = k.pipeline,
         n.writing = Tail(k.writing)
  PROVE  FitsBut(n, c) /\ c \in Command /\ k.op[c] \in {"write", "sent"}
<1>1. /\ k \in ClientRec /\ login \in Command /\ Article \subseteq Command
      /\ Command = Article \cup {login} /\ k.writing \in Seq(Command)
  BY DEF Fits, Command, ClientRec
<1> DEFINE W == {d \in Command : k.op[d] \in {"write", "sent"}}
<1>2. Lists(k.writing, W)
  BY DEF Fits
<1>3. c \in W /\ Lists(Tail(k.writing), W \ {c})
  BY <1>1, <1>2, TailLists
<1>4. Lists(n.writing, {d \in Command \ {c} : n.op[d] \in {"write", "sent"}})
  <2>1. {d \in Command \ {c} : n.op[d] \in {"write", "sent"}} = W \ {c}
    OBVIOUS
  <2>2. QED
    BY <1>3, <2>1
<1>5. Lists(n.pipeline, {d \in Command \ {c} : n.op[d] = "queued"})
  <2>1. {d \in Command \ {c} : n.op[d] = "queued"} = {d \in Command : k.op[d] = "queued"}
    BY <1>3
  <2>2. QED
    BY <2>1 DEF Fits
<1>6. k.op[login] # "none" <=> c = login
  <2>1. CASE c = login
    BY <1>3, <2>1
  <2>2. CASE c # login
    BY <1>1, <1>3, <2>2 DEF Fits
  <2>3. QED
    BY <2>1, <2>2
<1>7. \A d \in n.active \ {c} : d # login /\ n.op[d] \in {"status", "data"}
  <2> SUFFICES ASSUME NEW d \in n.active \ {c} PROVE d # login /\ n.op[d] \in {"status", "data"}
    OBVIOUS
  <2>1. d \in Command
    BY <1>1 DEF ClientRec
  <2>2. d # login
    BY <1>6 DEF Fits
  <2>3. QED
    BY <1>1, <2>1, <2>2 DEF Fits
<1>8. QED
  BY <1>1, <1>3, <1>4, <1>5, <1>6, <1>7 DEF Fits, FitsBut, ArticleOp

\* A command that ends leaves the others in order, and one of them may read next.
LEMMA FitsEnds ==
  ASSUME NEW n, NEW c \in Command, FitsBut(n, c), NEW code \in Code, NEW arrived \in Seq(Line),
         NEW m, Ends(m, n, c, code, arrived)
  PROVE  /\ Fits(m)
         /\ Ending(n, c, code) \subseteq {c} \cup {d \in Article : n.op[d] = "queued"}
         /\ \A d \in Command : m.op[d] # "none" <=> n.op[d] # "none" /\ d \notin Ending(n, c, code)
<1> DEFINE Q == {d \in Command \ {c} : n.op[d] = "queued"}
           W == {d \in Command \ {c} : n.op[d] \in {"write", "sent"}}
           fatal == code \in {"DisconnectClient", "ReconnectRetry"}
<1>1. /\ n \in ClientRec /\ m \in ClientRec /\ login \in Command /\ Article \subseteq Command
      /\ Command = Article \cup {login} /\ n.pipeline \in Seq(Command)
      /\ n.op \in [Command -> Op] /\ m.op \in [Command -> Op]
  BY DEF FitsBut, Ends, Command, ClientRec
<1>2. Lists(n.pipeline, Q) /\ Lists(n.writing, W) /\ m.writing = n.writing
  BY DEF FitsBut, Ends
<1>3. Q \subseteq Article
  BY <1>1 DEF FitsBut
<1>4. Range(n.pipeline) = Q
  BY <1>2 DEF Lists, Range
<1>5. Ending(n, c, code) = {c} \cup IF fatal THEN Q ELSE {}
  BY <1>4 DEF Ending
<1>6. \A d \in Command : Ended(n, c, code)[d] = IF d = c \/ (fatal /\ d \in Q) THEN "none" ELSE n.op[d]
  BY <1>5 DEF Ended
<1> HIDE DEF fatal, Q, W
<1>7. \A d \in Command \ {c} : d \in Q <=> n.op[d] = "queued"
  BY DEF Q
<1>8. \A d \in Command \ {c} : d \in W <=> n.op[d] \in {"write", "sent"}
  BY DEF W
<1>9. Q \subseteq Command \ {c} /\ W \subseteq Command \ {c}
  BY DEF Q, W
<1>10. \A d \in Article \ {c} : n.op[d] \in {"none", "write", "sent", "queued", "status", "data"}
  BY DEF FitsBut
<1>11. c # login => n.op[login] = "none"
  BY DEF FitsBut
<1>12. c = login => \A d \in Article : n.op[d] = "none"
  BY DEF FitsBut
<1>13. CASE fatal \/ n.pipeline = <<>>
  <2>1. m.op = Ended(n, c, code) /\ m.active = {} /\ m.pipeline = <<>>
    BY <1>13 DEF Ends, fatal
  <2>2. ~ fatal => Q = {}
    BY <1>2, <1>13, EmptyLists
  <2>3. \A d \in Command : m.op[d] = IF d = c \/ d \in Q THEN "none" ELSE n.op[d]
    BY <1>6, <2>1, <2>2
  <2>4. {d \in Command : m.op[d] = "queued"} = {}
    BY <1>7, <2>3
  <2>5. {d \in Command : m.op[d] \in {"write", "sent"}} = W
    BY <1>7, <1>8, <1>9, <2>3
  <2>6. Lists(m.pipeline, {d \in Command : m.op[d] = "queued"})
    BY <2>1, <2>4, EmptyLists
  <2>7. Lists(m.writing, {d \in Command : m.op[d] \in {"write", "sent"}})
    BY <1>2, <2>5
  <2>8. m.op[login] = "none"
    BY <1>1, <1>11, <2>3
  <2>9. \A d \in Article : m.op[d] \in ArticleOp
    BY <1>1, <1>10, <2>3 DEF ArticleOp
  <2>10. Fits(m)
    BY <1>1, <2>1, <2>6, <2>7, <2>8, <2>9 DEF Fits, LoginOp
  <2>11. \A d \in Command : m.op[d] # "none" <=> n.op[d] # "none" /\ d \notin Ending(n, c, code)
    BY <1>5, <2>2, <2>3
  <2>12. QED
    BY <1>3, <1>5, <1>7, <1>9, <2>10, <2>11
<1>14. CASE ~ fatal /\ n.pipeline # <<>>
  <2> DEFINE h == Head(n.pipeline)
  <2>1. m.op = [Ended(n, c, code) EXCEPT ![h] = "status"] /\ m.active = {h} /\ m.pipeline = Tail(n.pipeline)
    BY <1>14 DEF Ends, fatal
  <2>2. h \in Q /\ h \in Command /\ Lists(Tail(n.pipeline), Q \ {h})
    BY <1>1, <1>2, <1>14, TailLists
  <2> HIDE DEF h
  <2>3. \A d \in Command : m.op[d] = IF d = c THEN "none" ELSE IF d = h THEN "status" ELSE n.op[d]
    <3>1. DOMAIN Ended(n, c, code) = Command
      BY DEF Ended
    <3>2. h # c
      BY <1>9, <2>2
    <3>3. QED
      BY <1>6, <1>14, <2>1, <2>2, <3>1, <3>2
  <2>4. {d \in Command : m.op[d] = "queued"} = Q \ {h}
    BY <1>7, <1>9, <2>2, <2>3
  <2>5. {d \in Command : m.op[d] \in {"write", "sent"}} = W
    <3>1. h \notin W
      BY <1>7, <1>8, <1>9, <2>2
    <3>2. QED
      BY <1>8, <1>9, <2>3, <3>1
  <2>6. Lists(m.pipeline, {d \in Command : m.op[d] = "queued"})
    BY <2>1, <2>2, <2>4
  <2>7. Lists(m.writing, {d \in Command : m.op[d] \in {"write", "sent"}})
    BY <1>2, <2>5
  <2>8. m.op[login] = "none" /\ h \in Article /\ h # login
    <3>1. h # login
      BY <1>1, <1>7, <1>9, <1>11, <2>2
    <3>2. QED
      BY <1>1, <1>3, <1>11, <2>2, <2>3, <3>1
  <2>9. \A d \in Article : m.op[d] \in ArticleOp
    BY <1>1, <1>10, <2>3 DEF ArticleOp
  <2>10. Fits(m)
    BY <1>1, <2>1, <2>2, <2>3, <1>9, <2>6, <2>7, <2>8, <2>9 DEF Fits, LoginOp
  <2>11. \A d \in Command : m.op[d] # "none" <=> n.op[d] # "none" /\ d \notin Ending(n, c, code)
    <3>1. n.op[h] = "queued" /\ h # c
      BY <1>7, <1>9, <2>2
    <3>2. QED
      BY <1>5, <1>14, <2>3, <3>1
  <2>12. QED
    BY <1>3, <1>5, <1>7, <1>9, <2>10, <2>11
<1>15. QED
  BY <1>13, <1>14

\* A command that was set aside reads, or waits behind the one that does.
LEMMA FitsReads ==
  ASSUME NEW n, NEW c \in Command, FitsBut(n, c), NEW what \in Reading,
         IF c = login THEN what \in LoginOp ELSE what \in ArticleOp,
         NEW m, Reads(m, n, c, what)
  PROVE  /\ Fits(m)
         /\ \A d \in Command : m.op[d] # "none" <=> d = c \/ n.op[d] # "none"
<1> DEFINE Q == {d \in Command \ {c} : n.op[d] = "queued"}
           W == {d \in Command \ {c} : n.op[d] \in {"write", "sent"}}
<1>1. /\ n \in ClientRec /\ m \in ClientRec /\ login \in Command /\ Article \subseteq Command
      /\ Command = Article \cup {login} /\ n.pipeline \in Seq(Command)
      /\ n.op \in [Command -> Op] /\ m.op \in [Command -> Op] /\ n.active \subseteq Command
  BY DEF FitsBut, Reads, Command, ClientRec
<1>2. Lists(n.pipeline, Q) /\ Lists(n.writing, W) /\ m.writing = n.writing
  BY DEF FitsBut, Reads
<1> HIDE DEF Q, W
<1>3. \A d \in Command : d \in Q <=> d # c /\ n.op[d] = "queued"
  BY DEF Q
<1>4. \A d \in Command : d \in W <=> d # c /\ n.op[d] \in {"write", "sent"}
  BY DEF W
<1>5. Q \subseteq Command \ {c} /\ W \subseteq Command \ {c}
  BY DEF Q, W
<1>6. /\ \A d \in Article \ {c} : n.op[d] \in {"none", "write", "sent", "queued", "status", "data"}
      /\ c # login => n.op[login] = "none"
      /\ c = login => \A d \in Article : n.op[d] = "none"
      /\ \A d \in n.active \ {c} : d # login /\ n.op[d] \in {"status", "data"}
      /\ \A d, e \in n.active : d = e
  BY DEF FitsBut
<1>7. what \notin {"none", "queued", "write", "sent"}
  BY DEF Reading
<1>8. CASE n.active \subseteq {c}
  <2>1. /\ m.op = [n.op EXCEPT ![c] = what] /\ m.active = {c} /\ m.pipeline = n.pipeline
    BY <1>8 DEF Reads
  <2>2. \A d \in Command : m.op[d] = IF d = c THEN what ELSE n.op[d]
    BY <1>1, <2>1
  <2>3. {d \in Command : m.op[d] = "queued"} = Q
    BY <1>3, <1>5, <1>7, <2>2
  <2>4. {d \in Command : m.op[d] \in {"write", "sent"}} = W
    BY <1>4, <1>5, <1>7, <2>2
  <2>5. \A d \in Article : m.op[d] \in ArticleOp
    <3> SUFFICES ASSUME NEW d \in Article PROVE m.op[d] \in ArticleOp
      OBVIOUS
    <3>1. CASE d = c /\ c # login
      BY <1>1, <2>2, <3>1
    <3>2. CASE d # c
      BY <1>1, <1>6, <2>2, <3>2 DEF ArticleOp
    <3>3. CASE d = c /\ c = login
      BY <3>3, ConnectionAssumption
    <3>4. QED
      BY <3>1, <3>2, <3>3
  <2>6. m.op[login] \in LoginOp
    BY <1>1, <1>6, <2>2 DEF LoginOp
  <2>7. m.op[login] # "none" => \A d \in Article : m.op[d] = "none"
    <3> SUFFICES ASSUME m.op[login] # "none", NEW d \in Article PROVE m.op[d] = "none"
      OBVIOUS
    <3>1. c = login
      BY <1>1, <1>6, <2>2
    <3>2. d # c
      BY <3>1, ConnectionAssumption
    <3>3. QED
      BY <1>1, <1>6, <2>2, <3>1, <3>2
  <2>8. login \in m.active => m.op[login] # "none"
    BY <1>1, <1>7, <2>1, <2>2
  <2>9. \A d \in Article : d \in m.active => m.op[d] \in {"status", "data"}
    <3> SUFFICES ASSUME NEW d \in Article, d \in m.active PROVE m.op[d] \in {"status", "data"}
      OBVIOUS
    <3>1. d = c /\ c # login
      BY <2>1, ConnectionAssumption
    <3>2. QED
      BY <1>1, <1>7, <2>2, <3>1 DEF ArticleOp
  <2>10. Fits(m)
    BY <1>1, <1>2, <2>1, <2>3, <2>4, <2>5, <2>6, <2>7, <2>8, <2>9 DEF Fits
  <2>11. QED
    BY <1>7, <2>2, <2>10
<1>9. CASE ~ (n.active \subseteq {c})
  <2>1. /\ m.op = [n.op EXCEPT ![c] = "queued"] /\ m.active = n.active /\ m.pipeline = Append(n.pipeline, c)
    BY <1>9 DEF Reads
  <2>2. \A d \in Command : m.op[d] = IF d = c THEN "queued" ELSE n.op[d]
    BY <1>1, <2>1
  <2>3. PICK e \in n.active : e # c /\ e \in Article /\ n.op[e] \in {"status", "data"}
    BY <1>1, <1>6, <1>9
  <2>4. c # login /\ c \in Article /\ \A d \in n.active : d = e
    BY <1>1, <1>6, <2>3
  <2>5. {d \in Command : m.op[d] = "queued"} = Q \cup {c}
    BY <1>3, <1>5, <2>2
  <2>6. {d \in Command : m.op[d] \in {"write", "sent"}} = W
    BY <1>4, <1>5, <2>2
  <2>7. Lists(m.pipeline, Q \cup {c})
    BY <1>1, <1>2, <1>5, <2>1, AppendLists
  <2>8. \A d \in Article : m.op[d] \in ArticleOp
    BY <1>1, <1>6, <2>2 DEF ArticleOp
  <2>9. m.op[login] = "none"
    BY <1>1, <1>6, <2>2, <2>4
  <2>10. \A d \in m.active : d = e /\ m.op[d] \in {"status", "data"} /\ d # login
    BY <1>1, <2>1, <2>2, <2>3, <2>4, ConnectionAssumption
  <2>11. m.active # {}
    BY <2>1, <2>3
  <2>12. Fits(m)
    BY <1>1, <1>2, <2>5, <2>6, <2>7, <2>8, <2>9, <2>10, <2>11 DEF Fits, LoginOp
  <2>13. QED
    BY <2>2, <2>12
<1>10. QED
  BY <1>8, <1>9

\* A command that was set aside writes.
LEMMA FitsWrites ==
  ASSUME NEW n, NEW c \in Command, FitsBut(n, c), NEW m, Writes(m, n, c),
         c \in Article => c \notin n.active, n.pipeline # <<>> => n.active # {}
  PROVE  /\ Fits(m)
         /\ \A d \in Command : m.op[d] # "none" <=> d = c \/ n.op[d] # "none"
<1> DEFINE Q == {d \in Command \ {c} : n.op[d] = "queued"}
           W == {d \in Command \ {c} : n.op[d] \in {"write", "sent"}}
<1>1. /\ n \in ClientRec /\ m \in ClientRec /\ login \in Command /\ Article \subseteq Command
      /\ Command = Article \cup {login} /\ n.writing \in Seq(Command)
      /\ n.op \in [Command -> Op] /\ m.op \in [Command -> Op] /\ n.active \subseteq Command
  BY DEF FitsBut, Writes, Command, ClientRec
<1>2. /\ Lists(n.pipeline, Q) /\ Lists(n.writing, W)
      /\ m.op = [n.op EXCEPT ![c] = "write"] /\ m.writing = Append(n.writing, c)
      /\ m.active = n.active /\ m.pipeline = n.pipeline
  BY DEF FitsBut, Writes
<1> HIDE DEF Q, W
<1>3. \A d \in Command : d \in Q <=> d # c /\ n.op[d] = "queued"
  BY DEF Q
<1>4. \A d \in Command : d \in W <=> d # c /\ n.op[d] \in {"write", "sent"}
  BY DEF W
<1>5. Q \subseteq Command \ {c} /\ W \subseteq Command \ {c}
  BY DEF Q, W
<1>6. /\ \A d \in Article \ {c} : n.op[d] \in {"none", "write", "sent", "queued", "status", "data"}
      /\ c # login => n.op[login] = "none"
      /\ c = login => \A d \in Article : n.op[d] = "none"
      /\ \A d \in n.active \ {c} : d # login /\ n.op[d] \in {"status", "data"}
      /\ \A d, e \in n.active : d = e
  BY DEF FitsBut
<1>7. \A d \in Command : m.op[d] = IF d = c THEN "write" ELSE n.op[d]
  BY <1>1, <1>2
<1>8. {d \in Command : m.op[d] = "queued"} = Q
  BY <1>3, <1>5, <1>7
<1>9. {d \in Command : m.op[d] \in {"write", "sent"}} = W \cup {c}
  BY <1>4, <1>5, <1>7
<1>10. Lists(m.writing, W \cup {c})
  BY <1>1, <1>2, <1>5, AppendLists
<1>11. \A d \in Article : m.op[d] \in ArticleOp
  BY <1>1, <1>6, <1>7 DEF ArticleOp
<1>12. m.op[login] \in LoginOp
  BY <1>1, <1>6, <1>7 DEF LoginOp
<1>13. m.op[login] # "none" => \A d \in Article : m.op[d] = "none"
  <2> SUFFICES ASSUME m.op[login] # "none", NEW d \in Article PROVE m.op[d] = "none"
    OBVIOUS
  <2>1. c = login
    BY <1>1, <1>6, <1>7
  <2>2. d # c
    BY <2>1, ConnectionAssumption
  <2>3. QED
    BY <1>1, <1>6, <1>7, <2>1, <2>2
<1>14. \A d \in Article : d \in m.active => m.op[d] \in {"status", "data"}
  BY <1>1, <1>2, <1>6, <1>7
<1>15. login \in m.active => m.op[login] # "none"
  BY <1>1, <1>2, <1>6, <1>7
<1>16. Fits(m)
  BY <1>1, <1>2, <1>6, <1>8, <1>9, <1>10, <1>11, <1>12, <1>13, <1>14, <1>15 DEF Fits
<1>17. QED
  BY <1>7, <1>16

\* The login has nothing queued while it resolves, connects or reads.
LEMMA LoginAlone ==
  ASSUME NEW n, Fits(n), n.op[login] \notin {"none", "write", "sent"}
  PROVE  /\ n.pipeline = <<>> /\ n.writing = <<>> /\ n.active \subseteq {login}
         /\ \A d \in Article : n.op[d] = "none"
<1>1. /\ n \in ClientRec /\ Command = Article \cup {login} /\ n.active \subseteq Command
      /\ n.pipeline \in Seq(Command) /\ n.writing \in Seq(Command)
  BY DEF Fits, ClientRec, Command
<1>2. \A d \in Article : n.op[d] = "none"
  BY DEF Fits
<1>3. n.active \subseteq {login}
  BY <1>1, <1>2 DEF Fits
<1>4. n.op[login] # "queued"
  BY DEF Fits, LoginOp
<1>5. {d \in Command : n.op[d] = "queued"} = {} /\ {d \in Command : n.op[d] \in {"write", "sent"}} = {}
  BY <1>1, <1>2, <1>4
<1>6. Lists(n.pipeline, {}) /\ Lists(n.writing, {})
  BY <1>5 DEF Fits
<1>7. n.pipeline = <<>> /\ n.writing = <<>>
  BY <1>1, <1>6, EmptyLists
<1>8. QED
  BY <1>2, <1>3, <1>7

\* The login goes on to an operation of its own.
LEMMA FitsLogin ==
  ASSUME NEW m \in ClientRec, m.pipeline = <<>>, m.writing = <<>>, m.active \subseteq {login},
         m.op[login] \in LoginOp \ {"none", "write", "sent"}, \A d \in Article : m.op[d] = "none"
  PROVE  Fits(m)
<1>1. Command = Article \cup {login}
  BY DEF Command
<1>2. {d \in Command : m.op[d] = "queued"} = {} /\ {d \in Command : m.op[d] \in {"write", "sent"}} = {}
  BY <1>1 DEF LoginOp
<1>3. Lists(m.pipeline, {d \in Command : m.op[d] = "queued"})
      /\ Lists(m.writing, {d \in Command : m.op[d] \in {"write", "sent"}})
  BY <1>2, EmptyLists
<1>4. \A d \in Article : d \notin m.active
  BY ConnectionAssumption
<1>5. QED
  BY <1>3, <1>4 DEF Fits, ArticleOp

\* Fits is about the operations and the queues.
LEMMA FitsSame ==
  ASSUME NEW n, Fits(n), NEW m \in ClientRec, m.op = n.op, m.active = n.active,
         m.pipeline = n.pipeline, m.writing = n.writing
  PROVE  Fits(m)
BY DEF Fits

\* A command stays in its queue when its operation does not leave it.
LEMMA FitsMoves ==
  ASSUME NEW n, Fits(n), NEW m \in ClientRec, NEW c \in Command, NEW o \in Op,
         m.op = [n.op EXCEPT ![c] = o], m.active = n.active,
         m.pipeline = n.pipeline, m.writing = n.writing,
         \/ n.op[c] = "write" /\ o = "sent"
         \/ c \in Article /\ n.op[c] \in {"status", "data"} /\ o = "data"
  PROVE  Fits(m) /\ \A d \in Command : m.op[d] # "none" <=> n.op[d] # "none"
<1>1. /\ n \in ClientRec /\ login \in Command /\ Article \subseteq Command
      /\ n.op \in [Command -> Op]
  BY DEF Fits, Command, ClientRec
<1>2. \A d \in Command : m.op[d] = IF d = c THEN o ELSE n.op[d]
  BY <1>1
<1>3. {d \in Command : m.op[d] = "queued"} = {d \in Command : n.op[d] = "queued"}
  BY <1>2
<1>4. {d \in Command : m.op[d] \in {"write", "sent"}} = {d \in Command : n.op[d] \in {"write", "sent"}}
  BY <1>2
<1>5. \A d \in Article : m.op[d] \in ArticleOp
  BY <1>1, <1>2 DEF Fits, ArticleOp
<1>6. m.op[login] \in LoginOp
  <2>1. CASE c = login
    <3>1. o = "sent"
      BY <2>1, ConnectionAssumption
    <3>2. QED
      BY <1>1, <1>2, <2>1, <3>1 DEF LoginOp
  <2>2. CASE c # login
    BY <1>1, <1>2, <2>2 DEF Fits
  <2>3. QED
    BY <2>1, <2>2
<1>7. \A d \in Command : m.op[d] # "none" <=> n.op[d] # "none"
  BY <1>2
<1>8. \A d \in Article : d \in m.active => m.op[d] \in {"status", "data"}
  BY <1>1, <1>2 DEF Fits
<1>9. m.op[login] # "none" => \A d \in Article : m.op[d] = "none"
  BY <1>1, <1>7 DEF Fits
<1>10. login \in m.active => m.op[login] # "none"
  BY <1>1, <1>7 DEF Fits
<1>11. /\ Lists(m.pipeline, {d \in Command : m.op[d] = "queued"})
       /\ Lists(m.writing, {d \in Command : m.op[d] \in {"write", "sent"}})
  BY <1>3, <1>4 DEF Fits
<1>12. /\ \A d, e \in m.active : d = e
       /\ m.pipeline # <<>> => m.active # {}
  BY DEF Fits
<1>13. Fits(m)
  BY <1>5, <1>6, <1>8, <1>9, <1>10, <1>11, <1>12 DEF Fits
<1>14. QED
  BY <1>7, <1>13

-----------------------------------------------------------------------------
(* The client that the dispatcher assumes: what a step does to it.         *)

Link(n) == IF n.timedOut THEN "timeout" ELSE IF n.disconnecting THEN "closed" ELSE "open"

\* A step keeps the invariant and is a step of the client of the dispatcher,
\* or one that the dispatcher does not see.
KeepsService == ServiceInv' /\ [Service!Next]_(Service!csvars)

\* To the dispatcher m is the client.
Unseen(m) ==
  /\ Fits(m) /\ SocketOK(m)
  /\ \A d \in Command : m.op[d] # "none" <=> client.op[d] # "none"
  /\ m.life = client.life /\ m.timedOut = client.timedOut
  /\ m.disconnecting = client.disconnecting

LEMMA SameService ==
  ASSUME ServiceInv, NEW m, client' = m, Unseen(m), setting' = setting, article' \in [Article -> ArticleRec],
         \A a \in Article : article'[a].state = "running" <=> article[a].state = "running"
  PROVE  KeepsService
<1>1. ServiceInv'
  BY DEF ServiceInv, Command, Unseen
<1>2. Busy(client)' = Busy(client)
  BY DEF Busy, Unseen
<1>3. UNCHANGED Service!csvars
  BY <1>2 DEF Service!csvars, Unseen
<1>4. QED
  BY <1>1, <1>3 DEF KeepsService

LEMMA ContinueService ==
  ASSUME ServiceInv, NEW m, Continue(m), Unseen(m)
  PROVE  KeepsService
<1>1. client' = m /\ setting' = setting /\ article' = article
  BY DEF Continue
<1>2. article \in [Article -> ArticleRec]
  BY DEF ServiceInv
<1>3. QED
  BY <1>1, <1>2, SameService

Codes(c) == IF c = login THEN Code \ {"RetryOther"} ELSE Code

\* What n, the state that a handler ends c in, has from the client.
Before(n, c, code) ==
  /\ FitsBut(n, c)
  /\ n.op = client.op /\ n.life = client.life
  /\ n.timedOut = client.timedOut /\ n.disconnecting = client.disconnecting
  /\ code \notin {"DisconnectClient", "ReconnectRetry"} =>
        n.socket = client.socket /\ client.op[login] # "resolve"
  /\ n.response \in Seq(Line)

LEMMA ArrivedLines ==
  ASSUME NEW n, n.response \in Seq(Line), NEW arrived \in Arrived(n)
  PROVE  arrived \in Seq(Line) /\ Len(arrived) \in 0 .. Len(n.response)
         /\ \A i \in 1 .. Len(arrived) : arrived[i] = n.response[i]
<1>1. PICK i \in 0 .. Len(n.response) : arrived = SubSeq(n.response, 1, i)
  BY DEF Arrived
<1>2. QED
  BY <1>1

\* What the handlers that end a command do to the record of the articles.
LEMMA EndArticles ==
  ASSUME ServiceInv, NEW n, NEW c \in Command, NEW code \in Code, End(n, c, code)
  PROVE  /\ setting' = setting /\ article' \in [Article -> ArticleRec]
         /\ \A a \in Article : article'[a].state = "running"
              <=> article[a].state = "running" /\ a \notin Ending(n, c, code)
<1>1. article \in [Article -> ArticleRec]
  BY DEF ServiceInv
<1>2. Outcome(n, code) \in {"ok", "missing", "failed", "dropped", "waiting"}
  BY DEF Outcome, Code
<1> DEFINE rec(a) == [article[a] EXCEPT !.state = Outcome(n, code)]
<1>3. setting' = setting
      /\ article' = [a \in Article |-> IF a \in Ending(n, c, code) THEN rec(a) ELSE article[a]]
  BY DEF End
<1>4. \A a \in Article : rec(a) \in ArticleRec /\ rec(a).state # "running"
  BY <1>1, <1>2 DEF ArticleRec
<1> HIDE DEF rec
<1>5. QED
  BY <1>1, <1>3, <1>4

LEMMA EndService ==
  ASSUME ServiceInv, NEW n, NEW c \in Command, NEW code \in Codes(c), Before(n, c, code),
         client.op[c] # "none",
         c \in Article /\ code = "Error" => ~ client.disconnecting,
         c \in Article /\ code = "DisconnectClient" => client.disconnecting /\ ~ client.timedOut,
         End(n, c, code)
  PROVE  KeepsService
<1>1. PICK arrived \in Arrived(n) : client' = OnDone(n, c, code, arrived)
  BY DEF End
<1>2. arrived \in Seq(Line) /\ n \in ClientRec /\ code \in Code
  BY ArrivedLines DEF Before, FitsBut, Codes
<1>3. Ends(client', n, c, code, arrived)
  BY <1>1, <1>2, OnDoneEffect
<1> DEFINE C == Ending(n, c, code)
<1>4. /\ Fits(client')
      /\ C \subseteq {c} \cup {d \in Article : n.op[d] = "queued"}
      /\ \A d \in Command : client'.op[d] # "none" <=> n.op[d] # "none" /\ d \notin C
  BY <1>2, <1>3, FitsEnds DEF Before
<1>5. c \in C
  BY DEF Ending
<1> HIDE DEF C
<1>6. SocketOK(client) /\ Fits(client) /\ client \in ClientRec
  BY DEF ServiceInv, Fits
<1>7. SocketOK(client')
  <2>1. client'.timedOut => client'.disconnecting
    BY <1>3, <1>6 DEF Ends, Before, SocketOK
  <2>2. ASSUME client'.life = "up", client'.socket = "closed" PROVE client'.disconnecting
    <3>1. code \notin {"DisconnectClient", "ReconnectRetry"} /\ client.life = "up"
      BY <1>3, <2>2 DEF Ends, Before, Leaving
    <3>2. n.socket = "closed" /\ client'.disconnecting = client.disconnecting
      BY <1>3, <2>2, <3>1 DEF Ends, Before
    <3>3. QED
      BY <1>6, <3>1, <3>2 DEF Before, SocketOK
  <2>3. QED
    BY <2>1, <2>2 DEF SocketOK
<1>8. /\ setting' = setting /\ article' \in [Article -> ArticleRec]
      /\ \A a \in Article : article'[a].state = "running"
           <=> article[a].state = "running" /\ a \notin C
  BY <1>2, EndArticles DEF C
<1>9. ServiceInv'
  <2>1. \A a \in Article : article'[a].state = "running" <=> client'.op[a] # "none"
    BY <1>4, <1>8 DEF ServiceInv, Before, Command
  <2>2. QED
    BY <1>4, <1>7, <1>8, <2>1 DEF ServiceInv
<1>10. Service!Done(C, code)
  <2>1. C # {} /\ C \subseteq Busy(client)
    BY <1>4, <1>5 DEF Busy, Before, Command
  <2>2. Busy(client)' = Busy(client) \ C
    BY <1>4 DEF Busy, Before
  <2>3. \A d \in C : code \in Service!Codes(d)
    <3> SUFFICES ASSUME NEW d \in C PROVE code \in Service!Codes(d)
      OBVIOUS
    <3>1. CASE d = login
      <4>1. c = login
        BY <1>4, <3>1, ConnectionAssumption
      <4>2. QED
        BY <3>1, <4>1 DEF Service!Codes, Codes, Code
    <3>2. CASE d # login
      <4>1. c # login
        <5>1. CASE d = c
          BY <3>2, <5>1
        <5>2. CASE d # c
          BY <1>4, <5>2 DEF Before, FitsBut
        <5>3. QED
          BY <5>1, <5>2
      <4>2. c \in Article
        BY <4>1 DEF Command
      <4>3. QED
        BY <1>2, <1>6, <3>2, <4>2 DEF Service!Codes, Code, SocketOK
    <3>3. QED
      BY <3>1, <3>2
  <2>4. CASE code = "DisconnectClient"
    <3>1. client'.life = (IF client.life = "up" THEN "stopping" ELSE client.life)
      BY <1>3, <2>4 DEF Ends, Before, Leaving
    <3>2. client'.disconnecting = TRUE /\ client'.timedOut = client.timedOut
      BY <1>3, <2>4 DEF Ends, Before
    <3>3. QED
      BY <2>1, <2>2, <2>3, <2>4, <3>1, <3>2 DEF Service!Done, Service!Leaves
  <2>5. CASE code = "ReconnectRetry"
    <3>1. client'.life = (IF client.life = "up" THEN "restarting" ELSE client.life)
      BY <1>3, <2>5 DEF Ends, Before, Leaving
    <3>2. client'.disconnecting = client.disconnecting /\ client'.timedOut = client.timedOut
      BY <1>3, <2>5 DEF Ends, Before
    <3>3. QED
      BY <2>1, <2>2, <2>3, <2>5, <3>1, <3>2 DEF Service!Done, Service!Leaves
  <2>6. CASE code \notin {"DisconnectClient", "ReconnectRetry"}
    <3>1. client'.disconnecting = client.disconnecting /\ client'.timedOut = client.timedOut
      BY <1>3, <2>6 DEF Ends, Before
    <3>2. CASE client.life # "up" \/ code # "OK" \/ client.socket # "closed"
      <4>1. client'.life = client.life
        BY <1>3, <2>6, <3>2 DEF Ends, Before, Leaving
      <4>2. code \in {"OK", "Error", "RetryOther"}
        BY <1>2, <2>6 DEF Code
      <4>3. QED
        BY <2>1, <2>2, <2>3, <3>1, <4>1, <4>2 DEF Service!Done
    <3>3. CASE client.life = "up" /\ code = "OK" /\ client.socket = "closed"
      <4>1. client'.life = "restarting"
        BY <1>3, <2>6, <3>3 DEF Ends, Before, Leaving
      <4>2. client.disconnecting
        BY <1>6, <2>6, <3>3 DEF SocketOK, Before
      <4>3. QED
        BY <2>1, <2>2, <2>3, <3>1, <3>3, <4>1, <4>2 DEF Service!Done, Service!Leaves
    <3>4. QED
      BY <3>2, <3>3
  <2>7. QED
    BY <2>4, <2>5, <2>6
<1>11. Service!Next
  <2>1. C \in SUBSET Service!Command
    BY <1>4 DEF Service!Command, Command
  <2>2. QED
    BY <1>2, <1>10, <2>1 DEF Service!Next, Code
<1>12. QED
  BY <1>9, <1>11 DEF KeepsService

\* Errors end the login, or an article.
LEMMA ErrorConnectingService ==
  ASSUME ServiceInv, NEW n, FitsBut(n, login), ErrorConnecting(n), n.op = client.op,
         n.life = client.life, n.timedOut = client.timedOut,
         n.disconnecting = client.disconnecting, n.response \in Seq(Line),
         client.op[login] # "none"
  PROVE  KeepsService
<1>1. PICK code \in {"DisconnectClient", "ReconnectRetry"} : End(n, login, code)
  BY DEF ErrorConnecting
<1>2. code \in Codes(login) /\ login \in Command /\ login \notin Article
  BY ConnectionAssumption DEF Codes, Code, Command
<1>3. Before(n, login, code)
  BY DEF Before
<1>4. QED
  BY <1>1, <1>2, <1>3, EndService

LEMMA HandleErrorService ==
  ASSUME ServiceInv, NEW n, NEW c \in Article, FitsBut(n, c), HandleError(n, c), n.op = client.op,
         n.life = client.life, n.timedOut = client.timedOut, n.socket = client.socket,
         n.disconnecting = client.disconnecting, n.response \in Seq(Line),
         client.op[c] # "none"
  PROVE  KeepsService
<1>1. PICK code \in {"ReconnectRetry", "DisconnectClient", "Error"} :
        /\ n.timedOut => code = "ReconnectRetry"
        /\ ~ n.timedOut => (code = "DisconnectClient" <=> n.disconnecting)
        /\ End(n, c, code)
  BY DEF HandleError
<1>2. code \in Codes(c) /\ c \in Command /\ c # login
  BY ConnectionAssumption DEF Codes, Code, Command
<1>3. client.op[login] # "resolve"
  BY <1>2 DEF FitsBut
<1>4. Before(n, c, code)
  BY <1>3 DEF Before
<1>5. SocketOK(client)
  BY DEF ServiceInv
<1>6. code = "Error" => ~ client.disconnecting
  BY <1>1, <1>5 DEF SocketOK
<1>7. code = "DisconnectClient" => client.disconnecting /\ ~ client.timedOut
  BY <1>1
<1>8. QED
  BY <1>1, <1>2, <1>4, <1>6, <1>7, EndService

LEMMA CancelTimeoutState ==
  ASSUME ServiceInv, NEW n, n = CancelTimeout(client)
  PROVE  Quiet(n, client) /\ Fits(n) /\ n.response \in Seq(Line)
<1>1. client \in ClientRec /\ Fits(client)
  BY DEF ServiceInv, Fits
<1>2. Quiet(n, client)
  BY <1>1, CancelTimeoutEffect
<1>3. QED
  BY <1>1, <1>2, FitsSame DEF Quiet, ClientRec

LEMMA ConsumedState ==
  ASSUME ServiceInv, client.response # <<>>, NEW n, n = Consumed
  PROVE  /\ Fits(n) /\ n \in ClientRec /\ n.op = client.op /\ n.active = client.active
         /\ n.pipeline = client.pipeline /\ n.writing = client.writing /\ n.life = client.life
         /\ n.timedOut = client.timedOut /\ n.disconnecting = client.disconnecting
         /\ n.socket = client.socket /\ n.response = Tail(client.response)
         /\ n.response \in Seq(Line)
         /\ client.response \in Seq(Line) /\ Head(client.response) \in Line
<1>1. client \in ClientRec /\ Fits(client) /\ client.response \in Seq(Line)
  BY DEF ServiceInv, Fits, ClientRec
<1> DEFINE k == CancelTimeout(client)
<1>2. Quiet(k, client) /\ Fits(k)
  BY CancelTimeoutState
<1>3. n = [k EXCEPT !.response = Tail(k.response)]
  BY DEF Consumed
<1> HIDE DEF k
<1>4. k \in ClientRec /\ k.response = client.response
  BY <1>2 DEF Quiet
<1>5. Tail(client.response) \in Seq(Line) /\ Head(client.response) \in Line
  BY <1>1
<1>6. /\ n \in ClientRec /\ n.op = k.op /\ n.active = k.active /\ n.pipeline = k.pipeline
      /\ n.writing = k.writing /\ n.life = k.life /\ n.timedOut = k.timedOut
      /\ n.disconnecting = k.disconnecting /\ n.socket = k.socket
      /\ n.response = Tail(client.response)
  <2> DEFINE r == Tail(client.response)
  <2>1. n = [k EXCEPT !.response = r] /\ r \in Seq(Line) /\ k \in ClientRec
    BY <1>3, <1>4, <1>5
  <2> HIDE DEF r
  <2>2. n \in ClientRec
    BY <2>1 DEF ClientRec
  <2>3. /\ n.op = k.op /\ n.active = k.active /\ n.pipeline = k.pipeline
        /\ n.writing = k.writing /\ n.life = k.life /\ n.timedOut = k.timedOut
        /\ n.disconnecting = k.disconnecting /\ n.socket = k.socket /\ n.response = r
    BY <2>1 DEF ClientRec
  <2>4. QED
    BY <2>2, <2>3 DEF r
<1>7. Fits(n)
  BY <1>2, <1>6, FitsSame
<1>8. QED
  BY <1>1, <1>2, <1>5, <1>6, <1>7 DEF Quiet

LEMMA AfterWriteState ==
  ASSUME ServiceInv, NEW c, WriteEnds(c), NEW n, n = AfterWrite
  PROVE  /\ FitsBut(n, c) /\ c \in Command /\ client.op[c] \in {"write", "sent"}
         /\ n.op = client.op /\ n.active = client.active
         /\ n.pipeline = client.pipeline /\ n.life = client.life
         /\ n.timedOut = client.timedOut /\ n.disconnecting = client.disconnecting
         /\ n.socket = client.socket /\ n.response = client.response
         /\ n.response \in Seq(Line) /\ n \in ClientRec
<1>1. client \in ClientRec /\ Fits(client) /\ client.response \in Seq(Line)
      /\ client.writing \in Seq(Command)
  BY DEF ServiceInv, Fits, ClientRec
<1> DEFINE k == CancelTimeout(client)
<1>2. Quiet(k, client)
  BY CancelTimeoutState
<1>3. n = [k EXCEPT !.writing = Tail(k.writing)]
  BY DEF AfterWrite
<1> HIDE DEF k
<1>4. k \in ClientRec /\ k.writing = client.writing
  BY <1>2 DEF Quiet
<1>5. client.writing # <<>> /\ c = Head(client.writing)
  BY DEF WriteEnds
<1>6. Tail(client.writing) \in Seq(Command)
  BY <1>1, <1>5
<1>7. /\ n \in ClientRec /\ n.op = k.op /\ n.active = k.active /\ n.pipeline = k.pipeline
      /\ n.writing = Tail(client.writing) /\ n.life = k.life /\ n.timedOut = k.timedOut
      /\ n.disconnecting = k.disconnecting /\ n.socket = k.socket
      /\ n.response = k.response
  <2> DEFINE w == Tail(client.writing)
  <2>1. n = [k EXCEPT !.writing = w] /\ w \in Seq(Command) /\ k \in ClientRec
    BY <1>3, <1>4, <1>6
  <2> HIDE DEF w
  <2>2. n \in ClientRec
    BY <2>1 DEF ClientRec
  <2>3. /\ n.op = k.op /\ n.active = k.active /\ n.pipeline = k.pipeline
        /\ n.response = k.response /\ n.life = k.life /\ n.timedOut = k.timedOut
        /\ n.disconnecting = k.disconnecting /\ n.socket = k.socket /\ n.writing = w
    BY <2>1 DEF ClientRec
  <2>4. QED
    BY <2>2, <2>3 DEF w
<1>8. FitsBut(n, c) /\ c \in Command /\ client.op[c] \in {"write", "sent"}
  <2>1. n.op = client.op /\ n.active = client.active /\ n.pipeline = client.pipeline
    BY <1>2, <1>7 DEF Quiet
  <2>2. n \in ClientRec /\ n.writing = Tail(client.writing)
    BY <1>7
  <2>3. QED
    BY <1>1, <1>5, <2>1, <2>2, FitsAfterWrite
<1>9. QED
  BY <1>1, <1>2, <1>7, <1>8 DEF Quiet

\* A command that reads, or the login while it connects, can be set aside.
LEMMA ReaderAside ==
  ASSUME NEW n, Fits(n), NEW c \in Command, n.op[c] \notin {"none", "write", "sent", "queued"}
  PROVE  FitsBut(n, c)
<1>1. n.op[login] # "none" <=> c = login
  BY DEF Fits, Command
<1>2. QED
  BY <1>1, FitsAside

LEMMA ReadingOps ==
  ASSUME NEW n, Fits(n), NEW c \in Command
  PROVE  /\ n.op[c] \in Reading => n.op[c] \notin {"none", "resolve", "connect", "handshake", "write", "sent", "queued"}
         /\ n.op[c] \in {"status", "data"} => c \in Article
         /\ n.op[c] \in {"status", "data"} => n.op[login] = "none"
<1>1. n.op[login] \notin {"status", "data"}
  BY DEF Fits, LoginOp
<1>2. n.op[c] \in Reading => n.op[c] \notin {"none", "resolve", "connect", "handshake", "write", "sent", "queued"}
  BY DEF Reading
<1>3. n.op[c] \in {"status", "data"} => c \in Article
  BY <1>1 DEF Command
<1>4. n.op[c] \in {"status", "data"} => n.op[login] = "none"
  BY <1>3 DEF Fits
<1>5. QED
  BY <1>2, <1>3, <1>4

\* A command goes on to read, or gets in the queue for it.
LEMMA ReadService ==
  ASSUME ServiceInv, NEW n, NEW c \in Command, FitsBut(n, c), NEW what \in Reading,
         IF c = login THEN what \in LoginOp ELSE what \in ArticleOp,
         n.op = client.op, n.life = client.life, n.timedOut = client.timedOut,
         n.disconnecting = client.disconnecting,
         n.socket = "closed" => client.socket = "closed",
         client.op[c] # "none", client.op[login] # "resolve"
  PROVE  Unseen(AsyncReadResponse(n, c, what))
<1> DEFINE m == AsyncReadResponse(n, c, what)
<1>1. n \in ClientRec
  BY DEF FitsBut
<1>2. Reads(m, n, c, what)
  BY <1>1, ReadResponseEffect
<1> HIDE DEF m
<1>3. Fits(m) /\ \A d \in Command : m.op[d] # "none" <=> d = c \/ n.op[d] # "none"
  BY <1>2, FitsReads
<1>4. SocketOK(client)
  BY DEF ServiceInv
<1>5. /\ m.life = n.life /\ m.socket = n.socket /\ m.timedOut = n.timedOut
      /\ m.disconnecting = n.disconnecting
  BY <1>2 DEF Reads
<1>6. SocketOK(m)
  BY <1>4, <1>5 DEF SocketOK
<1>7. Unseen(m)
  BY <1>3, <1>5, <1>6 DEF Unseen
<1>8. QED
  BY <1>7 DEF m

\* The socket, the timer and what was received concern only the client.
LEMMA SameUnseen ==
  ASSUME ServiceInv, NEW m \in ClientRec, m.op = client.op, m.active = client.active,
         m.pipeline = client.pipeline, m.writing = client.writing, m.life = client.life,
         m.timedOut = client.timedOut, m.disconnecting = client.disconnecting,
         m.socket = "closed" => client.socket = "closed"
  PROVE  Unseen(m)
<1>1. Fits(client) /\ SocketOK(client)
  BY DEF ServiceInv
<1>2. Fits(m)
  BY <1>1, FitsSame
<1>3. SocketOK(m)
  BY <1>1 DEF SocketOK
<1>4. QED
  BY <1>2, <1>3 DEF Unseen

-----------------------------------------------------------------------------
(* The actions of the login.                                               *)

\* The client in which the login resolves, connects or shakes hands, when
\* nothing is active and the socket is new.
LEMMA LoginState ==
  ASSUME ServiceInv, client.op[login] \in {"resolve", "connect", "handshake"},
         NEW n \in ClientRec, n.op = client.op, n.active \subseteq {login},
         n.pipeline = client.pipeline, n.writing = client.writing
  PROVE  Fits(n) /\ FitsBut(n, login)
<1>1. Fits(client) /\ login \in Command
  BY DEF ServiceInv, Command
<1>2. /\ client.pipeline = <<>> /\ client.writing = <<>>
      /\ \A d \in Article : client.op[d] = "none"
  BY <1>1, LoginAlone
<1>3. n.op[login] \in LoginOp \ {"none", "write", "sent"}
  BY DEF LoginOp
<1>4. Fits(n)
  BY <1>2, <1>3, FitsLogin
<1>5. QED
  BY <1>1, <1>3, <1>4, ReaderAside

LEMMA AsyncConnectService ==
  ASSUME ServiceInv, client.op[login] \in {"resolve", "connect"},
         NEW n \in ClientRec, n.op = client.op, n.pipeline = client.pipeline,
         n.writing = client.writing, n.life = client.life, n.timedOut = client.timedOut,
         n.disconnecting = client.disconnecting, NEW left \in {0, 1}
  PROVE  Unseen(AsyncConnect(n, left))
<1> DEFINE m == AsyncConnect(n, left)
           op == [n.op EXCEPT ![login] = "connect"]
<1>1. m = [n EXCEPT !.op = op, !.active = {login}, !.socket = "connecting",
                    !.endpoints = left, !.response = <<>>]
  BY DEF AsyncConnect, ClientRec
<1>2. /\ Fits(client) /\ SocketOK(client) /\ login \in Command /\ n.op \in [Command -> Op]
      /\ "connect" \in Op
  BY DEF ServiceInv, Command, ClientRec, Op
<1>3. op \in [Command -> Op] /\ {login} \in SUBSET Command /\ <<>> \in Seq(Line)
  BY <1>2
<1>4. \A d \in Command : op[d] = IF d = login THEN "connect" ELSE n.op[d]
  BY <1>2
<1> HIDE DEF m, op
<1>5. m \in ClientRec
  BY <1>1, <1>3 DEF ClientRec
<1>6. /\ m.op = op /\ m.active = {login} /\ m.pipeline = n.pipeline /\ m.writing = n.writing
      /\ m.life = n.life /\ m.timedOut = n.timedOut /\ m.disconnecting = n.disconnecting
      /\ m.socket = "connecting"
  BY <1>1 DEF ClientRec
<1>7. /\ client.pipeline = <<>> /\ client.writing = <<>>
      /\ \A d \in Article : client.op[d] = "none"
  BY <1>2, LoginAlone
<1>8. \A d \in Article : m.op[d] = "none"
  BY <1>4, <1>6, <1>7, ConnectionAssumption DEF Command
<1>9. m.op[login] = "connect"
  BY <1>2, <1>4, <1>6
<1>10. Fits(m)
  BY <1>5, <1>6, <1>7, <1>8, <1>9, FitsLogin DEF LoginOp
<1>11. SocketOK(m)
  BY <1>2, <1>6 DEF SocketOK
<1>12. Unseen(m)
  BY <1>2, <1>4, <1>6, <1>10, <1>11 DEF Unseen
<1>13. QED
  BY <1>12 DEF m

LEMMA HandleResolveService ==
  ASSUME ServiceInv, HandleResolve
  PROVE  KeepsService
<1> DEFINE n == [client EXCEPT !.active = {}]
<1>1. client \in ClientRec /\ client.op[login] = "resolve"
  BY DEF ServiceInv, Fits, HandleResolve
<1>2. \/ \E left \in {0, 1} : Continue(AsyncConnect(n, left))
      \/ ErrorConnecting(n)
  BY DEF HandleResolve
<1>3. /\ n \in ClientRec /\ n.op = client.op /\ n.active = {} /\ n.pipeline = client.pipeline
      /\ n.writing = client.writing /\ n.life = client.life /\ n.timedOut = client.timedOut
      /\ n.disconnecting = client.disconnecting /\ n.response \in Seq(Line)
  BY <1>1 DEF ClientRec
<1> HIDE DEF n
<1>4. CASE \E left \in {0, 1} : Continue(AsyncConnect(n, left))
  <2>1. PICK left \in {0, 1} : Continue(AsyncConnect(n, left))
    BY <1>4
  <2>2. Unseen(AsyncConnect(n, left))
    BY <1>1, <1>3, AsyncConnectService
  <2>3. QED
    BY <2>1, <2>2, ContinueService
<1>5. CASE ErrorConnecting(n)
  <2>1. FitsBut(n, login)
    BY <1>1, <1>3, LoginState
  <2>2. QED
    BY <1>1, <1>3, <1>5, <2>1, ErrorConnectingService
<1>6. QED
  BY <1>2, <1>4, <1>5

LEMMA StatusLine ==
  ASSUME NEW k \in {200, 281, 381, 222, 400, 430, 502}, NEW c \in Command
  PROVE  [is |-> "status", code |-> k, of |-> c] \in Line
BY DEF Line

LEMMA GreetingLines ==
  ASSUME NEW g \in Greeting
  PROVE  g \in Seq(Line)
<1>1. PICK k \in {200, 400, 502} : g = <<[is |-> "status", code |-> k, of |-> login]>>
  BY DEF Greeting
<1> DEFINE line == [is |-> "status", code |-> k, of |-> login]
<1>2. line \in Line
  BY StatusLine DEF Command
<1> HIDE DEF line
<1>3. <<line>> \in Seq(Line)
  BY <1>2
<1>4. QED
  BY <1>1, <1>3 DEF line

LEMMA HandleConnectService ==
  ASSUME ServiceInv, HandleConnect
  PROVE  KeepsService
<1> DEFINE n == [client EXCEPT !.active = {}]
           open == [n EXCEPT !.socket = "open"]
<1>1. client \in ClientRec /\ client.op[login] = "connect" /\ login \in Command
      /\ Fits(client) /\ SocketOK(client) /\ client.endpoints \in {0, 1}
  <2>1. client.op[login] = "connect"
    <3> HIDE DEF n, open
    <3>1. QED
      BY Zenon DEF HandleConnect
  <2>2. client \in ClientRec /\ Fits(client) /\ SocketOK(client) /\ login \in Command
    BY DEF ServiceInv, Fits, Command
  <2>3. client.endpoints \in {0, 1}
    BY <2>2 DEF ClientRec
  <2>4. QED
    BY <2>1, <2>2, <2>3
<1>2. /\ n \in ClientRec /\ n.op = client.op /\ n.active = {} /\ n.pipeline = client.pipeline
      /\ n.writing = client.writing /\ n.life = client.life /\ n.timedOut = client.timedOut
      /\ n.disconnecting = client.disconnecting /\ n.response \in Seq(Line)
  BY <1>1 DEF ClientRec
<1>3. \/ client.socket = "connecting" /\ setting.ssl /\ Continue([open EXCEPT !.op[login] = "handshake"])
      \/ client.socket = "connecting" /\ \E g \in Greeting :
           Continue(AsyncReadResponse([open EXCEPT !.response = g], login, "greeting"))
      \/ client.endpoints > 0 /\ Continue(AsyncConnect(n, client.endpoints - 1))
      \/ ErrorConnecting([n EXCEPT !.socket = "closed"])
  BY Zenon DEF HandleConnect
<1> HIDE DEF n
<1>4. CASE client.socket = "connecting" /\ setting.ssl
             /\ Continue([open EXCEPT !.op[login] = "handshake"])
  <2> DEFINE m == [open EXCEPT !.op[login] = "handshake"]
             op == [n.op EXCEPT ![login] = "handshake"]
  <2>1. m = [n EXCEPT !.socket = "open", !.op = op]
    BY <1>2 DEF ClientRec
  <2>2. "handshake" \in Op /\ n.op \in [Command -> Op]
    BY <1>1, <1>2 DEF Op, ClientRec
  <2>3. op \in [Command -> Op] /\ \A d \in Command : op[d] = IF d = login THEN "handshake" ELSE n.op[d]
    BY <2>2
  <2> HIDE DEF m, op, open
  <2>4. /\ m \in ClientRec /\ m.op = op /\ m.active = {} /\ m.pipeline = n.pipeline
        /\ m.writing = n.writing /\ m.life = n.life /\ m.timedOut = n.timedOut
        /\ m.disconnecting = n.disconnecting /\ m.socket = "open"
    BY <1>2, <2>1, <2>3 DEF ClientRec
  <2>5. /\ client.pipeline = <<>> /\ client.writing = <<>>
        /\ \A d \in Article : client.op[d] = "none"
    BY <1>1, LoginAlone
  <2>6. \A d \in Article : m.op[d] = "none"
    BY <1>2, <2>3, <2>4, <2>5, ConnectionAssumption DEF Command
  <2>7. m.op[login] = "handshake"
    BY <1>1, <2>3, <2>4
  <2>8. Fits(m)
    BY <1>2, <2>4, <2>5, <2>6, <2>7, FitsLogin DEF LoginOp
  <2>9. Unseen(m)
    BY <1>1, <1>2, <2>3, <2>4, <2>8 DEF Unseen, SocketOK
  <2>10. Continue(m)
    BY <1>4 DEF m
  <2>11. QED
    BY <2>9, <2>10, ContinueService
<1>5. CASE client.socket = "connecting" /\ \E g \in Greeting :
             Continue(AsyncReadResponse([open EXCEPT !.response = g], login, "greeting"))
  <2>1. PICK g \in Greeting : Continue(AsyncReadResponse([open EXCEPT !.response = g], login, "greeting"))
    BY <1>5, Zenon
  <2> DEFINE k == [open EXCEPT !.response = g]
  <2>2. g \in Seq(Line)
    BY GreetingLines
  <2>3. k = [n EXCEPT !.socket = "open", !.response = g]
    BY <1>2 DEF ClientRec
  <2> HIDE DEF k, open
  <2>4. /\ k \in ClientRec /\ k.op = n.op /\ k.active = {} /\ k.pipeline = n.pipeline
        /\ k.writing = n.writing /\ k.life = n.life /\ k.timedOut = n.timedOut
        /\ k.disconnecting = n.disconnecting /\ k.socket = "open"
    BY <1>2, <2>2, <2>3 DEF ClientRec
  <2>5. FitsBut(k, login)
    BY <1>1, <1>2, <2>4, LoginState
  <2>6. "greeting" \in Reading /\ "greeting" \in LoginOp
    BY DEF Reading, LoginOp
  <2>7. Unseen(AsyncReadResponse(k, login, "greeting"))
    BY <1>1, <1>2, <2>4, <2>5, <2>6, ReadService
  <2>8. QED
    BY <2>1, <2>7, ContinueService DEF k
<1>6. CASE client.endpoints > 0 /\ Continue(AsyncConnect(n, client.endpoints - 1))
  <2>1. client.endpoints - 1 \in {0, 1}
    BY <1>1, <1>6
  <2>2. Unseen(AsyncConnect(n, client.endpoints - 1))
    BY <1>1, <1>2, <2>1, AsyncConnectService
  <2>3. QED
    BY <1>6, <2>2, ContinueService
<1>7. CASE ErrorConnecting([n EXCEPT !.socket = "closed"])
  <2> DEFINE k == [n EXCEPT !.socket = "closed"]
  <2>1. /\ k \in ClientRec /\ k.op = n.op /\ k.active = {} /\ k.pipeline = n.pipeline
        /\ k.writing = n.writing /\ k.life = n.life /\ k.timedOut = n.timedOut
        /\ k.disconnecting = n.disconnecting /\ k.response = n.response
    BY <1>2 DEF ClientRec
  <2> HIDE DEF k
  <2>2. FitsBut(k, login)
    BY <1>1, <1>2, <2>1, LoginState
  <2>3. ErrorConnecting(k)
    BY <1>7 DEF k
  <2>4. QED
    BY <1>1, <1>2, <2>1, <2>2, <2>3, ErrorConnectingService
<1>8. QED
  BY <1>3, <1>4, <1>5, <1>6, <1>7, Zenon

LEMMA HandleAsyncHandshakeService ==
  ASSUME ServiceInv, HandleAsyncHandshake
  PROVE  KeepsService
<1>1. client \in ClientRec /\ client.op[login] = "handshake" /\ login \in Command
      /\ Fits(client) /\ client.response \in Seq(Line)
  BY DEF ServiceInv, Fits, HandleAsyncHandshake, Command, ClientRec
<1>2. client.active \subseteq {login}
  BY <1>1, LoginAlone
<1>3. CASE client.socket = "open" /\ \E g \in Greeting :
             Continue(AsyncReadResponse([client EXCEPT !.response = g], login, "greeting"))
  <2>1. PICK g \in Greeting : Continue(AsyncReadResponse([client EXCEPT !.response = g], login, "greeting"))
    BY <1>3
  <2> DEFINE k == [client EXCEPT !.response = g]
  <2>2. g \in Seq(Line)
    BY GreetingLines
  <2>3. /\ k \in ClientRec /\ k.op = client.op /\ k.active = client.active /\ k.pipeline = client.pipeline
        /\ k.writing = client.writing /\ k.life = client.life /\ k.timedOut = client.timedOut
        /\ k.disconnecting = client.disconnecting /\ k.socket = client.socket
    BY <1>1, <2>2 DEF ClientRec
  <2> HIDE DEF k
  <2>4. FitsBut(k, login)
    BY <1>1, <1>2, <2>3, LoginState
  <2>5. "greeting" \in Reading /\ "greeting" \in LoginOp
    BY DEF Reading, LoginOp
  <2>6. Unseen(AsyncReadResponse(k, login, "greeting"))
    BY <1>1, <2>3, <2>4, <2>5, ReadService
  <2>7. QED
    BY <2>1, <2>6, ContinueService DEF k
<1>4. CASE ErrorConnecting(client)
  <2>1. FitsBut(client, login)
    BY <1>1, <1>2, LoginState
  <2>2. QED
    BY <1>1, <1>4, <2>1, ErrorConnectingService
<1>5. QED
  BY <1>3, <1>4 DEF HandleAsyncHandshake

LEMMA ReadLoginLineService ==
  ASSUME ServiceInv, ReadLoginLine
  PROVE  KeepsService
<1> DEFINE code == Status(Head(client.response))
           step == client.op[login]
<1>1. client.response # <<>> /\ step \in Reading
  BY DEF ReadLoginLine, Receives
<1>2. \/ step = "greeting" /\ Continue(AsyncWriteRequest(Consumed, login))
      \/ step = "user" /\ Continue(AsyncReadResponse(Consumed, login, "pass"))
      \/ \E how \in {"OK", "ReconnectRetry", "Error", "DisconnectClient"} : End(Consumed, login, how)
  BY DEF ReadLoginLine
<1> HIDE DEF code
<1> DEFINE n == Consumed
<1>3. /\ Fits(n) /\ n \in ClientRec /\ n.op = client.op /\ n.active = client.active
      /\ n.pipeline = client.pipeline /\ n.writing = client.writing /\ n.life = client.life
      /\ n.timedOut = client.timedOut /\ n.disconnecting = client.disconnecting
      /\ n.socket = client.socket /\ n.response \in Seq(Line)
  BY <1>1, ConsumedState
<1>4. Fits(client) /\ SocketOK(client) /\ login \in Command /\ login \notin Article
  BY ConnectionAssumption DEF ServiceInv, Command
<1>5. step \notin {"none", "resolve", "connect", "handshake", "write", "sent", "queued"}
  BY <1>1, <1>4, ReadingOps
<1>6. client.pipeline = <<>>
  BY <1>4, <1>5, LoginAlone
<1> HIDE DEF n
<1>7. FitsBut(n, login)
  BY <1>3, <1>4, <1>5, ReaderAside
<1>8. CASE Continue(AsyncWriteRequest(n, login))
  <2> DEFINE m == AsyncWriteRequest(n, login)
  <2>1. Writes(m, n, login)
    BY <1>3, <1>4, WriteRequestEffect
  <2> HIDE DEF m
  <2>2. Fits(m) /\ \A d \in Command : m.op[d] # "none" <=> d = login \/ n.op[d] # "none"
    BY <1>3, <1>4, <1>6, <1>7, <2>1, FitsWrites
  <2>3. /\ m.life = client.life /\ m.timedOut = client.timedOut
        /\ m.disconnecting = client.disconnecting /\ m.socket = client.socket
    BY <1>3, <2>1 DEF Writes
  <2>4. SocketOK(m)
    BY <1>4, <1>5, <2>3 DEF SocketOK
  <2>5. Unseen(m)
    BY <1>3, <1>5, <2>2, <2>3, <2>4 DEF Unseen
  <2>6. Continue(m)
    BY <1>8 DEF m
  <2>7. QED
    BY <2>5, <2>6, ContinueService
<1>9. CASE Continue(AsyncReadResponse(n, login, "pass"))
  <2>1. "pass" \in Reading /\ "pass" \in LoginOp
    BY DEF Reading, LoginOp
  <2>2. Unseen(AsyncReadResponse(n, login, "pass"))
    BY <1>3, <1>4, <1>5, <1>7, <2>1, ReadService
  <2>3. QED
    BY <1>9, <2>2, ContinueService
<1>10. CASE \E how \in {"OK", "ReconnectRetry", "Error", "DisconnectClient"} : End(n, login, how)
  <2>1. PICK how \in {"OK", "ReconnectRetry", "Error", "DisconnectClient"} : End(n, login, how)
    BY <1>10
  <2>2. how \in Codes(login)
    BY <2>1 DEF Codes, Code
  <2>3. Before(n, login, how)
    BY <1>3, <1>5, <1>7 DEF Before
  <2>4. QED
    BY <1>4, <1>5, <2>1, <2>2, <2>3, EndService
<1>11. QED
  BY <1>2, <1>8, <1>9, <1>10, Zenon DEF n

LEMMA LoginReadFailsService ==
  ASSUME ServiceInv, LoginReadFails
  PROVE  KeepsService
<1> DEFINE n == CancelTimeout(client)
<1>1. client.op[login] \in Reading /\ ErrorConnecting(n)
  BY DEF LoginReadFails, ReadFails
<1>2. Quiet(n, client) /\ Fits(n) /\ n.response \in Seq(Line)
  BY CancelTimeoutState
<1> HIDE DEF n
<1>3. Fits(client) /\ login \in Command
  BY DEF ServiceInv, Command
<1>4. client.op[login] \notin {"none", "resolve", "connect", "handshake", "write", "sent", "queued"}
  BY <1>1, <1>3, ReadingOps
<1>5. n.op[login] \notin {"none", "write", "sent", "queued"}
  BY <1>2, <1>4 DEF Quiet
<1>6. FitsBut(n, login)
  BY <1>2, <1>3, <1>5, ReaderAside
<1>7. QED
  BY <1>1, <1>2, <1>4, <1>6, ErrorConnectingService DEF Quiet

\* The request that is sent changes nothing that the dispatcher sees.
LEMMA SentService ==
  ASSUME ServiceInv, NEW c \in Command, Writable(c), NEW answers \in Seq(Line)
  PROVE  Unseen(Sent(c, answers))
<1> DEFINE m == Sent(c, answers)
           op == [client.op EXCEPT ![c] = "sent"]
<1>1. /\ Fits(client) /\ SocketOK(client) /\ client \in ClientRec
      /\ client.op \in [Command -> Op] /\ client.response \in Seq(Line) /\ "sent" \in Op
  BY DEF ServiceInv, Fits, ClientRec, Op
<1>2. client.op[c] = "write" /\ client.socket \in {"open", "eof"}
  BY DEF Writable
<1>3. op \in [Command -> Op]
  BY <1>1
<1> DEFINE response == client.response \o answers
<1>4. response \in Seq(Line)
  BY <1>1
<1>5. m = IF client.socket = "open" THEN [client EXCEPT !.op = op, !.response = response]
          ELSE [client EXCEPT !.op = op, !.socket = "reset"]
  BY <1>1 DEF Sent, ClientRec
<1> HIDE DEF m, op, response
<1>6. /\ m \in ClientRec /\ m.op = op /\ m.active = client.active /\ m.pipeline = client.pipeline
      /\ m.writing = client.writing /\ m.life = client.life /\ m.timedOut = client.timedOut
      /\ m.disconnecting = client.disconnecting /\ m.socket # "closed"
  <2>1. CASE client.socket = "open"
    <3>1. m = [client EXCEPT !.op = op, !.response = response]
      BY <1>5, <2>1
    <3>2. m \in ClientRec
      BY <1>1, <1>3, <1>4, <3>1 DEF ClientRec
    <3>3. /\ m.op = op /\ m.active = client.active /\ m.pipeline = client.pipeline
          /\ m.writing = client.writing /\ m.life = client.life /\ m.timedOut = client.timedOut
          /\ m.disconnecting = client.disconnecting /\ m.socket = client.socket
      BY <1>1, <3>1 DEF ClientRec
    <3>4. QED
      BY <2>1, <3>2, <3>3
  <2>2. CASE client.socket # "open"
    <3>1. m = [client EXCEPT !.op = op, !.socket = "reset"]
      BY <1>5, <2>2
    <3>2. m \in ClientRec
      BY <1>1, <1>3, <3>1 DEF ClientRec
    <3>3. /\ m.op = op /\ m.active = client.active /\ m.pipeline = client.pipeline
          /\ m.writing = client.writing /\ m.life = client.life /\ m.timedOut = client.timedOut
          /\ m.disconnecting = client.disconnecting /\ m.socket = "reset"
      BY <1>1, <3>1 DEF ClientRec
    <3>4. QED
      BY <3>2, <3>3
  <2>3. QED
    BY <2>1, <2>2
<1>7. m.op = [client.op EXCEPT ![c] = "sent"]
  BY <1>6 DEF op
<1>8. Fits(m) /\ \A d \in Command : m.op[d] # "none" <=> client.op[d] # "none"
  BY <1>1, <1>2, <1>6, <1>7, FitsMoves
<1>9. SocketOK(m)
  BY <1>1, <1>6 DEF SocketOK
<1>10. Unseen(m)
  BY <1>6, <1>8, <1>9 DEF Unseen
<1>11. QED
  BY <1>10 DEF m

LEMMA LoginAnswerLines ==
  ASSUME NEW answers \in LoginAnswers
  PROVE  answers \in Seq(Line)
<1> DEFINE status(k) == [is |-> "status", code |-> k, of |-> login]
<1>1. status(381) \in Line /\ status(281) \in Line /\ status(502) \in Line /\ status(400) \in Line
  BY StatusLine DEF Command
<1> DEFINE granted == <<status(381), status(281)>>
           refused == <<status(381), status(502)>>
           bad == <<status(400)>>
           denied == <<status(502)>>
<1>2. answers \in {granted, refused, bad, denied}
  BY DEF LoginAnswers
<1> HIDE DEF status
<1>3. granted \in Seq(Line) /\ refused \in Seq(Line) /\ bad \in Seq(Line) /\ denied \in Seq(Line)
  BY <1>1
<1> HIDE DEF granted, refused, bad, denied
<1>4. QED
  BY <1>2, <1>3

LEMMA WriteLoginService ==
  ASSUME ServiceInv, WriteLogin
  PROVE  KeepsService
<1>1. PICK answers \in LoginAnswers : Continue(Sent(login, answers))
  BY DEF WriteLogin
<1>2. Writable(login) /\ login \in Command /\ answers \in Seq(Line)
  BY LoginAnswerLines DEF WriteLogin, Command
<1>3. QED
  BY <1>1, <1>2, SentService, ContinueService

LEMMA HandleLoginRequestService ==
  ASSUME ServiceInv, HandleLoginRequest
  PROVE  KeepsService
<1> DEFINE n == AfterWrite
<1>1. WriteEnds(login) /\ (Continue(AsyncReadResponse(n, login, "user")) \/ ErrorConnecting(n))
  BY DEF HandleLoginRequest, WriteFails
<1>2. /\ FitsBut(n, login) /\ login \in Command /\ client.op[login] \in {"write", "sent"}
      /\ n.op = client.op /\ n.life = client.life
      /\ n.timedOut = client.timedOut /\ n.disconnecting = client.disconnecting
      /\ n.socket = client.socket /\ n.response \in Seq(Line)
  BY <1>1, AfterWriteState
<1> HIDE DEF n
<1>3. CASE Continue(AsyncReadResponse(n, login, "user"))
  <2>1. "user" \in Reading /\ "user" \in LoginOp
    BY DEF Reading, LoginOp
  <2>2. Unseen(AsyncReadResponse(n, login, "user"))
    BY <1>2, <2>1, ReadService
  <2>3. QED
    BY <1>3, <2>2, ContinueService
<1>4. CASE ErrorConnecting(n)
  BY <1>2, <1>4, ErrorConnectingService
<1>5. QED
  BY <1>1, <1>3, <1>4

-----------------------------------------------------------------------------
(* The actions of an article.                                              *)

LEMMA AnswerLines ==
  ASSUME NEW a \in Article
  PROVE  Answer(a) \in Seq(Line) /\ Len(Answer(a)) \in {1, 3}
<1> DEFINE status(k) == [is |-> "status", code |-> k, of |-> a]
           data == [is |-> "data", of |-> a]
           end == [is |-> "end", of |-> a]
<1>1. status(430) \in Line /\ status(222) \in Line
  BY StatusLine DEF Command
<1>2. data \in Line /\ end \in Line
  BY DEF Line
<1>3. Answer(a) = IF a \in setting.absent THEN <<status(430)>> ELSE <<status(222), data, end>>
  BY DEF Answer
<1> HIDE DEF status, data, end
<1>4. /\ <<status(430)>> \in Seq(Line) /\ Len(<<status(430)>>) = 1
      /\ <<status(222), data, end>> \in Seq(Line) /\ Len(<<status(222), data, end>>) = 3
  BY <1>1, <1>2
<1>5. CASE a \in setting.absent
  BY <1>3, <1>4, <1>5
<1>6. CASE a \notin setting.absent
  BY <1>3, <1>4, <1>6
<1>7. QED
  BY <1>5, <1>6

LEMMA RepeatedLines ==
  ASSUME NEW s \in Seq(Line), Len(s) \in {1, 3}, NEW n \in Nat
  PROVE  /\ Repeated(s, n) \in Seq(Line) /\ Len(Repeated(s, n)) = n * Len(s)
         /\ \A i \in 1 .. n * Len(s) : Repeated(s, n)[i] = s[1 + ((i - 1) % Len(s))]
<1>1. n * Len(s) \in Nat
  BY DEF Repeated
<1>2. \A i \in 1 .. n * Len(s) : 1 + ((i - 1) % Len(s)) \in 1 .. Len(s)
  <2>1. CASE Len(s) = 1
    BY <2>1
  <2>2. CASE Len(s) = 3
    BY <2>2
  <2>3. QED
    BY <2>1, <2>2
<1>3. \A i \in 1 .. n * Len(s) : s[1 + ((i - 1) % Len(s))] \in Line
  BY <1>2
<1> DEFINE last == n * Len(s)
<1>4. Repeated(s, n) = [i \in 1 .. last |-> s[1 + ((i - 1) % Len(s))]]
  BY DEF Repeated
<1> DEFINE item(i) == s[1 + ((i - 1) % Len(s))]
<1>5. \A i \in 1 .. last : item(i) \in Line
  BY <1>3
<1>6. Repeated(s, n) = [i \in 1 .. last |-> item(i)]
  BY <1>4
<1>7. last \in Nat
  BY <1>1
<1> HIDE DEF last, item
<1>8. Repeated(s, n) \in [1 .. last -> Line]
  BY <1>5, <1>6
<1>9. Repeated(s, n) \in Seq(Line) /\ Len(Repeated(s, n)) = last
  BY <1>7, <1>8
<1>10. \A i \in 1 .. last : Repeated(s, n)[i] = item(i)
  BY <1>6
<1>11. QED
  BY <1>9, <1>10 DEF last, item

LEMMA ArticleStates ==
  ASSUME ServiceInv, NEW a \in Article, NEW r \in ArticleRec,
         article' = [article EXCEPT ![a] = r]
  PROVE  /\ article' \in [Article -> ArticleRec]
         /\ \A b \in Article : article'[b] = IF b = a THEN r ELSE article[b]
<1>1. article \in [Article -> ArticleRec]
  BY DEF ServiceInv
<1>2. QED
  BY <1>1

LEMMA ArticleUsed ==
  ASSUME ServiceInv, NEW a \in Article
  PROVE  /\ a \in Command /\ a # login /\ login \in Command
         /\ client \in ClientRec /\ Fits(client) /\ SocketOK(client) /\ setting \in Setting
         /\ article \in [Article -> ArticleRec] /\ article[a] \in ArticleRec
         /\ article[a].request \in Nat /\ article[a].got \in Seq(Line)
         /\ article[a].state = "running" <=> client.op[a] # "none"
<1>1. a \in Command /\ a # login /\ login \in Command
  BY ConnectionAssumption DEF Command
<1>2. /\ client \in ClientRec /\ Fits(client) /\ SocketOK(client) /\ setting \in Setting
      /\ article \in [Article -> ArticleRec]
      /\ article[a].state = "running" <=> client.op[a] # "none"
  BY DEF ServiceInv, Fits
<1>3. article[a] \in ArticleRec
  BY <1>2
<1>4. article[a].request \in Nat /\ article[a].got \in Seq(Line)
  BY <1>3 DEF ArticleRec
<1>5. QED
  BY <1>1, <1>2, <1>3, <1>4

\* There is room for a command only when the login is over.
LEMMA RunAside ==
  ASSUME ServiceInv, NEW a \in Article, HasCapacity(client), article[a].state = "waiting"
  PROVE  /\ FitsBut(client, a) /\ client.op[a] = "none" /\ client.op[login] = "none"
         /\ a \notin client.active
         /\ client.pipeline # <<>> => client.active # {}
<1>1. client.op[a] = "none" /\ client.op[login] = "none" /\ a # login /\ a \in Command
  BY ArticleUsed DEF HasCapacity
<1>2. Fits(client)
  BY DEF ServiceInv
<1>3. FitsBut(client, a)
  BY <1>1, <1>2, FitsAside
<1>4. a \notin client.active
  BY <1>1, <1>2 DEF Fits
<1>5. QED
  BY <1>1, <1>2, <1>3, <1>4 DEF Fits

LEMMA RunGrouplessService ==
  ASSUME ServiceInv, NEW a \in Article, RunGroupless(a)
  PROVE  KeepsService
<1>1. /\ FitsBut(client, a) /\ client.op[a] = "none" /\ client.op[login] = "none"
      /\ article[a].state = "waiting" /\ client.life = "up" /\ End(client, a, "RetryOther")
  BY RunAside DEF RunGroupless
<1>2. a \in Command /\ client \in ClientRec /\ SocketOK(client) /\ "RetryOther" \in Code
      /\ client.response \in Seq(Line)
  BY ArticleUsed DEF Code, ClientRec
<1>3. PICK arrived \in Arrived(client) : client' = OnDone(client, a, "RetryOther", arrived)
  BY <1>1 DEF End
<1>4. arrived \in Seq(Line)
  BY <1>2, ArrivedLines
<1>5. Ends(client', client, a, "RetryOther", arrived)
  BY <1>2, <1>3, <1>4, OnDoneEffect
<1>6. Ending(client, a, "RetryOther") = {a}
  BY DEF Ending
<1>7. /\ Fits(client')
      /\ \A d \in Command : client'.op[d] # "none" <=> client.op[d] # "none" /\ d # a
  BY <1>1, <1>2, <1>4, <1>5, <1>6, FitsEnds
<1>8. /\ client'.life = client.life /\ client'.timedOut = client.timedOut
      /\ client'.disconnecting = client.disconnecting /\ client'.socket = client.socket
  BY <1>1, <1>5 DEF Ends, Leaving
<1>9. SocketOK(client')
  BY <1>1, <1>2, <1>8 DEF SocketOK
<1>10. Unseen(client')
  BY <1>1, <1>7, <1>8, <1>9 DEF Unseen
<1>11. /\ setting' = setting /\ article' \in [Article -> ArticleRec]
       /\ \A b \in Article : article'[b].state = "running" <=> article[b].state = "running"
  BY <1>1, <1>2, <1>6, EndArticles
<1>12. QED
  BY <1>10, <1>11, SameService

LEMMA RunService ==
  ASSUME ServiceInv, NEW a \in Article, Run(a)
  PROVE  KeepsService
<1>1. /\ FitsBut(client, a) /\ client.op[a] = "none" /\ client.op[login] = "none"
      /\ a \notin client.active
      /\ client.pipeline # <<>> => client.active # {}
      /\ article[a].state = "waiting" /\ client.life = "up"
      /\ client' = AsyncWriteRequest(client, a) /\ setting' = setting
  BY RunAside DEF Run
<1>2. a \in Command /\ client \in ClientRec /\ SocketOK(client) /\ article[a].request \in Nat
      /\ login \in Command /\ a # login
  BY ArticleUsed
<1>3. Writes(client', client, a)
  BY <1>1, <1>2, WriteRequestEffect
<1>4. /\ Fits(client')
      /\ \A d \in Command : client'.op[d] # "none" <=> d = a \/ client.op[d] # "none"
  BY <1>1, <1>2, <1>3, FitsWrites
<1>5. /\ client'.life = client.life /\ client'.timedOut = client.timedOut
      /\ client'.disconnecting = client.disconnecting /\ client'.socket = client.socket
  BY <1>3 DEF Writes
<1>6. SocketOK(client')
  BY <1>1, <1>2, <1>5 DEF SocketOK
<1> DEFINE r == [state |-> "running", request |-> article[a].request + 1, got |-> <<>>]
<1>7. r \in ArticleRec /\ r.state = "running"
  <2>1. article[a].request + 1 \in Nat /\ <<>> \in Seq(Line)
    BY <1>2
  <2>2. QED
    BY <2>1 DEF ArticleRec
<1>8. article' = [article EXCEPT ![a] = r]
  BY DEF Run
<1> HIDE DEF r
<1>9. /\ article' \in [Article -> ArticleRec]
      /\ \A b \in Article : article'[b] = IF b = a THEN r ELSE article[b]
  BY <1>7, <1>8, ArticleStates
<1>10. \A b \in Article : article'[b].state = "running" <=> client'.op[b] # "none"
  BY <1>4, <1>7, <1>9 DEF ServiceInv, Command
<1>11. ServiceInv'
  BY <1>1, <1>4, <1>6, <1>9, <1>10 DEF ServiceInv
<1>12. Service!Run(a)
  <2>1. Busy(client)' = Busy(client) \cup {a}
    BY <1>2, <1>4 DEF Busy
  <2>2. a \notin Busy(client) /\ login \notin Busy(client)
    BY <1>1 DEF Busy
  <2>3. QED
    BY <1>1, <1>5, <2>1, <2>2 DEF Service!Run
<1>13. QED
  BY <1>11, <1>12 DEF KeepsService, Service!Next

LEMMA WriteBodyService ==
  ASSUME ServiceInv, NEW a \in Article, WriteBody(a)
  PROVE  KeepsService
<1> DEFINE answers == Repeated(Answer(a), article[a].request)
<1>1. Writable(a) /\ client' = Sent(a, answers) /\ setting' = setting /\ article' = article
  BY DEF WriteBody
<1>2. a \in Command /\ article[a].request \in Nat /\ article \in [Article -> ArticleRec]
  BY ArticleUsed
<1>3. answers \in Seq(Line)
  BY <1>2, AnswerLines, RepeatedLines
<1> HIDE DEF answers
<1>4. Unseen(client')
  BY <1>1, <1>2, <1>3, SentService
<1>5. QED
  BY <1>1, <1>2, <1>4, SameService

LEMMA HandleBodyResponseService ==
  ASSUME ServiceInv, NEW a \in Article, HandleBodyResponse(a)
  PROVE  KeepsService
<1> DEFINE n == AfterWrite
<1>1. /\ a \in Command /\ a # login /\ article[a] \in ArticleRec /\ article \in [Article -> ArticleRec]
      /\ article[a].state = "running" <=> client.op[a] # "none"
  BY ArticleUsed
<1>2. WriteEnds(a)
  BY DEF HandleBodyResponse, WriteFails
<1>3. /\ FitsBut(n, a) /\ client.op[a] \in {"write", "sent"}
      /\ n.op = client.op /\ n.life = client.life
      /\ n.timedOut = client.timedOut /\ n.disconnecting = client.disconnecting
      /\ n.socket = client.socket /\ n.response \in Seq(Line)
  BY <1>2, AfterWriteState
<1>4. \/ /\ client' = AsyncReadResponse(n, a, "status")
         /\ article' = [article EXCEPT ![a].request = 0] /\ setting' = setting
      \/ HandleError(n, a)
  BY DEF HandleBodyResponse
<1> HIDE DEF n
<1>5. CASE HandleError(n, a)
  BY <1>3, <1>5, HandleErrorService
<1>6. CASE /\ client' = AsyncReadResponse(n, a, "status")
           /\ article' = [article EXCEPT ![a].request = 0] /\ setting' = setting
  <2>1. "status" \in Reading /\ "status" \in ArticleOp
    BY DEF Reading, ArticleOp
  <2>2. client.op[login] # "resolve"
    BY <1>1, <1>3 DEF FitsBut
  <2>3. Unseen(client')
    BY <1>1, <1>3, <1>6, <2>1, <2>2, ReadService
  <2> DEFINE r == [article[a] EXCEPT !.request = 0]
  <2>4. r \in ArticleRec /\ r.state = article[a].state
    BY <1>1 DEF ArticleRec
  <2>5. article' = [article EXCEPT ![a] = r]
    BY <1>6
  <2> HIDE DEF r
  <2>6. /\ article' \in [Article -> ArticleRec]
        /\ \A b \in Article : article'[b] = IF b = a THEN r ELSE article[b]
    BY <2>4, <2>5, ArticleStates
  <2>7. \A b \in Article : article'[b].state = "running" <=> article[b].state = "running"
    BY <2>4, <2>6
  <2>8. QED
    BY <1>6, <2>3, <2>6, <2>7, SameService
<1>7. QED
  BY <1>4, <1>5, <1>6

\* The client in which an article that reads has its line.
LEMMA ReadingState ==
  ASSUME ServiceInv, NEW a \in Article, client.op[a] \in {"status", "data"}, client.response # <<>>,
         NEW n, n = Consumed
  PROVE  /\ FitsBut(n, a) /\ Fits(n) /\ n \in ClientRec /\ n.op = client.op
         /\ n.active = client.active /\ n.pipeline = client.pipeline
         /\ n.writing = client.writing /\ n.life = client.life
         /\ n.timedOut = client.timedOut /\ n.disconnecting = client.disconnecting
         /\ n.socket = client.socket /\ n.response = Tail(client.response)
         /\ n.response \in Seq(Line) /\ client.op[login] = "none"
         /\ client.response \in Seq(Line) /\ Head(client.response) \in Line
<1>1. /\ Fits(n) /\ n \in ClientRec /\ n.op = client.op /\ n.active = client.active
      /\ n.pipeline = client.pipeline /\ n.writing = client.writing /\ n.life = client.life
      /\ n.timedOut = client.timedOut /\ n.disconnecting = client.disconnecting
      /\ n.socket = client.socket /\ n.response = Tail(client.response)
      /\ n.response \in Seq(Line)
      /\ client.response \in Seq(Line) /\ Head(client.response) \in Line
  BY ConsumedState
<1>2. a \in Command /\ Fits(client)
  BY ArticleUsed
<1>3. FitsBut(n, a)
  BY <1>1, <1>2, ReaderAside
<1>4. client.op[login] = "none"
  BY <1>2, ReadingOps
<1>5. QED
  BY <1>1, <1>3, <1>4

LEMMA DataService ==
  ASSUME ServiceInv, NEW a \in Article, client.op[a] \in {"status", "data"},
         NEW n, Fits(n), n.op = client.op, n.life = client.life,
         n.timedOut = client.timedOut, n.disconnecting = client.disconnecting,
         n.socket = client.socket
  PROVE  Unseen(AsyncReadDataResponse(n, a))
<1> DEFINE m == AsyncReadDataResponse(n, a)
           op == [n.op EXCEPT ![a] = "data"]
<1>1. a \in Command /\ SocketOK(client) /\ n \in ClientRec /\ "data" \in Op
  BY ArticleUsed DEF Fits, Op, Reading
<1>2. m = [n EXCEPT !.op = op, !.timer = "armed"]
  BY <1>1 DEF AsyncReadDataResponse, SetTimeout, ClientRec
<1>3. op \in [Command -> Op] /\ op = [n.op EXCEPT ![a] = "data"]
  BY <1>1 DEF ClientRec
<1> HIDE DEF m, op
<1>4. m \in ClientRec
  BY <1>1, <1>2, <1>3 DEF ClientRec
<1>5. /\ m.op = op /\ m.active = n.active /\ m.pipeline = n.pipeline
      /\ m.writing = n.writing /\ m.life = n.life /\ m.timedOut = n.timedOut
      /\ m.disconnecting = n.disconnecting /\ m.socket = n.socket
  BY <1>1, <1>2 DEF ClientRec
<1>6. Fits(m) /\ \A d \in Command : m.op[d] # "none" <=> n.op[d] # "none"
  BY <1>1, <1>3, <1>4, <1>5, FitsMoves
<1>7. SocketOK(m)
  <2>1. m.timedOut => m.disconnecting
    BY <1>1, <1>5 DEF SocketOK
  <2>2. Fits(client) /\ client.op[login] = "none"
    BY <1>1, ReadingOps, ArticleUsed
  <2>3. QED
    BY <1>1, <1>5, <2>1, <2>2 DEF SocketOK
<1>8. Unseen(m)
  BY <1>5, <1>6, <1>7 DEF Unseen
<1>9. QED
  BY <1>8 DEF m

LEMMA ReadStatusService ==
  ASSUME ServiceInv, NEW a \in Article, ReadStatus(a)
  PROVE  KeepsService
<1> DEFINE n == Consumed
<1>1. client.op[a] = "status" /\ client.response # <<>>
  BY DEF ReadStatus, Receives
<1>2. \/ Continue(AsyncReadDataResponse(n, a))
      \/ \E code \in {"RetryOther", "ReconnectRetry"} : End(n, a, code)
  BY DEF ReadStatus
<1>3. /\ FitsBut(n, a) /\ Fits(n) /\ n.op = client.op /\ n.life = client.life
      /\ n.timedOut = client.timedOut /\ n.disconnecting = client.disconnecting
      /\ n.socket = client.socket /\ n.response \in Seq(Line) /\ client.op[login] = "none"
  BY <1>1, ReadingState
<1> HIDE DEF n
<1>4. a \in Command /\ a # login
  BY ArticleUsed
<1>5. CASE Continue(AsyncReadDataResponse(n, a))
  <2>1. Unseen(AsyncReadDataResponse(n, a))
    BY <1>1, <1>3, DataService
  <2>2. QED
    BY <1>5, <2>1, ContinueService
<1>6. CASE \E code \in {"RetryOther", "ReconnectRetry"} : End(n, a, code)
  <2>1. PICK code \in {"RetryOther", "ReconnectRetry"} : End(n, a, code)
    BY <1>6
  <2>2. code \in Codes(a)
    BY <1>4, <2>1 DEF Codes, Code
  <2>3. Before(n, a, code)
    BY <1>3 DEF Before
  <2>4. QED
    BY <1>1, <1>4, <2>1, <2>2, <2>3, EndService
<1>7. QED
  BY <1>2, <1>5, <1>6, Zenon

LEMMA ReadDataService ==
  ASSUME ServiceInv, NEW a \in Article, ReadData(a)
  PROVE  KeepsService
<1> DEFINE n == Consumed
           line == Head(client.response)
           r == [article[a] EXCEPT !.got = Append(article[a].got, line)]
<1>1. client.op[a] = "data" /\ client.response # <<>>
  BY DEF ReadData, Receives
<1>2. \/ End(n, a, "OK")
      \/ /\ client' = AsyncReadDataResponse(n, a)
         /\ article' = [article EXCEPT ![a] = r] /\ setting' = setting
  BY DEF ReadData
<1>3. /\ FitsBut(n, a) /\ Fits(n) /\ n.op = client.op /\ n.life = client.life
      /\ n.timedOut = client.timedOut /\ n.disconnecting = client.disconnecting
      /\ n.socket = client.socket /\ n.response \in Seq(Line) /\ client.op[login] = "none"
      /\ line \in Line
  BY <1>1, ReadingState
<1> HIDE DEF n, line
<1>4. /\ a \in Command /\ a # login /\ article[a] \in ArticleRec /\ article[a].got \in Seq(Line)
      /\ article \in [Article -> ArticleRec]
  BY ArticleUsed
<1>5. CASE End(n, a, "OK")
  <2>1. "OK" \in Codes(a)
    BY <1>4 DEF Codes, Code
  <2>2. Before(n, a, "OK")
    BY <1>3 DEF Before
  <2>3. QED
    BY <1>1, <1>4, <1>5, <2>1, <2>2, EndService
<1>6. CASE /\ client' = AsyncReadDataResponse(n, a)
           /\ article' = [article EXCEPT ![a] = r] /\ setting' = setting
  <2>1. Unseen(client')
    BY <1>1, <1>3, <1>6, DataService
  <2>2. r \in ArticleRec /\ r.state = article[a].state
    <3> DEFINE got == Append(article[a].got, line)
    <3>1. got \in Seq(Line)
      BY <1>3, <1>4
    <3> HIDE DEF got
    <3>2. [article[a] EXCEPT !.got = got] \in ArticleRec
          /\ [article[a] EXCEPT !.got = got].state = article[a].state
      BY <1>4, <3>1 DEF ArticleRec
    <3>3. QED
      BY <3>2 DEF got
  <2> HIDE DEF r
  <2>3. /\ article' \in [Article -> ArticleRec]
        /\ \A b \in Article : article'[b] = IF b = a THEN r ELSE article[b]
    BY <1>6, <2>2, ArticleStates
  <2>4. \A b \in Article : article'[b].state = "running" <=> article[b].state = "running"
    BY <2>2, <2>3
  <2>5. QED
    BY <1>6, <2>1, <2>3, <2>4, SameService
<1>7. QED
  BY <1>2, <1>5, <1>6, Zenon

LEMMA BodyReadFailsService ==
  ASSUME ServiceInv, NEW a \in Article, BodyReadFails(a)
  PROVE  KeepsService
<1> DEFINE n == CancelTimeout(client)
<1>1. client.op[a] \in Reading /\ HandleError(n, a)
  BY DEF BodyReadFails, ReadFails
<1>2. Quiet(n, client) /\ Fits(n) /\ n.response \in Seq(Line)
  BY CancelTimeoutState
<1> HIDE DEF n
<1>3. Fits(client) /\ a \in Command
  BY ArticleUsed
<1>4. client.op[a] \notin {"none", "resolve", "connect", "handshake", "write", "sent", "queued"}
  BY <1>1, <1>3, ReadingOps
<1>5. n.op[a] \notin {"none", "write", "sent", "queued"}
  BY <1>2, <1>4 DEF Quiet
<1>6. FitsBut(n, a)
  BY <1>2, <1>3, <1>5, ReaderAside
<1>7. QED
  BY <1>1, <1>2, <1>4, <1>6, HandleErrorService DEF Quiet

-----------------------------------------------------------------------------
(* The timer, the dispatcher and the server.                               *)

LEMMA ClientTypes ==
  ASSUME ServiceInv
  PROVE  /\ client \in ClientRec /\ Fits(client) /\ SocketOK(client)
         /\ client.response \in Seq(Line) /\ article \in [Article -> ArticleRec]
BY DEF ServiceInv, Fits, ClientRec

LEMMA TimerExpiresService ==
  ASSUME ServiceInv, TimerExpires
  PROVE  KeepsService
<1> DEFINE m == [client EXCEPT !.timer = "expired"]
<1>1. Continue(m)
  BY DEF TimerExpires
<1>2. client \in ClientRec
  BY ClientTypes
<1>3. /\ m \in ClientRec /\ m.op = client.op /\ m.active = client.active
      /\ m.pipeline = client.pipeline /\ m.writing = client.writing /\ m.life = client.life
      /\ m.timedOut = client.timedOut /\ m.disconnecting = client.disconnecting
      /\ m.socket = client.socket
  BY <1>2 DEF ClientRec
<1> HIDE DEF m
<1>4. Unseen(m)
  BY <1>3, SameUnseen
<1>5. QED
  BY <1>1, <1>4, ContinueService

LEMMA TimerFiresService ==
  ASSUME ServiceInv, TimerFires
  PROVE  KeepsService
<1> DEFINE n == [client EXCEPT !.timer = "off"]
           k == [n EXCEPT !.timedOut = TRUE]
<1>1. \/ Continue(n)
      \/ /\ ~ client.disconnecting /\ ~ client.timedOut
         /\ \E arrived \in Arrived(n) : Continue(Disconnect(k, arrived))
  BY DEF TimerFires
<1>2. client \in ClientRec
  BY ClientTypes
<1>3. /\ n \in ClientRec /\ n.op = client.op /\ n.active = client.active
      /\ n.pipeline = client.pipeline /\ n.writing = client.writing /\ n.life = client.life
      /\ n.timedOut = client.timedOut /\ n.disconnecting = client.disconnecting
      /\ n.socket = client.socket /\ n.response = client.response
  BY <1>2 DEF ClientRec
<1> HIDE DEF n
<1>4. CASE Continue(n)
  BY <1>3, <1>4, SameUnseen, ContinueService
<1>5. CASE /\ ~ client.disconnecting /\ ~ client.timedOut
           /\ \E arrived \in Arrived(n) : Continue(Disconnect(k, arrived))
  <2>1. PICK arrived \in Arrived(n) : Continue(Disconnect(k, arrived))
    BY <1>5, Zenon
  <2>2. arrived \in Seq(Line)
    BY <1>2, <1>3, ArrivedLines, ClientTypes
  <2>3. /\ k \in ClientRec /\ k.op = n.op /\ k.active = n.active /\ k.pipeline = n.pipeline
        /\ k.writing = n.writing /\ k.life = n.life /\ k.timedOut = TRUE
    BY <1>3 DEF ClientRec
  <2> HIDE DEF k
  <2> DEFINE m == Disconnect(k, arrived)
  <2>4. Closes(m, k, arrived)
    BY <2>2, <2>3, DisconnectEffect
  <2>5. client' = m /\ setting' = setting /\ article' = article
    BY <2>1 DEF Continue
  <2> HIDE DEF m
  <2>6. /\ m \in ClientRec /\ m.op = client.op /\ m.active = client.active
        /\ m.pipeline = client.pipeline /\ m.writing = client.writing /\ m.life = client.life
        /\ m.timedOut = TRUE /\ m.disconnecting = TRUE
    BY <1>3, <2>3, <2>4 DEF Closes
  <2>7. Fits(m) /\ SocketOK(m)
    BY <2>6, ClientTypes, FitsSame DEF SocketOK
  <2>8. ServiceInv'
    BY <2>5, <2>6, <2>7 DEF ServiceInv
  <2>9. Service!Timeout
    <3>1. Busy(client)' = Busy(client)
      BY <2>5, <2>6 DEF Busy
    <3>2. QED
      BY <1>5, <2>5, <2>6, <3>1 DEF Service!Timeout
  <2>10. QED
    BY <2>8, <2>9 DEF KeepsService, Service!Next
<1>6. QED
  BY <1>1, <1>4, <1>5, Zenon

LEMMA DisconnectedService ==
  ASSUME ServiceInv, Disconnected
  PROVE  KeepsService
<1>1. /\ client.life = "up"
      /\ \E arrived \in Arrived(client) :
           Continue([Disconnect(client, arrived) EXCEPT !.life = "stopping"])
  BY DEF Disconnected
<1>2. PICK arrived \in Arrived(client) :
        Continue([Disconnect(client, arrived) EXCEPT !.life = "stopping"])
  BY <1>1, Zenon
<1>3. client \in ClientRec /\ arrived \in Seq(Line)
  BY ClientTypes, ArrivedLines
<1> DEFINE k == Disconnect(client, arrived)
<1>4. Closes(k, client, arrived)
  BY <1>3, DisconnectEffect
<1> DEFINE m == [k EXCEPT !.life = "stopping"]
<1>5. client' = m /\ setting' = setting /\ article' = article
  BY <1>2 DEF Continue
<1> HIDE DEF k
<1>6. /\ m \in ClientRec /\ m.op = k.op /\ m.active = k.active /\ m.pipeline = k.pipeline
      /\ m.writing = k.writing /\ m.life = "stopping" /\ m.timedOut = k.timedOut
      /\ m.disconnecting = k.disconnecting
  <2>1. k \in ClientRec
    BY <1>4 DEF Closes
  <2>2. QED
    BY <2>1 DEF ClientRec
<1> HIDE DEF m
<1>7. /\ m.op = client.op /\ m.active = client.active /\ m.pipeline = client.pipeline
      /\ m.writing = client.writing /\ m.timedOut = client.timedOut /\ m.disconnecting = TRUE
  BY <1>4, <1>6 DEF Closes
<1>8. Fits(m) /\ SocketOK(m)
  BY <1>6, <1>7, ClientTypes, FitsSame DEF SocketOK
<1>9. ServiceInv'
  BY <1>5, <1>7, <1>8 DEF ServiceInv
<1>10. Service!Disconnect
  <2>1. Busy(client)' = Busy(client)
    BY <1>5, <1>7 DEF Busy
  <2>2. QED
    BY <1>1, <1>5, <1>6, <1>7, <2>1 DEF Service!Disconnect
<1>11. QED
  BY <1>9, <1>10 DEF KeepsService, Service!Next

\* A client without handlers has no commands: the one that the others wait for
\* would have a handler.
LEMMA NoHandlersNoCommands ==
  ASSUME ServiceInv, ~ Handles(client)
  PROVE  Busy(client) = {}
<1>1. client \in ClientRec /\ Fits(client) /\ Command = Article \cup {login}
  BY ClientTypes DEF Command
<1>2. \A d \in Command : client.op[d] \in {"none", "queued"}
  BY DEF Handles
<1>3. client.active = {}
  BY <1>1, <1>2 DEF Fits, LoginOp, ClientRec
<1>4. client.pipeline = <<>>
  BY <1>1, <1>3 DEF Fits
<1>5. {d \in Command : client.op[d] = "queued"} = {}
  BY <1>1, <1>4, EmptyLists DEF Fits
<1>6. QED
  BY <1>2, <1>5 DEF Busy

LEMMA NewClientFits ==
  /\ NewClient \in ClientRec /\ Fits(NewClient) /\ SocketOK(NewClient)
  /\ Busy(NewClient) = {login} /\ NewClient.op[login] = "resolve"
  /\ \A d \in Article : NewClient.op[d] = "none"
  /\ NewClient.life = "up" /\ ~ NewClient.timedOut /\ ~ NewClient.disconnecting
<1> DEFINE op == [c \in Command |-> IF c = login THEN "resolve" ELSE "none"]
           m == NewClient
<1>1. login \in Command /\ Command = Article \cup {login} /\ login \notin Article
  BY ConnectionAssumption DEF Command
<1>2. op \in [Command -> Op] /\ op[login] = "resolve" /\ \A d \in Article : op[d] = "none"
  BY <1>1 DEF Op
<1> HIDE DEF op
<1>3. /\ m.op = op /\ m.active = {login} /\ m.pipeline = <<>> /\ m.writing = <<>>
      /\ m.life = "up" /\ m.timedOut = FALSE /\ m.disconnecting = FALSE
  BY DEF NewClient, op
<1>4. m \in ClientRec
  <2>1. <<>> \in Seq(Command) /\ <<>> \in Seq(Line) /\ {login} \in SUBSET Command
    BY <1>1
  <2>2. QED
    BY <1>2, <2>1 DEF NewClient, ClientRec, op
<1> HIDE DEF m
<1>5. Fits(m)
  BY <1>2, <1>3, <1>4, FitsLogin DEF LoginOp
<1>6. SocketOK(m)
  BY <1>2, <1>3 DEF SocketOK
<1>7. Busy(m) = {login}
  BY <1>1, <1>2, <1>3 DEF Busy
<1>8. QED
  BY <1>2, <1>3, <1>4, <1>5, <1>6, <1>7 DEF m

LEMMA OnStoppedService ==
  ASSUME ServiceInv, OnStopped
  PROVE  KeepsService
<1>1. Busy(client) = {}
  BY NoHandlersNoCommands DEF OnStopped
<1>2. \A a \in Article : client.op[a] = "none"
  BY <1>1 DEF Busy, Command
<1>3. CASE client.life = "stopping" /\ Continue([client EXCEPT !.life = "stopped"])
  <2> DEFINE m == [client EXCEPT !.life = "stopped"]
  <2>1. client \in ClientRec
    BY ClientTypes
  <2>2. /\ m \in ClientRec /\ m.op = client.op /\ m.active = client.active
        /\ m.pipeline = client.pipeline /\ m.writing = client.writing /\ m.life = "stopped"
        /\ m.timedOut = client.timedOut /\ m.disconnecting = client.disconnecting
    BY <2>1 DEF ClientRec
  <2>3. client' = m /\ setting' = setting /\ article' = article
    BY <1>3 DEF Continue
  <2> HIDE DEF m
  <2>4. Fits(m) /\ SocketOK(m)
    BY <2>2, ClientTypes, FitsSame DEF SocketOK
  <2>5. ServiceInv'
    BY <2>2, <2>3, <2>4 DEF ServiceInv
  <2>6. Busy(client)' = Busy(client)
    BY <2>2, <2>3 DEF Busy
  <2>7. Service!Stopped
    BY <1>1, <1>3, <2>2, <2>3, <2>6 DEF Service!Stopped
  <2>8. QED
    BY <2>5, <2>7 DEF KeepsService, Service!Next
<1>4. CASE client.life = "restarting" /\ client' = NewClient /\ UNCHANGED <<setting, article>>
  <2>1. ServiceInv'
    <3>1. \A a \in Article : article'[a].state = "running" <=> client'.op[a] # "none"
      BY <1>2, <1>4, NewClientFits DEF ServiceInv
    <3>2. QED
      BY <1>4, <3>1, NewClientFits DEF ServiceInv
  <2>2. Busy(client)' = {login}
    BY <1>4, NewClientFits DEF Busy
  <2>3. Service!Stopped
    BY <1>1, <1>4, <2>2, NewClientFits DEF Service!Stopped
  <2>4. QED
    BY <2>1, <2>3 DEF KeepsService, Service!Next
<1>5. QED
  BY <1>3, <1>4 DEF OnStopped

LEMMA ServerClosesService ==
  ASSUME ServiceInv, ServerCloses
  PROVE  KeepsService
<1>1. PICK arrived \in Arrived(client), how \in {"eof", "reset"},
           last \in {<<>>, <<[is |-> "status", code |-> 400, of |-> login]>>} :
        client' = [client EXCEPT !.socket = how, !.response = arrived \o last]
  BY Zenon DEF ServerCloses
<1>2. client \in ClientRec /\ arrived \in Seq(Line) /\ article \in [Article -> ArticleRec]
  BY ClientTypes, ArrivedLines
<1>3. last \in Seq(Line)
  <2> DEFINE line == [is |-> "status", code |-> 400, of |-> login]
  <2>1. line \in Line
    BY StatusLine DEF Command
  <2> HIDE DEF line
  <2>2. <<>> \in Seq(Line) /\ <<line>> \in Seq(Line)
    BY <2>1
  <2>3. QED
    BY <2>2 DEF line
<1> DEFINE response == arrived \o last
<1>4. response \in Seq(Line)
  BY <1>2, <1>3
<1> HIDE DEF response
<1>5. client' = [client EXCEPT !.socket = how, !.response = response]
  BY <1>1 DEF response
<1>6. client' \in ClientRec
  BY <1>2, <1>4, <1>5 DEF ClientRec
<1>7. /\ client'.op = client.op /\ client'.active = client.active
      /\ client'.pipeline = client.pipeline /\ client'.writing = client.writing
      /\ client'.life = client.life /\ client'.timedOut = client.timedOut
      /\ client'.disconnecting = client.disconnecting /\ client'.socket # "closed"
  BY <1>2, <1>5 DEF ClientRec
<1>8. Unseen(client')
  BY <1>6, <1>7, SameUnseen
<1>9. setting' = setting /\ article' = article
  BY DEF ServerCloses
<1>10. QED
  BY <1>2, <1>8, <1>9, SameService

LEMMA ServiceStarts ==
  ASSUME Init
  PROVE  ServiceInv /\ Service!Init
<1> DEFINE r == [state |-> "waiting", request |-> 0, got |-> <<>>]
<1>1. setting \in Setting /\ client = NewClient /\ article = [a \in Article |-> r]
  BY DEF Init
<1>2. r \in ArticleRec /\ r.state # "running"
  BY DEF ArticleRec
<1> HIDE DEF r
<1>3. article \in [Article -> ArticleRec] /\ \A a \in Article : article[a].state # "running"
  BY <1>1, <1>2
<1>4. ServiceInv
  BY <1>1, <1>3, NewClientFits DEF ServiceInv
<1>5. Service!Init
  BY <1>1, NewClientFits DEF Service!Init
<1>6. QED
  BY <1>4, <1>5

LEMMA ServiceSteps ==
  ASSUME ServiceInv, [Next]_vars
  PROVE  KeepsService
<1>1. CASE Next
  <2>1. CASE Login
    BY <2>1, HandleResolveService, HandleConnectService, HandleAsyncHandshakeService,
       ReadLoginLineService, LoginReadFailsService, WriteLoginService, HandleLoginRequestService
    DEF Login
  <2>2. ASSUME NEW a \in Article, RunGroupless(a) PROVE KeepsService
    BY <2>2, RunGrouplessService
  <2>3. ASSUME NEW a \in Article, Run(a) PROVE KeepsService
    BY <2>3, RunService
  <2>4. ASSUME NEW a \in Article, Body(a) PROVE KeepsService
    BY <2>4, WriteBodyService, HandleBodyResponseService, ReadStatusService, ReadDataService,
       BodyReadFailsService DEF Body
  <2>5. CASE TimerExpires \/ TimerFires \/ Disconnected \/ OnStopped \/ ServerCloses
    BY <2>5, TimerExpiresService, TimerFiresService, DisconnectedService, OnStoppedService,
       ServerClosesService
  <2>6. QED
    BY <1>1, <2>1, <2>2, <2>3, <2>4, <2>5 DEF Next
<1>2. CASE UNCHANGED vars
  <2>1. client' = client /\ setting' = setting /\ article' = article
    BY <1>2 DEF vars
  <2>2. Unseen(client)
    BY ClientTypes DEF Unseen
  <2>3. QED
    BY <2>1, <2>2, ClientTypes, SameService
<1>3. QED
  BY <1>1, <1>2

\* A connection is the client that the dispatcher of NewsClientCache assumes:
\* whatever the socket, the timer and the server do, each command that
\* RunCommand gave it ends once, with a code that fits how the connection
\* went, no command is taken once m_done is to replace or give up the client,
\* and OnStopped comes when no command is left.
THEOREM ImplementsService == Spec => ServiceSpec
<1>1. Init => ServiceInv /\ Service!Init
  BY ServiceStarts
<1>2. ServiceInv /\ [Next]_vars => ServiceInv' /\ [Service!Next]_(Service!csvars)
  BY ServiceSteps DEF KeepsService
<1>3. QED
  BY <1>1, <1>2, PTL DEF Spec, ServiceSpec, Service!Spec
=============================================================================
