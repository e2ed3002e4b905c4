----------------------------- MODULE ClientService -----------------------------
(***************************************************************************)
(* What one NewsClient promises the dispatcher that runs commands on it,   *)
(* without sockets, timers or lines: every command it was given ends once, *)
(* with a code that fits the way the connection went, it takes no command  *)
(* once it is to be replaced, and it reports that it stopped only when no  *)
(* command is left.  NewsClientCache models its clients like this.         *)
(***************************************************************************)
CONSTANTS Article, login

Command == Article \cup {login}

VARIABLES
  running, \* the commands the client was given and did not finish
  link,    \* "open"; "timeout" or "closed" once it was disconnected
  life     \* "up", "restarting" or "stopping" in the bin, or "stopped"

csvars == <<running, link, life>>

\* What a command may end with.
Codes(c) ==
  IF c = login THEN {"OK", "Error", "ReconnectRetry", "DisconnectClient"}
  ELSE {"OK", "RetryOther", "ReconnectRetry"}
         \cup (IF link = "open" THEN {"Error"} ELSE {})
         \cup (IF link = "closed" THEN {"DisconnectClient"} ELSE {})

Init ==
  /\ running = {login}
  /\ link = "open"
  /\ life = "up"

Run(c) ==
  /\ life = "up"
  /\ c \notin running
  /\ login \notin running
  /\ running' = running \cup {c}
  /\ UNCHANGED <<link, life>>

\* The client keeps its place in the dispatcher's list, or leaves it.
Leaves(to) == life' = IF life = "up" THEN to ELSE life

\* One command ends, or several that an error of the connection ends alike.
Done(C, code) ==
  /\ C # {} /\ C \subseteq running
  /\ \A c \in C : code \in Codes(c)
  /\ running' = running \ C
  /\ \/ /\ code = "DisconnectClient"
        /\ Leaves("stopping")
        /\ link' = IF link = "open" THEN "closed" ELSE link
     \/ /\ code = "ReconnectRetry" \/ (code = "OK" /\ link # "open")
        /\ Leaves("restarting") /\ UNCHANGED link
     \/ /\ code \in {"OK", "Error", "RetryOther"}
        /\ UNCHANGED <<life, link>>

Timeout == link = "open" /\ link' = "timeout" /\ UNCHANGED <<running, life>>

Disconnect ==
  /\ life = "up"
  /\ life' = "stopping"
  /\ link' = IF link = "open" THEN "closed" ELSE link
  /\ UNCHANGED running

Stopped ==
  /\ running = {}
  /\ \/ life = "stopping" /\ life' = "stopped" /\ UNCHANGED <<running, link>>
     \/ life = "restarting" /\ life' = "up" /\ running' = {login} /\ link' = "open"

Next ==
  \/ \E c \in Article : Run(c)
  \/ \E C \in SUBSET Command, code \in {"OK", "Error", "RetryOther", "ReconnectRetry",
                                         "DisconnectClient"} : Done(C, code)
  \/ Timeout \/ Disconnect \/ Stopped

Spec == Init /\ [][Next]_csvars
=============================================================================
