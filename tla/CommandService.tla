---------------------------- MODULE CommandService ----------------------------
(***************************************************************************)
(* What NewsClientCache promises the files that post GetArticleStream      *)
(* commands, without clients, queues or threads: a command is at one       *)
(* server at a time, never goes back to a server that refused it, reaches  *)
(* a backup server only when every connected primary refused it, and is    *)
(* given up only when every connected server refused it or it was canceled.*)
(***************************************************************************)
CONSTANTS Server, Backup, Command

VARIABLES
  state,     \* "new", "queued", "sent" to a server, or "released" for good
  at,        \* the server a sent command is at, as a set of one server
  refused,   \* the servers that refused a command
  connected, \* the servers the service has connections to
  canceled   \* the commands canceled by stopping the service

svars == <<state, at, refused, connected, canceled>>

Init ==
  /\ state = [c \in Command |-> "new"]
  /\ at = [c \in Command |-> {}]
  /\ refused = [c \in Command |-> {}]
  /\ connected = {}
  /\ canceled = {}

Becomes(c, from, to) ==
  /\ state[c] = from
  /\ state'[c] = to

Idle(c) ==
  /\ state'[c] = state[c]
  /\ at'[c] = at[c]
  /\ refused'[c] = refused[c]

Post(c) ==
  /\ Becomes(c, "new", "queued")
  /\ at'[c] = at[c]
  /\ refused'[c] = refused[c]

Send(c, s) ==
  /\ Becomes(c, "queued", "sent")
  /\ c \notin canceled
  /\ s \in connected \ refused[c]
  /\ s \in Backup => connected \ Backup \subseteq refused[c]
  /\ at'[c] = {s}
  /\ refused'[c] = refused[c]

\* The server refused the command, or the connection was lost.
Return(c) ==
  /\ Becomes(c, "sent", "queued")
  /\ at'[c] = {}
  /\ refused'[c] \in {refused[c], refused[c] \cup at[c]}

\* The article arrived, or the connection was closed under the command.
Finish(c) ==
  /\ Becomes(c, "sent", "released")
  /\ at'[c] = {}
  /\ refused'[c] = refused[c]

GiveUp(c) ==
  /\ Becomes(c, "queued", "released")
  /\ connected \subseteq refused[c] \/ c \in canceled'
  /\ at'[c] = {}
  /\ refused'[c] = refused[c]

\* Several commands may move in one step: Stop releases all that are queued.
Next ==
  /\ \A c \in Command : \/ Idle(c) \/ Post(c) \/ Return(c) \/ Finish(c) \/ GiveUp(c)
                        \/ \E s \in Server : Send(c, s)
  /\ connected' \subseteq Server
  /\ canceled \subseteq canceled' /\ canceled' \subseteq Command

Spec == Init /\ [][Next]_svars
=============================================================================
