----------------------------- MODULE MCConnection -----------------------------
(* Instances of Connection for TLC. *)
EXTENDS Connection

CONSTANTS a1, a2

\* A pipelined server without login, and a secure one with login.
TwoServers ==
  {[ssl |-> FALSE, password |-> FALSE, pipeline |-> 2, absent |-> {a2}, groupless |-> {}],
   [ssl |-> TRUE, password |-> TRUE, pipeline |-> 1, absent |-> {}, groupless |-> {a1}]}
=============================================================================
