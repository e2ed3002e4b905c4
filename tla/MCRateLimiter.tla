--------------------------- MODULE MCRateLimiter ---------------------------
(* Instances of RateLimiter for TLC.                                       *)
EXTENDS RateLimiter

\* Adaptive: 2 tokens per tick, or none but those for what is read; and no limit.
TwoShapes ==
  {[mode |-> "Adaptive", limit |-> 20, background |-> 5],
   [mode |-> "Constant", limit |-> 0, background |-> 0]}
=============================================================================
