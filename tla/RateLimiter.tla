---------------------------- MODULE RateLimiter ----------------------------
(***************************************************************************)
(* The token bucket of the connections (NewsClientSocket.cpp) and the      *)
(* throttling that feeds it (GetRateLimiterConfiguration in                *)
(* NZBDriveIMPL.cpp).                                                      *)
(*                                                                         *)
(* Every socket is a RateLimiterTarget.  What it receives is handed to the *)
(* reader while there are tokens; otherwise the handler of the read is     *)
(* kept as m_paused_handler until the timer of the limiter has paid for    *)
(* it.  A reader has one read at a time (OneReader of Connection), so a    *)
(* target has at most one handler.                                         *)
(*                                                                         *)
(* Everything runs on the io thread, also the constructor of a socket      *)
(* (StartClient in NewsClientCache.cpp); a step is a handler.              *)
(***************************************************************************)
EXTENDS Integers, FiniteSets, FiniteSetsExt, Functions

CONSTANTS
  Target,       \* the sockets that may exist
  Sizes,        \* bytes one async_read_some may return; 0 when it fails
  Shapes,       \* what SetNetworkThrottling may be called with
  Extra,        \* what the adaptive mode adds for the read rate
  MaxReceived,  \* bound: m_network.RXBytes
  MaxInserts    \* bound: sockets made

ASSUME RateLimiterAssumption ==
  /\ IsFiniteSet(Target)
  /\ Sizes \subseteq Nat
  /\ Shapes \subseteq [mode : {"Constant", "Adaptive"}, limit : Nat, background : Nat]
  /\ Extra \subseteq Nat
  /\ MaxReceived \in Nat
  /\ MaxInserts \in Nat

NoHandler == -1

VARIABLES
  targets,      \* m_targets
  available,    \* m_bytesAvailable
  missing,      \* m_bytesMissing
  limited,      \* m_limitEnabled
  paused,       \* m_paused_handler: the bytes it will hand over
  posted,       \* targets whose handler waits in the io service
  stopping,     \* m_stopping; "posted" between Stop and its handler
  timerRunning, \* m_timer_running
  waiting,      \* whether m_timer waits
  fired,        \* whether its callback is in the io service (bound: only one)
  received,     \* m_network.RXBytes
  shape,        \* m_shape
  inserts,
  credit,       \* history: tokens granted, less what was handed over for them
  late,         \* history: targets inserted after the limiter had stopped
  starved       \* history: the timer stopped for want of tokens with a
               \* reader paused

bucket == <<available, missing>>
timer == <<timerRunning, waiting, fired>>
history == <<credit, late, starved>>
vars == <<targets, bucket, limited, paused, posted, stopping, timer, received,
          shape, inserts, history>>

-----------------------------------------------------------------------------
(* RateLimiter::AddTokens.                                                 *)

\* Mutant: what is missing may become less than nothing.
AddTokenBytes_signed(t, n, max) ==
  [available |-> available[t], missing |-> missing[t] - n, spillover |-> 0]

\* RateLimiterTarget::AddTokenBytes for n bytes.
AddTokenBytes(t, n, max) ==
  LET total == IF missing[t] >= n THEN available[t] ELSE available[t] + n - missing[t]
      kept == IF max > 0 /\ total > max THEN max ELSE total IN
  [available |-> kept,
   missing |-> IF missing[t] >= n THEN missing[t] - n ELSE 0,
   spillover |-> total - kept]

\* Mutant: what the full targets leave is not shared.
AddTokens_once(tokens) ==
  LET each == tokens \div Cardinality(targets)
      Spillover(t) == AddTokenBytes(t, each, tokens * 5).spillover IN
  [open |-> {t \in targets : Spillover(t) = 0}, each |-> each,
   rest |-> (tokens % Cardinality(targets)) + MapThenSumSet(Spillover, targets)]

\* A round gives each open target the same number of tokens, each so far; the
\* ones that had none to spare take part in the next, which shares the rest.  A
\* target that is full stays so, whatever it is given: at the end each is what
\* all targets have got.
Round(r, max) ==
  LET each == r.each + r.rest \div Cardinality(r.open)
      spillover == [t \in r.open |-> AddTokenBytes(t, each, max).spillover] IN
  IF r.open = {} \/ r.rest < Cardinality(r.open) THEN r
  ELSE [open |-> {t \in r.open : spillover[t] = 0}, each |-> each,
        rest |-> (r.rest % Cardinality(r.open)) + SumFunctionOnSet(spillover, r.open)]

\* After a round in which no target becomes full there is too little left for
\* another, so there are no more rounds than targets.
AddTokens(tokens) ==
  LET after[n \in 0 .. Cardinality(targets)] ==
        IF n = 0 THEN [open |-> targets, each |-> 0, rest |-> tokens]
        ELSE Round(after[n - 1], tokens * 5)
  IN after[Cardinality(targets)]

-----------------------------------------------------------------------------

TypeOK ==
  /\ targets \subseteq Target
  /\ available \in [Target -> Nat]
  /\ missing \in [Target -> Nat]
  /\ limited \in [Target -> BOOLEAN]
  /\ paused \in [Target -> Nat \cup {NoHandler}]
  /\ posted \subseteq Target
  /\ stopping \in {"no", "posted", "yes"}
  /\ timerRunning \in BOOLEAN /\ waiting \in BOOLEAN /\ fired \in BOOLEAN
  /\ received \in Nat
  /\ shape \in Shapes
  /\ inserts \in 0 .. MaxInserts
  /\ credit \in [Target -> Int]
  /\ late \subseteq Target
  /\ starved \in BOOLEAN

Init ==
  /\ targets = {} /\ posted = {}
  /\ available = [t \in Target |-> 0]
  /\ missing = [t \in Target |-> 0]
  /\ limited = [t \in Target |-> FALSE]
  /\ paused = [t \in Target |-> NoHandler]
  /\ stopping = "no"
  /\ timerRunning = FALSE /\ waiting = FALSE /\ fired = FALSE
  /\ received = 0 /\ inserts = 0
  /\ shape \in Shapes
  /\ credit = [t \in Target |-> 0]
  /\ late = {} /\ starved = FALSE

\* A callback that is already in the io service is not canceled.
SetNextTimerEvent == timerRunning' = TRUE /\ waiting' = TRUE

\* The constructor of a NewsClientSocket.
InsertTarget(t) ==
  /\ t \notin targets /\ inserts < MaxInserts
  /\ inserts' = inserts + 1
  /\ targets' = targets \cup {t}
  /\ limited' = [limited EXCEPT ![t] = TRUE]
  /\ available' = [available EXCEPT ![t] = 0]
  /\ missing' = [missing EXCEPT ![t] = 0]
  /\ IF targets = {} THEN SetNextTimerEvent ELSE UNCHANGED <<timerRunning, waiting>>
  /\ credit' = [credit EXCEPT ![t] = 0]
  /\ late' = IF stopping = "yes" THEN late \cup {t} ELSE late \ {t}
  /\ UNCHANGED <<paused, posted, stopping, fired, received, shape, starved>>

\* The destructor; the client is gone once no handler refers to it.
RemoveTarget(t) ==
  /\ t \in targets \ posted /\ paused[t] = NoHandler
  /\ targets' = targets \ {t}
  /\ UNCHANGED <<bucket, limited, paused, posted, stopping, timer, received, shape,
                 inserts, history>>

\* Mutant: the timer is not started again.
StartTimer_never == UNCHANGED <<timerRunning, waiting>>

\* RateLimiter::AddRXBytes.
StartTimer ==
  IF timerRunning THEN UNCHANGED <<timerRunning, waiting>> ELSE SetNextTimerEvent

\* A read of the socket completes: async_read_some, then both AddRXBytes.
AddRXBytes(t, bytes) ==
  /\ t \in targets \ posted /\ paused[t] = NoHandler
  /\ received + bytes <= MaxReceived
  /\ received' = received + bytes
  /\ StartTimer
  /\ \/ /\ ~limited[t]
        /\ UNCHANGED <<bucket, paused, credit>>
     \/ /\ limited[t] /\ available[t] >= bytes
        /\ available' = [available EXCEPT ![t] = @ - bytes]
        /\ credit' = [credit EXCEPT ![t] = @ - bytes]
        /\ UNCHANGED <<missing, paused>>
     \/ /\ limited[t] /\ available[t] < bytes
        /\ missing' = [missing EXCEPT ![t] = @ + bytes - available[t]]
        /\ available' = [available EXCEPT ![t] = 0]
        /\ paused' = [paused EXCEPT ![t] = bytes]
        /\ UNCHANGED credit
  /\ UNCHANGED <<targets, limited, posted, stopping, fired, shape, inserts, late, starved>>

\* The io service runs a handler that Unpause posted.
RunHandler(t) ==
  /\ t \in posted
  /\ posted' = posted \ {t}
  /\ UNCHANGED <<targets, bucket, limited, paused, stopping, timer, received, shape,
                 inserts, history>>

-----------------------------------------------------------------------------
(* The timer.                                                              *)

\* Unpause of the targets in T.
Unpause(T) ==
  LET resumed == {t \in T : paused[t] # NoHandler} IN
  /\ posted' = posted \cup resumed
  /\ paused' = [t \in Target |-> IF t \in resumed THEN NoHandler ELSE paused[t]]

Expire ==
  /\ waiting /\ ~fired
  /\ waiting' = FALSE /\ fired' = TRUE
  /\ UNCHANGED <<targets, bucket, limited, paused, posted, stopping, timerRunning,
                 received, shape, inserts, history>>

\* GetRateLimiterConfiguration; urgent: HasPriorityWork, or the drive has blocked
\* reads or is caching ahead.
Parameters(urgent, extra) ==
  IF shape.mode = "Adaptive" /\ ~urgent
    THEN [rate |-> shape.background, extra |-> extra]
    ELSE [rate |-> shape.limit, extra |-> 0]

\* Bytes in the 100 ms of m_duration.
Tokens(p) == (p.rate * 100) \div 1000 + p.extra

\* The end of RateLimiter::AddTokenBytes: go on, or wait for the next AddRXBytes.
EndTimer == timerRunning' = FALSE /\ UNCHANGED waiting

\* There are fewer tokens than targets.
TooFew ==
  /\ EndTimer
  /\ starved' = (starved \/ \E t \in targets : paused[t] # NoHandler)
  /\ UNCHANGED <<bucket, limited, paused, posted, credit>>

\* Mutant: whoever got tokens goes on.
Resumed_all(k, each) == {t \in targets : paused[t] # NoHandler}

\* Those who have paid what was missing, and have something left.
Resumed(k, each) ==
  {t \in targets : paused[t] # NoHandler /\ AddTokenBytes(t, each, k * 5).available > 0}

\* The limit is on for all, and the timer goes on unless all targets are full.
Grant(k) ==
  LET s == AddTokens(k)
      Paid(t) == AddTokenBytes(t, s.each, k * 5)
      resumed == Resumed(k, s.each) IN
  /\ limited' = [t \in Target |-> limited[t] \/ t \in targets]
  /\ available' = [t \in Target |-> IF t \in targets THEN Paid(t).available ELSE available[t]]
  /\ missing' = [t \in Target |-> IF t \in targets THEN Paid(t).missing ELSE missing[t]]
  /\ Unpause(resumed)
  /\ credit' = [t \in Target |->
                 credit[t] + (available'[t] - missing'[t]) - (available[t] - missing[t])
                 - (IF t \in resumed THEN paused[t] ELSE 0)]
  /\ IF s.rest = k THEN EndTimer ELSE SetNextTimerEvent
  /\ UNCHANGED starved

\* No limit is configured.
LiftLimit ==
  /\ limited' = [t \in Target |-> limited[t] /\ t \notin targets]
  /\ Unpause(targets)
  /\ EndTimer
  /\ UNCHANGED <<bucket, credit, starved>>

\* The callback of m_timer.
AddTokenBytesEvent ==
  /\ fired /\ fired' = FALSE
  /\ \/ /\ stopping = "yes"
        /\ UNCHANGED <<bucket, limited, paused, posted, timerRunning, waiting, credit, starved>>
     \/ /\ stopping # "yes" /\ targets = {}
        /\ EndTimer
        /\ UNCHANGED <<bucket, limited, paused, posted, credit, starved>>
     \/ /\ stopping # "yes" /\ targets # {}
        /\ \E urgent \in BOOLEAN, extra \in Extra :
             LET p == Parameters(urgent, extra) IN
             \/ p.rate = 0 /\ p.extra = 0 /\ LiftLimit
             \/ /\ p.rate # 0 \/ p.extra # 0
                /\ IF Tokens(p) < Cardinality(targets) THEN TooFew ELSE Grant(Tokens(p))
  /\ UNCHANGED <<targets, stopping, received, shape, inserts, late>>

-----------------------------------------------------------------------------

SetNetworkThrottling(s) ==
  /\ s # shape /\ shape' = s
  /\ UNCHANGED <<targets, bucket, limited, paused, posted, stopping, timer, received,
                 inserts, history>>

\* RateLimiter::Stop, called by the drive's Stop, and the handler it posts.
Stop ==
  /\ stopping = "no" /\ stopping' = "posted"
  /\ UNCHANGED <<targets, bucket, limited, paused, posted, timer, received, shape,
                 inserts, history>>

\* Mutant: the limit is off, but nobody is resumed.
StopTargets_quiet ==
  /\ limited' = [t \in Target |-> limited[t] /\ t \notin targets]
  /\ UNCHANGED <<paused, posted>>

StopTargets ==
  /\ limited' = [t \in Target |-> limited[t] /\ t \notin targets]
  /\ Unpause(targets)

StopHandler ==
  /\ stopping = "posted" /\ stopping' = "yes"
  /\ waiting' = FALSE
  /\ StopTargets
  /\ UNCHANGED <<targets, bucket, timerRunning, fired, received, shape, inserts, history>>

Next ==
  \/ \E t \in Target : InsertTarget(t) \/ RemoveTarget(t) \/ RunHandler(t)
  \/ \E t \in Target, n \in Sizes : AddRXBytes(t, n)
  \/ Expire \/ AddTokenBytesEvent
  \/ \E s \in Shapes : SetNetworkThrottling(s)
  \/ Stop \/ StopHandler

Spec == Init /\ [][Next]_vars

\* The io service runs what is posted and the timer expires.
FairSpec ==
  /\ Spec
  /\ WF_vars(Expire) /\ WF_vars(AddTokenBytesEvent) /\ WF_vars(StopHandler)
  /\ \A t \in Target : WF_vars(RunHandler(t))

-----------------------------------------------------------------------------
(* Properties.                                                             *)

\* No reader gets bytes under the limit that the tokens granted to its socket
\* have not paid for, across pauses, rounds and changes of the limit
\* (AddRXBytes, AddTokenBytes of RateLimiterTarget).
RateHeld == \A t \in Target : credit[t] >= 0

\* However many tokens there are, AddTokens keeps all of them in the buckets
\* and gives back less than one for each target that has room, so that nothing
\* is lost while there is room.
TokensKept ==
  \A k \in Cardinality(targets) .. MaxReceived :
    LET r == AddTokens(k)
        Paid(t) == AddTokenBytes(t, r.each, k * 5)
        Balance == [t \in targets |-> available[t] - missing[t]]
        NewBalance == [t \in targets |-> Paid(t).available - Paid(t).missing] IN
    targets # {}
    => /\ SumFunctionOnSet(NewBalance, targets) + r.rest = SumFunctionOnSet(Balance, targets) + k
       /\ r.rest < Cardinality(r.open) \/ r.open = {}

\* While a reader is paused somebody will come back for it: the timer waits or
\* its callback does, unless it gave up for want of tokens or has stopped.
PausedHasTimer ==
  \A t \in Target : paused[t] # NoHandler =>
    (timerRunning /\ (waiting \/ fired)) \/ starved \/ stopping = "yes"

\* A paused reader is resumed.  It may wait forever only when the timer stopped
\* for want of tokens, or when its socket was made after Stop.
PausedResumes ==
  \A t \in Target : paused[t] # NoHandler ~> (paused[t] = NoHandler \/ starved \/ t \in late)
=============================================================================
