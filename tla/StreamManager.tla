----------------------------- MODULE StreamManager -----------------------------
(****************************************************************************)
(* The reconnect loops of src/execution/stream_manager.py.  Every call of   *)
(* start() that is let through runs one loop per Alpaca endpoint: resync,   *)
(* connect and consume, and when that ends or raises, sleep and go round.   *)
(* What the loops hand on is LiveSession's subject; here it is the loops.   *)
(*                                                                          *)
(* Time is abstract: a connection that ends has, or has not, lasted longer  *)
(* than the backoff cap.                                                    *)
(****************************************************************************)
EXTENDS Common

CONSTANTS
    Callers,          \* calls of start()
    BackoffInitial,   \* stream.reconnect_backoff_initial_s
    BackoffCap,       \* stream.reconnect_backoff_cap_s
    FloatMaxExp,      \* 2**n * float raises OverflowError from this n on (1024)
    MaxAttempt,       \* bound: attempts counted exactly
    MaxOutages        \* bound: outages of the network or the REST API

ASSUME BackoffAssumption ==
    /\ BackoffInitial \in Nat \ {0}
    /\ BackoffCap \in Nat
    /\ BackoffInitial <= BackoffCap
    /\ {FloatMaxExp, MaxOutages} \subseteq Nat
    /\ MaxAttempt \in Nat \ {0}
    /\ BackoffInitial * 2^MaxAttempt >= BackoffCap   \* counting on would change no delay

Streams == {"trading", "data"}
Loops == Callers \X Streams

VARIABLES
    started,   \* _started
    refused,   \* calls of start() that raised
    loop,      \* [at, attempt, delay] of every loop
    network    \* external: [outage, outages]

vars == <<started, refused, loop, network>>

TypeOK ==
    /\ started \in BOOLEAN
    /\ refused \subseteq Callers
    /\ loop \in [Loops -> [at : {"off", "resync", "connected", "sleeping", "dead"},
                           attempt : 0..MaxAttempt,
                           delay : 0..BackoffCap]]
    /\ network \in [outage : BOOLEAN, outages : 0..MaxOutages]

Init ==
    /\ started = FALSE
    /\ refused = {}
    /\ loop = [l \in Loops |-> [at |-> "off", attempt |-> 0, delay |-> 0]]
    /\ network = [outage |-> FALSE, outages |-> 0]

----------------------------------------------------------------------------

StartStreams(c) ==
    /\ loop[c, "data"].at = "off"
    /\ c \notin refused
    /\ IF started
       THEN refused' = refused \union {c} /\ UNCHANGED <<started, loop>>
       ELSE /\ started' = TRUE
            /\ loop' = [l \in Loops |-> IF l[1] = c THEN [loop[l] EXCEPT !.at = "resync"]
                                                    ELSE loop[l]]
            /\ UNCHANGED refused
    /\ UNCHANGED network

BackoffDelay(attempt) == Least(BackoffInitial * 2^attempt, BackoffCap)

\* What follows the try block.  The delay is computed outside it: an overflow
\* ends the loop, and with it start().
BackOff(l, healthy) ==
    LET attempt == IF healthy THEN 0 ELSE loop[l].attempt
    IN  loop' = [loop EXCEPT ![l] =
            IF attempt >= FloatMaxExp
            THEN [@ EXCEPT !.at = "dead"]
            ELSE [at |-> "sleeping", attempt |-> Least(attempt + 1, MaxAttempt),
                  delay |-> BackoffDelay(attempt)]]

\* The resync hook returns, and the runner connects.
Resynced(l) ==
    /\ loop[l].at = "resync"
    /\ ~network.outage
    /\ loop' = [loop EXCEPT ![l].at = "connected"]
    /\ UNCHANGED <<started, refused, network>>

\* Wrong on purpose: a failed attempt counts as a healthy connection.
ResyncFailsHealthily(l) ==
    /\ loop[l].at = "resync"
    /\ network.outage
    /\ BackOff(l, TRUE)
    /\ UNCHANGED <<started, refused, network>>

\* Wrong on purpose: the resync stands outside the try block.
ResyncFailsUncaught(l) ==
    /\ loop[l].at = "resync"
    /\ network.outage
    /\ loop' = [loop EXCEPT ![l].at = "dead"]
    /\ UNCHANGED <<started, refused, network>>

\* The resync hook raises: connected_at is still None.
ResyncFails(l) ==
    /\ loop[l].at = "resync"
    /\ network.outage
    /\ BackOff(l, FALSE)
    /\ UNCHANGED <<started, refused, network>>

\* The runner returns or raises.
StreamEnds(l, healthy) ==
    /\ loop[l].at = "connected"
    /\ BackOff(l, healthy)
    /\ UNCHANGED <<started, refused, network>>

Wake(l) ==
    /\ loop[l].at = "sleeping"
    /\ loop' = [loop EXCEPT ![l].at = "resync"]
    /\ UNCHANGED <<started, refused, network>>

OutageBegins ==
    /\ ~network.outage
    /\ network.outages < MaxOutages
    /\ network' = [outage |-> TRUE, outages |-> network.outages + 1]
    /\ UNCHANGED <<started, refused, loop>>

OutageEnds ==
    /\ network.outage
    /\ network' = [network EXCEPT !.outage = FALSE]
    /\ UNCHANGED <<started, refused, loop>>

Next ==
    \/ \E c \in Callers : StartStreams(c)
    \/ \E l \in Loops :
          \/ Resynced(l) \/ ResyncFails(l) \/ Wake(l)
          \/ \E healthy \in BOOLEAN : StreamEnds(l, healthy)
    \/ OutageBegins
    \/ OutageEnds

\* A call that is awaited returns and a sleep ends; an outage does not last for
\* ever.  Nothing makes a stream end, or start() be called.
Fairness ==
    /\ \A l \in Loops : WF_vars(Resynced(l) \/ ResyncFails(l)) /\ WF_vars(Wake(l))
    /\ WF_vars(OutageEnds)

Spec == Init /\ [][Next]_vars /\ Fairness

----------------------------------------------------------------------------

\* stream_manager.py:8-9 "doubling ... never instant": from one failed attempt
\* to the next the wait doubles until it reaches the cap, no shorter
\* than the initial delay and no longer than the cap; only a connection, never a
\* failed attempt, sends it back to the initial delay.
BackoffNeverShrinks ==
    [][\A l \in Loops :
        loop[l].at # "sleeping" /\ loop'[l].at = "sleeping" =>
            /\ loop'[l].delay \in BackoffInitial..BackoffCap
            /\ \/ loop'[l].delay = Least(2 * loop[l].delay, BackoffCap)
               \/ loop'[l].delay = BackoffInitial
                    /\ (loop[l].at = "connected" \/ loop[l].delay = 0)]_vars

\* stream_manager.py:80-102: a started endpoint is connected again and again,
\* whatever ends its connections, once outages are over.
KeepsReconnecting ==
    \A t \in Streams :
        started ~> \E c \in Callers : loop[c, t].at = "connected"
=============================================================================
