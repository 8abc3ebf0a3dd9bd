------------------------------ MODULE Readiness ------------------------------
(***************************************************************************)
(* Readiness and the life of the metrics server: what /ready answers while *)
(* the subscriber connects, loses and replaces its connection, and while   *)
(* blocks are processed (metrics/server.go, NewStateChangeCallback, the    *)
(* stateChangeCB of runMonitor, OpsNotifier.send, blockCountingProcessor,  *)
(* Monitor.Run and shutdown).                                              *)
(*                                                                         *)
(* The state callback runs in the subscriber's goroutine: it sets the      *)
(* gauge psm_websocket_connected, then the flag of /ready, then posts an   *)
(* operational notification and waits for the answer; only then does the   *)
(* subscriber go on.  Each of its steps is a step here, the subscriber's   *)
(* own are those of the module Subscriber.  The collector is reduced to    *)
(* what it holds; the module Collector has its details.                    *)
(*                                                                         *)
(* A handler of /ready reads SQLite on a goroutine of its own, behind      *)
(* whatever holds the one connection.  Stopping the server waits for it,   *)
(* but no longer than a timeout.  While the server serves, handlers come   *)
(* and go and change nothing; only those that are left then are told.      *)
(***************************************************************************)
EXTENDS Subscriber

CONSTANTS
  OpsEnabled,       \* an ops webhook is configured for connection events
  StoreMayFail      \* ProcessBlock may fail with ctx still live

ASSUME ReadinessAssumption == OpsEnabled \in BOOLEAN /\ StoreMayFail \in BOOLEAN

VARIABLES
  ready,            \* Server.wsConnected, what /ready reports
  telling,          \* the state callback in progress, or "none"
  firstBlockOnce,   \* blockCountingProcessor.firstBlockOnce has run
  forced,           \* history: it ran after the last state callback
  collector,        \* what the collector is doing
  server,           \* what the metrics server is doing
  probing,          \* a request to /ready is still being handled, no longer served
  dbOpen            \* FALSE once shutdown has closed SQLite

serverVars == <<server, probing, dbOpen>>
ownVars == <<ready, telling, firstBlockOnce, forced, collector, serverVars>>
allVars == <<vars, ownVars>>

Callbacks == {"connected", "reconnected", "disconnected"}

\* "next" and "last" are flushes too: with the following block in hand, and of
\* a collector that returns when it is over
CollectorPhases == {"empty", "gathered", "flush", "next", "last", "returned"}

\* Server.Start has not returned; Serve has failed; Start has given up waiting for the
\* handlers; none is left; the process has ended
ServerPhases == {"serving", "failed", "timedOut", "stopped", "ended"}

ReadyInit ==
  /\ Init
  /\ ready = FALSE /\ telling = "none"
  /\ firstBlockOnce = FALSE /\ forced = FALSE
  /\ collector = "empty" /\ server = "serving"
  /\ probing = FALSE /\ dbOpen = TRUE

-----------------------------------------------------------------------------
(* The subscriber and its state callback.                                  *)

\* the callback a step of the subscriber ends with
Notified ==
  CASE phase = "connecting" /\ phase' = "receiving" -> "connected"
    [] phase = "subscribing" /\ phase' = "receiving" -> "reconnected"
    [] phase \notin {"backoff", "subscribing"} /\ phase' = "backoff" -> "disconnected"
    [] OTHER -> "none"

\* a step of the subscriber's goroutine: not while it is in the callback
Goroutine(A) ==
  /\ telling = "none" /\ A
  /\ telling' = Notified
  /\ UNCHANGED <<ready, firstBlockOnce, forced, collector, serverVars>>

Environment == EnvNext /\ UNCHANGED ownVars

\* mutant: a reconnection sets the gauge only
SetFlagNotOnReconnect ==
  /\ telling \in Callbacks
  /\ ready' = IF telling = "reconnected" THEN ready ELSE telling = "connected"
  /\ forced' = FALSE
  /\ telling' = IF OpsEnabled /\ telling # "reconnected" THEN "posting" ELSE "none"
  /\ UNCHANGED <<vars, firstBlockOnce, collector, serverVars>>

\* NewStateChangeCallback goes on from the gauge to the flag; a post follows for
\* a first connection and a disconnection.
SetFlag ==
  /\ telling \in Callbacks
  /\ ready' = (telling # "disconnected")
  /\ forced' = FALSE
  /\ telling' = IF OpsEnabled /\ telling # "reconnected" THEN "posting" ELSE "none"
  /\ UNCHANGED <<vars, firstBlockOnce, collector, serverVars>>

\* the webhook answers, refuses or runs into the client's timeout of ten seconds
PostEnds ==
  /\ telling = "posting"
  /\ telling' = "none"
  /\ UNCHANGED <<vars, ready, firstBlockOnce, forced, collector, serverVars>>

-----------------------------------------------------------------------------
(* The collector, through blockCountingProcessor.                          *)

\* a block is taken off the channel; one gathered before is flushed first
Take ==
  /\ collector \in {"empty", "gathered"}
  /\ Consume
  /\ collector' = IF collector = "empty" THEN "gathered" ELSE "next"
  /\ UNCHANGED <<ready, telling, firstBlockOnce, forced, serverVars>>

\* nothing came for flushTimeout, ctx is canceled or the channel is closed
FlushGathered ==
  /\ collector = "gathered"
  /\ \/ collector' = "flush"
     \/ (canceled \/ ~eventsOpen) /\ collector' = "last"
  /\ UNCHANGED <<vars, ready, telling, firstBlockOnce, forced, serverVars>>

CollectorReturns ==
  /\ collector = "empty" /\ (canceled \/ (~eventsOpen /\ events = <<>>))
  /\ collector' = "returned"
  /\ UNCHANGED <<vars, ready, telling, firstBlockOnce, forced, serverVars>>

AfterFlush == CASE collector = "flush" -> "empty"
                [] collector = "next" -> "gathered"
                [] collector = "last" -> "returned"

\* mutant: the flag is set after every block
EveryBlockProcessed ==
  /\ collector \in {"flush", "next", "last"}
  /\ collector' = AfterFlush
  /\ firstBlockOnce' = TRUE
  /\ forced' = (forced \/ ~firstBlockOnce)
  /\ ready' = TRUE
  /\ UNCHANGED <<vars, telling, serverVars>>

\* ProcessBlock succeeds; the first time, it declares the WebSocket connected
Processed ==
  /\ collector \in {"flush", "next", "last"}
  /\ collector' = AfterFlush
  /\ firstBlockOnce' = TRUE
  /\ forced' = (forced \/ ~firstBlockOnce)
  /\ ready' = (ready \/ ~firstBlockOnce)
  /\ UNCHANGED <<vars, telling, serverVars>>

\* ProcessBlock fails: the collector returns the error, which cancels ctx
ProcessFails ==
  /\ collector \in {"flush", "next", "last"} /\ (StoreMayFail \/ canceled)
  /\ collector' = "returned" /\ canceled' = TRUE
  /\ UNCHANGED <<nodeVars, phase, pending, chanVars, wsConnected, seenVars, emitted,
                 ready, telling, firstBlockOnce, forced, serverVars>>

-----------------------------------------------------------------------------
(* The metrics server and the end of the process.                          *)

\* handleReady: a request that was being handled when Serve failed, or came later over
\* a connection that was kept alive
ProbeBegins ==
  /\ server = "failed" /\ ~probing
  /\ probing' = TRUE
  /\ UNCHANGED <<vars, ready, telling, firstBlockOnce, forced, collector, server, dbOpen>>

\* it has read the flag and LastProcessedHeight, or the error of a closed database
ProbeAnswered ==
  /\ probing /\ probing' = FALSE
  /\ server' = IF server = "timedOut" THEN "stopped" ELSE server
  /\ UNCHANGED <<vars, ready, telling, firstBlockOnce, forced, collector, dbOpen>>

\* mutant: Start only logs the error of ListenAndServe
ServerFailsQuietly ==
  /\ server = "serving" /\ server' = "failed"
  /\ UNCHANGED <<vars, ready, telling, firstBlockOnce, forced, collector, probing, dbOpen>>

\* ListenAndServe fails, at once if the port is in use: Start returns the error,
\* without a Stop, and the errgroup cancels everything else
ServerFails ==
  /\ server = "serving" /\ server' = "failed"
  /\ canceled' = TRUE
  /\ UNCHANGED <<nodeVars, phase, pending, chanVars, wsConnected, seenVars, emitted,
                 ready, telling, firstBlockOnce, forced, collector, probing, dbOpen>>

\* Start itself stops the server when ctx is canceled, and returns when no request is
\* being handled, or after five seconds, with an error, though one is.
ServerStops ==
  /\ server = "serving" /\ canceled
  /\ \/ server' = "stopped" /\ probing' = FALSE
     \/ server' = "timedOut" /\ probing' = TRUE
  /\ UNCHANGED <<vars, ready, telling, firstBlockOnce, forced, collector, dbOpen>>

\* mutant: shutdown does not wait for the errgroup
ShutdownOnCancel ==
  /\ canceled /\ dbOpen
  /\ dbOpen' = FALSE
  /\ UNCHANGED <<vars, ready, telling, firstBlockOnce, forced, collector, server, probing>>

\* g.Wait has returned: stop the notifier and close SQLite, whoever still reads it
Shutdown ==
  /\ phase = "stopped" /\ telling = "none" /\ collector = "returned"
  /\ server # "serving" /\ dbOpen
  /\ dbOpen' = FALSE
  /\ UNCHANGED <<vars, ready, telling, firstBlockOnce, forced, collector, server, probing>>

\* Stop the server (again), in good order or by the timeout; Run returns, and what is
\* still being handled ends with the process.
ProcessEnds ==
  /\ ~dbOpen /\ server # "ended"
  /\ server' = "ended" /\ probing' = FALSE
  /\ UNCHANGED <<vars, ready, telling, firstBlockOnce, forced, collector, dbOpen>>

Ended == server = "ended" /\ UNCHANGED allVars

-----------------------------------------------------------------------------
CollectorStep == Take \/ FlushGathered \/ CollectorReturns \/ Processed

ReadyNext ==
  \/ Environment \/ Goroutine(SubNext) \/ SetFlag \/ PostEnds
  \/ CollectorStep \/ ProcessFails
  \/ ProbeBegins \/ ProbeAnswered
  \/ ServerFails \/ ServerStops \/ Shutdown \/ ProcessEnds \/ Ended

(***************************************************************************)
(* Fairness: that of Subscriber for its goroutine, outside the callback;   *)
(* the callback runs and the client's timeout ends its post; the collector *)
(* and ProcessBlock go on, and so do the server's stop, which a timeout    *)
(* bounds, and the shutdown.  Nothing has to fail, no connection has to be *)
(* lost, and no handler has to answer.                                     *)
(***************************************************************************)
ReadyFairness ==
  /\ WF_allVars(Goroutine(SubStep))
  /\ SF_allVars(Goroutine(ContextDone))
  /\ WF_allVars(Goroutine(link = "silent" /\ wire = <<>> /\ HeartbeatTimeout))
  /\ SF_allVars(Goroutine(SubscribeOK))
  /\ WF_allVars(SetFlag) /\ WF_allVars(PostEnds)
  /\ WF_allVars(CollectorStep)
  /\ WF_allVars(ServerStops) /\ WF_allVars(Shutdown) /\ WF_allVars(ProcessEnds)

ReadySpec == ReadyInit /\ [][ReadyNext]_allVars /\ ReadyFairness

-----------------------------------------------------------------------------
\* Every variable of this module has its type.  SQLite is closed only when the
\* goroutines of the errgroup have returned, the collector after its last flush.  A
\* handler of /ready may be left to read it then, but only if Serve failed or Start
\* gave up waiting for it: after an orderly stop there is none.
ReadyTypeOK ==
  /\ ready \in BOOLEAN /\ firstBlockOnce \in BOOLEAN /\ forced \in BOOLEAN
  /\ telling \in Callbacks \cup {"none", "posting"}
  /\ collector \in CollectorPhases
  /\ server \in ServerPhases /\ probing \in BOOLEAN /\ dbOpen \in BOOLEAN
  /\ ~dbOpen => phase = "stopped" /\ collector = "returned" /\ server # "serving"
  /\ probing => server \in {"failed", "timedOut"}

\* Not a property of the code: SQLite is closed when nobody reads it any more.
ClosedUnread == ~dbOpen => ~probing

\* What /ready says of the WebSocket and what the gauge says come apart only
\* between the two writes of NewStateChangeCallback, and in one direction after
\* the first processed block: blockCountingProcessor may set the flag of a
\* connection that is lost, and no later block may.
ReadyAgrees ==
  ready # wsConnected =>
    \/ telling \in Callbacks
    \/ forced /\ ready

\* The disagreement heals: a flag that differs from the gauge, whatever set it,
\* is put right by the next connection, unless the process is stopping first.
ReadyHeals == ready # wsConnected ~> ready = wsConnected \/ canceled

\* A metrics server that fails, its port in use for instance, takes the process
\* down in good order: subscriber and collector return, even from a callback
\* that is posting, the database is closed, and a handler of /ready that does not come
\* to its end does not hold the process up.
ServerFailureStops == server = "failed" ~> server = "ended"

\* Not a property of the code: README.md:357 calls /ready a check of the
\* WebSocket, and the first block processed after a disconnection answers 200.
ReadyMeansConnected == ready /\ telling = "none" => wsConnected

=============================================================================
