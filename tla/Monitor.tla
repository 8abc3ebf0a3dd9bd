------------------------------ MODULE Monitor -------------------------------
(***************************************************************************)
(* The monitor process (cmd/monitor.go, cmd/cmd_monitor.go): subscriber,   *)
(* collector and backfiller run concurrently over one database, and the    *)
(* process may be killed at any step and started again.                    *)
(*                                                                         *)
(* Subscriber and collector meet at the events channel, subscriber and     *)
(* backfiller at the gap callback, collector and backfiller in ProcessBlock *)
(* and the database, and all of them at the errgroup's context.  The steps *)
(* are those of the three modules; this one adds what they do to each      *)
(* other's variables.                                                      *)
(***************************************************************************)
EXTENDS Integers, Sequences, FiniteSets

CONSTANTS
  MaxHeight, SettlementHeights, EventBufferSize, WireCapacity, MaxLag, Retries,
  LiveCatchup,
  InitialStored,    \* heights in the database when the first process starts
  Faults,           \* what goes wrong: "rpc", "store", "signal", "crash"
  MaxSessions       \* bound: how often the process is started

\* The parts' assumptions follow from these.
ASSUME MonitorAssumption ==
  /\ MaxHeight \in Nat \ {0} /\ SettlementHeights \subseteq Nat \ {0}
  /\ EventBufferSize \in Nat \ {0} /\ WireCapacity \in Nat \ {0}
  /\ MaxLag \in Nat /\ Retries \in Nat /\ LiveCatchup \in BOOLEAN
  /\ InitialStored \subseteq {1}
  /\ Faults \subseteq {"rpc", "store", "signal", "crash"}
  /\ MaxSessions \in Nat \ {0}

VARIABLES
  chain, node, wire, link, phase, lastSeenHeight, pending, events, eventsOpen,
  canceled, wsConnected, gaps, firstSeen, delivered, emitted,       \* Subscriber
  colPhase, reason, taken, currentHeight, currentEvents, timer,
  produced, handled, lost,                                          \* Collector
  stored, liveCounted, startup, tasks, remaining,                   \* Backfiller
  storeOpen,        \* FALSE once shutdown has closed the database
  session,          \* number of this process
  atBoot,           \* history: LastProcessedHeight when the process started
  owed              \* history: heights the previous process was working on

subOnly == <<node, wire, link, phase, lastSeenHeight, pending, wsConnected,
             firstSeen, delivered, emitted>>
colOnly == <<colPhase, reason, taken, currentHeight, currentEvents, timer,
             produced, handled, lost>>
bfOnly  == <<startup, tasks, remaining>>
dbVars  == <<stored, liveCounted>>
procVars == <<storeOpen, session, atBoot, owed>>
vars == <<chain, events, eventsOpen, canceled, gaps, subOnly, colOnly, bfOnly, dbVars,
          procVars>>

S == INSTANCE Subscriber
C == INSTANCE Collector WITH Heights <- SettlementHeights, MaxBatches <- MaxHeight,
                             StoreMayFail <- "store" \in Faults
B == INSTANCE Backfiller WITH MaxGaps <- MaxHeight, RequestedFroms <- {0}

-----------------------------------------------------------------------------
\* h is between the subscriber's emission and the database
InPipeline(h) ==
  \/ phase \in {"emitting", "blocked"} /\ pending = h
  \/ \E i \in 1..Len(events) : events[i] = h
  \/ taken = h
  \/ \E i \in 1..Len(currentEvents) : currentEvents[i] = h

\* h is in a gap whose goroutine has not come to it yet
InBackfill(h) ==
  \/ \E i \in Len(tasks) + 1..Len(gaps) : h \in gaps[i].from..gaps[i].to
  \/ \E i \in 1..Len(tasks) :
       tasks[i].status = "running" /\ h \in tasks[i].next..tasks[i].to

\* h is ahead of the startup backfill
InStartup(h) == startup.phase = "running" /\ h \in startup.next..startup.to

\* h was given up by a gap recovery that ran out of retries
Abandoned(h) ==
  \E i \in 1..Len(tasks) :
    tasks[i].status = "abandoned" /\ h \in tasks[i].next..tasks[i].to

-----------------------------------------------------------------------------
StartupInit == [phase |-> "begin", requested |-> 0, last |-> 0, from |-> 1, to |-> 0,
                next |-> 1, attempt |-> 0]

Init ==
  /\ S!Init /\ C!Init
  /\ stored = InitialStored /\ liveCounted = [h \in B!Heights |-> 0]
  /\ startup = StartupInit /\ tasks = <<>> /\ remaining = 0
  /\ storeOpen = TRUE /\ session = 1 /\ owed = {}
  /\ atBoot = B!LastProcessedHeight(InitialStored)

\* The chain, the node, the network and the signal handler.
NodeStep ==
  /\ \/ S!Commit \/ S!Publish \/ S!ConnectionLost
     \/ "signal" \in Faults /\ S!Cancel
  /\ UNCHANGED <<colOnly, bfOnly, dbVars, procVars>>

\* The subscriber goroutine; results of an unexpected type are left to Subscriber.
SubscriberStep ==
  /\ \/ S!SubscribeOK \/ S!ConnectFails \/ S!ResubscribeFails \/ S!BackoffElapsed
     \/ S!ContextDone \/ S!ChannelClosed \/ S!HeartbeatTimeout
     \/ S!Receive \/ S!HeaderCanceled \/ S!HeaderDone
     \/ S!EmitBlocks \/ S!EmitAbandoned
  /\ UNCHANGED <<colOnly, bfOnly, dbVars, procVars>>

\* its send, which is the Send the collector expects
EmitStep ==
  /\ S!Emit
  /\ produced' = Append(produced, pending)
  /\ UNCHANGED <<colPhase, reason, taken, currentHeight, currentEvents, timer, handled,
                 lost, bfOnly, dbVars, procVars>>

CollectorStep ==
  /\ \/ C!TakeSame \/ C!TakeOther \/ C!TimerExpires \/ C!SafetyTimeout
     \/ C!ContextDone \/ C!ChannelClosed \/ C!FlushFails
  /\ UNCHANGED <<chain, gaps, subOnly, bfOnly, dbVars, procVars>>

\* ProcessBlock from the collector: stored, and counted as live
FlushStep ==
  /\ C!FlushOK
  /\ B!Process(currentHeight, TRUE)
  /\ UNCHANGED <<chain, gaps, subOnly, bfOnly, procVars>>

StartupStep ==
  /\ \/ B!StartupReadLast \/ B!StartupDecide \/ B!StartupBlock \/ B!StartupCanceled
     \/ B!StartupDone
     \/ ("rpc" \in Faults \/ canceled) /\ B!StartupFails
     \/ "rpc" \in Faults /\ B!StartupFetchFails
     \/ "store" \in Faults /\ B!StartupProcessFails
  /\ UNCHANGED <<events, eventsOpen, subOnly, colOnly, procVars>>

\* The gap recoveries.  They outlive the errgroup and find the database closed.
RangeStep ==
  /\ \/ B!RangeStart
     \/ \E i \in 1..Len(tasks) :
          \/ storeOpen /\ B!RangeBlock(i)
          \/ B!RangeDone(i)
          \/ "rpc" \in Faults /\ (B!RangeNoClient(i) \/ B!RangeFetchFails(i))
          \/ ("store" \in Faults \/ ~storeOpen) /\ B!RangeProcessFails(i)
  /\ UNCHANGED <<events, eventsOpen, subOnly, colOnly, procVars>>

\* every member of the errgroup has returned: shutdown closes the database
Shutdown ==
  /\ phase = "stopped" /\ colPhase = "returned" /\ startup.phase \in {"done", "failed"}
  /\ storeOpen /\ storeOpen' = FALSE
  /\ UNCHANGED <<chain, events, eventsOpen, canceled, gaps, subOnly, colOnly, bfOnly,
                 dbVars, session, atBoot, owed>>

\* The process ends at any point, and is started again: the database and the
\* chain are all that is left.
Restart ==
  /\ "crash" \in Faults /\ session < MaxSessions
  /\ session' = session + 1 /\ atBoot' = B!LastProcessedHeight(stored)
  /\ owed' = {h \in SettlementHeights : InPipeline(h) \/ InBackfill(h) \/ InStartup(h)} \ stored
  /\ node' = 0 /\ wire' = <<>> /\ link' = "none" /\ phase' = "connecting"
  /\ lastSeenHeight' = 0 /\ pending' = 0 /\ events' = <<>> /\ eventsOpen' = TRUE
  /\ canceled' = FALSE /\ wsConnected' = FALSE
  /\ gaps' = <<>> /\ firstSeen' = 0 /\ delivered' = {} /\ emitted' = {}
  /\ colPhase' = "waiting" /\ reason' = "none" /\ taken' = 0
  /\ currentHeight' = 0 /\ currentEvents' = <<>> /\ timer' = "off"
  /\ produced' = <<>> /\ handled' = <<>> /\ lost' = <<>>
  /\ liveCounted' = [h \in B!Heights |-> 0]
  /\ startup' = StartupInit /\ tasks' = <<>> /\ remaining' = 0
  /\ storeOpen' = TRUE
  /\ UNCHANGED <<chain, stored>>

Exited == ~storeOpen /\ UNCHANGED vars

Next ==
  \/ NodeStep \/ SubscriberStep \/ EmitStep \/ CollectorStep \/ FlushStep
  \/ StartupStep \/ RangeStep \/ Shutdown \/ Restart \/ Exited

Spec == Init /\ [][Next]_vars

\* Every goroutine of the errgroup runs, and its calls return: RPC calls and
\* transactions succeed or fail, delays elapse.  A select of the subscriber that
\* finds ctx.Done ready time after time takes it at some point.
FairSpec ==
  /\ Spec
  /\ SF_vars(S!ContextDone /\ UNCHANGED <<colOnly, bfOnly, dbVars, procVars>>)
  /\ WF_vars(SubscriberStep \/ EmitStep) /\ WF_vars(CollectorStep \/ FlushStep)
  /\ WF_vars(StartupStep) /\ WF_vars(Shutdown)

-----------------------------------------------------------------------------
\* Nothing seen is forgotten: while the context is live, every settlement height
\* from the first one seen to the last is in the database, on its way through the
\* collector, in a gap recovery still running, or in one that gave up.
LiveAccounting ==
  ~canceled =>
    \A h \in SettlementHeights \cap firstSeen..lastSeenHeight :
      h \in stored \/ InPipeline(h) \/ InBackfill(h) \/ Abandoned(h)

\* Counters and notifications fire at most once for a block in a process when no
\* node lags, with the collector, gap recoveries that count recent blocks as live
\* and the startup backfill all at work.
CountedOnce == MaxLag = 0 => \A h \in B!Heights : liveCounted[h] <= 1

\* RunIfNeeded read the database before a live block was stored, and the WebSocket
\* delivered its first block no later than the one after the backfill's last.
JoinedOn ==
  /\ startup.phase \in {"running", "done"} /\ startup.to > 0
  /\ startup.last = atBoot /\ firstSeen <= startup.to + 1

\* A restart recovers what is above the watermark: once the two paths have joined,
\* every settlement height above the last one the database held is stored, still
\* being worked on, or in a gap recovery that gave up.
RestartRecovers ==
  ~canceled /\ JoinedOn =>
    \A h \in SettlementHeights \cap atBoot + 1..lastSeenHeight :
      h \in stored \/ InPipeline(h) \/ InBackfill(h) \/ InStartup(h) \/ Abandoned(h)

\* Shutdown comes to its end whatever started it, a signal, a failed transaction or
\* a failed startup backfill: no goroutine of the errgroup waits for another that
\* has gone, such as the subscriber for room in the collector's channel.  (Only a
\* process killed and started again is not canceled any more.)
ShutdownCompletes == canceled ~> ~storeOpen \/ ~canceled

\* nothing is left to do until the next block
Quiescent ==
  /\ phase = "receiving" /\ events = <<>> /\ currentEvents = <<>> /\ colPhase = "waiting"
  /\ startup.phase = "done" /\ Len(tasks) = Len(gaps)
  /\ \A i \in 1..Len(tasks) : tasks[i].status = "done"

\* "On subsequent restarts without --from, normal gap detection resumes": what a
\* process was working on when it ended is in the database once the next one has
\* finished its backfill.
GapClosedAfterRestart == Quiescent /\ JoinedOn => owed \subseteq stored

\* "Backfill finishes -> gap closed, only WebSocket continues": a process that
\* finds a database stores everything from its last height to the last one seen.
GapClosedAtStartup ==
  Quiescent /\ startup.last = atBoot /\ atBoot > 0 =>
    \A h \in SettlementHeights \cap atBoot + 1..lastSeenHeight : h \in stored

\* "1. Read last_processed_height ... 3. Start WebSocket": what RunIfNeeded reads
\* is what the previous process left.
ReadBeforeLive == startup.phase \in {"running", "done"} => startup.last = atBoot

=============================================================================
