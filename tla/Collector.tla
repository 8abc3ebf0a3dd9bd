----------------------------- MODULE Collector ------------------------------
(***************************************************************************)
(* The collector (processor/collector.go): reads the subscriber's channel, *)
(* gathers the events of one height and flushes them to ProcessBlock when  *)
(* another height arrives, when nothing has arrived for flushTimeout, when *)
(* ctx is canceled and when the channel is closed.                         *)
(*                                                                         *)
(* A BlockEvents batch is its height; the same height may come twice, from *)
(* a node that lags.  ProcessBlock is the call that starts a flush and the *)
(* answer that ends it; the subscriber keeps sending in between.           *)
(***************************************************************************)
EXTENDS Integers, Sequences

CONSTANTS
  Heights,              \* heights of the batches the subscriber sends
  MaxBatches,           \* bound: number of batches sent
  EventBufferSize,      \* capacity of the channel
  StoreMayFail          \* TRUE if a transaction may fail with ctx still live

ASSUME CollectorAssumption ==
  /\ Heights \subseteq Nat \ {0}
  /\ MaxBatches \in Nat
  /\ EventBufferSize \in Nat \ {0}
  /\ StoreMayFail \in BOOLEAN

VARIABLES
  events,           \* the channel between subscriber and collector
  eventsOpen,       \* FALSE once the subscriber has closed it
  canceled,         \* ctx.Done()
  colPhase,         \* "waiting" in the select, "flushing" or "returned"
  reason,           \* why it flushes: "height", "timeout", "cancel", "closed"
  taken,            \* the batch whose height caused a flush, 0 if none
  currentHeight,    \* Collector.currentHeight
  currentEvents,    \* Collector.currentEvents: the batches gathered
  timer,            \* the safety timer: "off", "running" or "fired"
  produced,         \* history: batches sent on the channel
  handled,          \* history: batches ProcessBlock has stored
  lost              \* history: batches whose flush failed

colVars == <<colPhase, reason, taken, currentHeight, currentEvents, timer>>
vars == <<events, eventsOpen, canceled, colVars, produced, handled, lost>>

Taken == IF taken = 0 THEN <<>> ELSE <<taken>>

Init ==
  /\ events = <<>> /\ eventsOpen = TRUE /\ canceled = FALSE
  /\ colPhase = "waiting" /\ reason = "none" /\ taken = 0
  /\ currentHeight = 0 /\ currentEvents = <<>> /\ timer = "off"
  /\ produced = <<>> /\ handled = <<>> /\ lost = <<>>

-----------------------------------------------------------------------------
(* The subscriber, at the other end of the channel.                        *)

Send(h) ==
  /\ eventsOpen /\ Len(events) < EventBufferSize /\ Len(produced) < MaxBatches
  /\ events' = Append(events, h) /\ produced' = Append(produced, h)
  /\ UNCHANGED <<eventsOpen, canceled, colVars, handled, lost>>

CloseChannel ==
  /\ canceled /\ eventsOpen
  /\ eventsOpen' = FALSE
  /\ UNCHANGED <<events, canceled, colVars, produced, handled, lost>>

Cancel ==
  /\ ~canceled
  /\ canceled' = TRUE
  /\ UNCHANGED <<events, eventsOpen, colVars, produced, handled, lost>>

-----------------------------------------------------------------------------
(* The collector goroutine.                                                *)

\* flush(): the call of ProcessBlock
BeginFlush(why) == colPhase' = "flushing" /\ reason' = why

\* accumulate the batch and restart the safety timer
Accumulate(gathered, h) ==
  /\ currentHeight' = h
  /\ currentEvents' = Append(gathered, h)
  /\ timer' = "running"

\* a batch of the height being gathered, or the first one
TakeSameMixed ==                \* mutant: no height check
  /\ colPhase = "waiting" /\ events # <<>>
  /\ events' = Tail(events)
  /\ Accumulate(currentEvents, Head(events))
  /\ UNCHANGED <<eventsOpen, canceled, colPhase, reason, taken, produced, handled, lost>>

TakeSame ==
  /\ colPhase = "waiting" /\ events # <<>>
  /\ currentHeight \in {0, Head(events)}
  /\ events' = Tail(events)
  /\ Accumulate(currentEvents, Head(events))
  /\ UNCHANGED <<eventsOpen, canceled, colPhase, reason, taken, produced, handled, lost>>

\* a batch of another height: flush what was gathered first
TakeOtherForgotten ==           \* mutant: the batch that caused the flush is dropped
  /\ colPhase = "waiting" /\ events # <<>>
  /\ currentHeight \notin {0, Head(events)}
  /\ events' = Tail(events)
  /\ BeginFlush("height")
  /\ UNCHANGED <<eventsOpen, canceled, taken, currentHeight, currentEvents, timer,
                 produced, handled, lost>>

TakeOther ==
  /\ colPhase = "waiting" /\ events # <<>>
  /\ currentHeight \notin {0, Head(events)}
  /\ taken' = Head(events) /\ events' = Tail(events)
  /\ BeginFlush("height")
  /\ UNCHANGED <<eventsOpen, canceled, currentHeight, currentEvents, timer,
                 produced, handled, lost>>

\* flushTimeout elapses.  A canceled collector does not wait in its select, so
\* time passes for it only inside ProcessBlock.
TimerExpires ==
  /\ timer = "running" /\ (~canceled \/ colPhase = "flushing")
  /\ timer' = "fired"
  /\ UNCHANGED <<events, eventsOpen, canceled, colPhase, reason, taken, currentHeight,
                 currentEvents, produced, handled, lost>>

\* the safety flush
SafetyTimeoutNever == FALSE     \* mutant: the timer's branch is missing
SafetyTimeout ==
  /\ colPhase = "waiting" /\ timer = "fired"
  /\ timer' = "off"
  /\ IF currentEvents # <<>> THEN BeginFlush("timeout") ELSE UNCHANGED <<colPhase, reason>>
  /\ UNCHANGED <<events, eventsOpen, canceled, taken, currentHeight, currentEvents,
                 produced, handled, lost>>

\* The two branches that end Run: flush what is there, with a context of its own,
\* and return.
FinalFlush(why) ==
  /\ colPhase = "waiting"
  /\ timer' = "off"
  /\ IF currentEvents # <<>> THEN BeginFlush(why)
                             ELSE colPhase' = "returned" /\ UNCHANGED reason
  /\ UNCHANGED <<events, eventsOpen, canceled, taken, currentHeight, currentEvents,
                 produced, handled, lost>>

ContextDone == canceled /\ FinalFlush("cancel")
ChannelClosed == ~eventsOpen /\ events = <<>> /\ FinalFlush("closed")

\* a final flush runs under context.Background(), the others under ctx
OwnContext == reason \in {"cancel", "closed"}

\* ProcessBlock stored the block; a transaction of a canceled ctx cannot commit.
FlushOK ==
  /\ colPhase = "flushing" /\ (OwnContext \/ ~canceled)
  /\ handled' = handled \o currentEvents
  /\ taken' = 0
  /\ IF reason = "height"
     THEN Accumulate(<<>>, taken)
     ELSE currentHeight' = 0 /\ currentEvents' = <<>> /\ UNCHANGED timer
  /\ colPhase' = IF OwnContext THEN "returned" ELSE "waiting"
  /\ UNCHANGED <<events, eventsOpen, canceled, reason, produced, lost>>

\* ProcessBlock failed: the state is reset all the same and Run returns, with an
\* error that makes the errgroup cancel ctx unless the flush was a final one.
FlushFails ==
  /\ colPhase = "flushing" /\ (StoreMayFail \/ (canceled /\ ~OwnContext))
  /\ lost' = lost \o currentEvents
  /\ currentHeight' = 0 /\ currentEvents' = <<>> /\ taken' = 0
  /\ colPhase' = "returned"
  /\ canceled' = (canceled \/ ~OwnContext)
  /\ UNCHANGED <<events, eventsOpen, reason, timer, produced, handled>>

-----------------------------------------------------------------------------
Terminated == colPhase = "returned" /\ UNCHANGED vars

ColNext ==
  \/ TakeSame \/ TakeOther \/ TimerExpires \/ SafetyTimeout \/ ContextDone \/ ChannelClosed
  \/ FlushOK \/ FlushFails

Next == (\E h \in Heights : Send(h)) \/ CloseChannel \/ Cancel \/ ColNext \/ Terminated

Spec == Init /\ [][Next]_vars

\* The goroutine runs, its timer fires, and a call of ProcessBlock returns.
FairSpec == Spec /\ WF_vars(ColNext)

-----------------------------------------------------------------------------
\* Every variable has its type; the channel keeps its capacity, and a height is
\* being gathered exactly while there are batches of it.
TypeOK ==
  /\ events \in Seq(Heights) /\ Len(events) <= EventBufferSize
  /\ eventsOpen \in BOOLEAN /\ canceled \in BOOLEAN /\ timer \in {"off", "running", "fired"}
  /\ colPhase \in {"waiting", "flushing", "returned"}
  /\ reason \in {"none", "height", "timeout", "cancel", "closed"}
  /\ taken \in Heights \cup {0} /\ currentHeight \in Heights \cup {0}
  /\ currentEvents \in Seq(Heights)
  /\ produced \in Seq(Heights) /\ handled \in Seq(Heights) /\ lost \in Seq(Heights)

\* ProcessBlock is never given events of two heights: everything gathered belongs
\* to currentHeight, which the whole call is stored under.
OneHeightPerFlush ==
  /\ \A i \in 1..Len(currentEvents) : currentEvents[i] = currentHeight
  /\ currentHeight = 0 <=> currentEvents = <<>>

\* Until Run returns no batch is lost, duplicated or reordered between the
\* subscriber's send and the database: what is stored, gathered, held and queued
\* is, in this order, what was sent.
Conservation ==
  colPhase # "returned" => handled \o currentEvents \o Taken \o events = produced

P == INSTANCE BlockPipeline
       WITH sent <- produced, stored <- handled, ended <- colPhase = "returned"

\* The collector implements the pipeline its readers count on: every transaction
\* extends what is stored by the next batches sent, all of one height, also when
\* another flush fails or the last one runs during shutdown, and none follows Run's
\* return.
RefinesPipeline == P!Spec

\* A batch is not left waiting for the next settlement block, which may be half an
\* hour away: what has been sent is stored, unless Run ends.
EventuallyHandled ==
  \A n \in 1..MaxBatches : Len(produced) >= n ~> Len(handled) >= n \/ colPhase = "returned"

\* Shutdown "flush[es] remaining block events in the collector": while the
\* database works, no flush loses the events gathered.
ShutdownFlushes == lost = <<>>

=============================================================================
