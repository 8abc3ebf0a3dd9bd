----------------------------- MODULE Subscriber -----------------------------
(***************************************************************************)
(* The WebSocket subscriber (subscriber/subscriber.go): one goroutine that *)
(* subscribes to a CometBFT node, watches the heights the node publishes,  *)
(* reports every skipped range through the gap callback, and hands the     *)
(* blocks that carry settlement events to the collector over a bounded     *)
(* channel.  On a closed or silent connection it closes the client, backs  *)
(* off and subscribes again, for ever, until the context is canceled.      *)
(*                                                                         *)
(* A block is its height.  What it contains is told apart only as far as   *)
(* the subscriber does: blocks of SettlementHeights decode to at least one *)
(* settlement event.  The node, its chain and the client's result channel  *)
(* are external and modelled from how the subscriber uses them.            *)
(***************************************************************************)
EXTENDS Integers, Sequences

CONSTANTS
  MaxHeight,            \* bound: the chain stops growing here
  SettlementHeights,    \* heights whose blocks decode to settlement events
  EventBufferSize,      \* eventChannelBufferSize
  WireCapacity,         \* capacity of the CometBFT client's result channel
  MaxLag                \* how far behind the chain a node may be when subscribed

ASSUME SubscriberAssumption ==
  /\ MaxHeight \in Nat \ {0}
  /\ SettlementHeights \subseteq Nat
  /\ EventBufferSize \in Nat \ {0}
  /\ WireCapacity \in Nat \ {0}
  /\ MaxLag \in Nat

VARIABLES
  chain,            \* latest height of the chain
  node,             \* latest height the subscribed node has published
  wire,             \* result channel of the client; 0 is an unexpected payload
  link,             \* "none", "up", "silent" (dead, nobody knows) or "closed"
  phase,            \* where the subscriber goroutine is
  lastSeenHeight,   \* Subscriber.lastSeenHeight
  pending,          \* block taken off the wire or being emitted, 0 if none
  events,           \* the bounded output channel
  eventsOpen,       \* FALSE once Run has closed the channel
  canceled,         \* ctx.Done()
  wsConnected,      \* psm_websocket_connected, set by the state callback
  gaps,             \* ranges passed to onGap, in order
  firstSeen,        \* history: first height seen, 0 if none
  delivered,        \* history: heights passed to onBlock
  emitted           \* history: heights sent on the output channel

nodeVars == <<chain, node, wire, link>>
chanVars == <<events, eventsOpen>>
seenVars == <<lastSeenHeight, gaps, firstSeen, delivered>>
vars == <<nodeVars, phase, pending, chanVars, canceled, wsConnected, seenVars, emitted>>

Unexpected == 0         \* a result whose Data is not EventDataNewBlockEvents

Phases == {"connecting", "receiving", "header", "emitting", "blocked",
           "backoff", "subscribing", "stopped"}

\* the gap condition of receiveLoop: a height was skipped since the last one seen
IsGapOffByOne(last, h) == last > 0 /\ h > last + 2     \* mutant
IsGap(last, h) == last > 0 /\ h > last + 1

\* the range handed to onGap
GapRangeInclusive(last, h) == [from |-> last + 1, to |-> h]     \* mutant
GapRange(last, h) == [from |-> last + 1, to |-> h - 1]

\* height is in one of the ranges handed to the gap callback
InGap(h) == \E i \in 1..Len(gaps) : h \in gaps[i].from .. gaps[i].to

-----------------------------------------------------------------------------
Init ==
  /\ chain = 1 /\ node = 0 /\ wire = <<>> /\ link = "none"
  /\ phase = "connecting"
  /\ lastSeenHeight = 0 /\ pending = 0
  /\ events = <<>> /\ eventsOpen = TRUE
  /\ canceled = FALSE /\ wsConnected = FALSE
  /\ gaps = <<>> /\ firstSeen = 0 /\ delivered = {} /\ emitted = {}

-----------------------------------------------------------------------------
(* The node and the network.                                               *)

\* the chain grows whether or not anybody listens
Commit ==
  /\ chain < MaxHeight
  /\ chain' = chain + 1
  /\ UNCHANGED <<node, wire, link, phase, pending, chanVars, canceled,
                 wsConnected, seenVars, emitted>>

\* The node publishes its next block.  The client drops the result when its
\* channel is full, and a block too heavy for the WebSocket never arrives.
Publish ==
  /\ link = "up" /\ node < chain
  /\ node' = node + 1
  /\ \/ Len(wire) < WireCapacity /\ wire' = Append(wire, node + 1)
     \/ UNCHANGED wire
  /\ UNCHANGED <<chain, link, phase, pending, chanVars, canceled,
                 wsConnected, seenVars, emitted>>

\* the client delivers a result of another type
PublishUnexpected ==
  /\ link = "up" /\ Len(wire) < WireCapacity
  /\ wire' = Append(wire, Unexpected)
  /\ UNCHANGED <<chain, node, link, phase, pending, chanVars, canceled,
                 wsConnected, seenVars, emitted>>

\* the connection dies, with or without the result channel being closed
ConnectionLost ==
  /\ link = "up"
  /\ link' \in {"silent", "closed"}
  /\ UNCHANGED <<chain, node, wire, phase, pending, chanVars, canceled,
                 wsConnected, seenVars, emitted>>

\* SIGTERM, or another member of the errgroup returned an error
Cancel ==
  /\ ~canceled
  /\ canceled' = TRUE
  /\ UNCHANGED <<nodeVars, phase, pending, chanVars, wsConnected, seenVars, emitted>>

\* The collector takes the oldest block; it may be gone once ctx is canceled.
Consume ==
  /\ events # <<>>
  /\ events' = Tail(events)
  /\ UNCHANGED <<nodeVars, phase, pending, eventsOpen, canceled, wsConnected,
                 seenVars, emitted>>

-----------------------------------------------------------------------------
(* The subscriber goroutine.                                               *)

\* Run returns: the deferred close of the output channel
Return ==
  /\ phase' = "stopped" /\ eventsOpen' = FALSE
  /\ UNCHANGED <<nodeVars, pending, events, canceled, wsConnected, seenVars, emitted>>

\* The receive loop or the first Subscribe ended: notify, close the client and
\* go and wait for the first reconnection delay, unless ctx is canceled.
Disconnected ==
  \/ canceled /\ Return
  \/ /\ ~canceled
     /\ phase' = "backoff" /\ wsConnected' = FALSE
     /\ link' = "none" /\ wire' = <<>>
     /\ UNCHANGED <<chain, node, pending, chanVars, canceled, seenVars, emitted>>

\* a fresh client on some node that is at most MaxLag behind the chain
SubscribeOK ==
  /\ phase \in {"connecting", "subscribing"}
  /\ node' \in {n \in 0..chain : n >= chain - MaxLag}
  /\ wire' = <<>> /\ link' = "up"
  /\ phase' = "receiving" /\ wsConnected' = TRUE
  /\ UNCHANGED <<chain, pending, chanVars, canceled, seenVars, emitted>>

\* the first Subscribe, in subscribeAndProcess, fails
ConnectFails == phase = "connecting" /\ Disconnected

\* a later one, in reconnect, fails: another, longer delay
ResubscribeFails ==
  /\ phase = "subscribing"
  /\ phase' = "backoff"
  /\ UNCHANGED <<nodeVars, pending, chanVars, canceled, wsConnected, seenVars, emitted>>

\* the delay elapses
BackoffElapsed ==
  /\ phase = "backoff"
  /\ phase' = "subscribing"
  /\ UNCHANGED <<nodeVars, pending, chanVars, canceled, wsConnected, seenVars, emitted>>

\* the ctx.Done branch of the two selects that wait
ContextDone == phase \in {"receiving", "backoff"} /\ canceled /\ Return

\* the result channel is closed and drained
ChannelClosed ==
  /\ phase = "receiving" /\ link = "closed" /\ wire = <<>>
  /\ Disconnected

\* Nothing was received for heartbeatTimeout.  A result may arrive between the
\* timer firing and the select choosing it.
HeartbeatNever == FALSE         \* mutant: no timer
HeartbeatTimeout == phase = "receiving" /\ Disconnected

\* a result of another type only resets the heartbeat
ReceiveUnexpected ==
  /\ phase = "receiving" /\ wire # <<>> /\ Head(wire) = Unexpected
  /\ wire' = Tail(wire)
  /\ UNCHANGED <<chain, node, link, phase, pending, chanVars, canceled,
                 wsConnected, seenVars, emitted>>

\* a block comes off the wire and its header is queried
Receive ==
  /\ phase = "receiving" /\ wire # <<>> /\ Head(wire) # Unexpected
  /\ pending' = Head(wire) /\ wire' = Tail(wire)
  /\ phase' = "header"
  /\ UNCHANGED <<chain, node, link, chanVars, canceled, wsConnected, seenVars, emitted>>

\* the query failed because of the cancellation: the block is not looked at
HeaderCanceled == phase = "header" /\ canceled /\ Return

\* The header, or the wall clock in its place: detect a gap, advance
\* lastSeenHeight, call onBlock, and emit the block if it has events.
HeaderDone ==
  /\ phase = "header"
  /\ gaps' = IF IsGap(lastSeenHeight, pending)
             THEN Append(gaps, GapRange(lastSeenHeight, pending))
             ELSE gaps
  /\ lastSeenHeight' = pending
  /\ firstSeen' = IF firstSeen = 0 THEN pending ELSE firstSeen
  /\ delivered' = delivered \cup {pending}
  /\ IF pending \in SettlementHeights
     THEN phase' = "emitting" /\ UNCHANGED pending
     ELSE phase' = "receiving" /\ pending' = 0
  /\ UNCHANGED <<nodeVars, chanVars, canceled, wsConnected, emitted>>

\* mutant: the first select falls through to the second after a send
EmitTwice ==
  /\ phase \in {"emitting", "blocked"} /\ Len(events) < EventBufferSize
  /\ events' = Append(events, pending) /\ emitted' = emitted \cup {pending}
  /\ IF phase = "emitting" THEN phase' = "blocked" /\ UNCHANGED pending
                           ELSE phase' = "receiving" /\ pending' = 0
  /\ UNCHANGED <<nodeVars, eventsOpen, canceled, wsConnected, seenVars>>

\* the send of emitBlockEvents, in the first select or in the second
Emit ==
  /\ phase \in {"emitting", "blocked"} /\ Len(events) < EventBufferSize
  /\ events' = Append(events, pending) /\ emitted' = emitted \cup {pending}
  /\ phase' = "receiving" /\ pending' = 0
  /\ UNCHANGED <<nodeVars, eventsOpen, canceled, wsConnected, seenVars>>

\* mutant: a full channel drops the block
EmitDrops ==
  /\ phase = "emitting" /\ Len(events) = EventBufferSize
  /\ phase' = "receiving" /\ pending' = 0
  /\ UNCHANGED <<nodeVars, chanVars, canceled, wsConnected, seenVars, emitted>>

\* the first select finds the channel full
EmitBlocks ==
  /\ phase = "emitting" /\ Len(events) = EventBufferSize
  /\ phase' = "blocked"
  /\ UNCHANGED <<nodeVars, pending, chanVars, canceled, wsConnected, seenVars, emitted>>

EmitNeverAbandoned == FALSE     \* mutant: the second select has no ctx.Done branch

\* the second gives the block up when ctx is canceled
EmitAbandoned ==
  /\ phase = "blocked" /\ canceled
  /\ phase' = "receiving" /\ pending' = 0
  /\ UNCHANGED <<nodeVars, chanVars, canceled, wsConnected, seenVars, emitted>>

-----------------------------------------------------------------------------
EnvNext == Commit \/ Publish \/ PublishUnexpected \/ ConnectionLost \/ Cancel

\* the steps of the goroutine that come of themselves
SubStep ==
  \/ ContextDone \/ ChannelClosed \/ ReceiveUnexpected \/ Receive
  \/ HeaderDone \/ Emit \/ EmitBlocks \/ EmitAbandoned \/ BackoffElapsed

SubNext ==
  \/ SubStep \/ SubscribeOK \/ ConnectFails \/ ResubscribeFails
  \/ HeartbeatTimeout \/ HeaderCanceled

\* Run has returned: nothing is owed any more
Terminated == phase = "stopped" /\ UNCHANGED vars

Next == EnvNext \/ Consume \/ SubNext \/ Terminated

Spec == Init /\ [][Next]_vars

(***************************************************************************)
(* Fairness.  The goroutine runs (SubStep); a select that finds ctx.Done   *)
(* ready time after time takes it at some point, Go choosing at random     *)
(* between ready cases; the heartbeat timer fires on a silent connection   *)
(* whose results have been read; the collector takes blocks while ctx is   *)
(* live; a node that is asked again and again is reached at some point.    *)
(* Neither the chain nor the network owes anything else, and the collector *)
(* owes nothing after the cancellation.                                    *)
(***************************************************************************)
Fairness ==
  /\ WF_vars(SubStep)
  /\ SF_vars(ContextDone)
  /\ WF_vars(link = "silent" /\ wire = <<>> /\ HeartbeatTimeout)
  /\ WF_vars(~canceled /\ Consume)
  /\ SF_vars(SubscribeOK)

FairSpec == Spec /\ Fairness

-----------------------------------------------------------------------------
Gap == [from : Nat, to : Nat]

\* Every variable has its type, and no channel holds more than its capacity:
\* the two selects of emitBlockEvents never send on a full output channel.
TypeOK ==
  /\ chain \in Nat /\ node \in 0..chain
  /\ wire \in Seq(Nat) /\ Len(wire) <= WireCapacity
  /\ link \in {"none", "up", "silent", "closed"}
  /\ phase \in Phases
  /\ lastSeenHeight \in Nat /\ pending \in Nat
  /\ events \in Seq(Nat) /\ Len(events) <= EventBufferSize
  /\ eventsOpen \in BOOLEAN /\ canceled \in BOOLEAN /\ wsConnected \in BOOLEAN
  /\ gaps \in Seq(Gap)
  /\ firstSeen \in Nat /\ delivered \subseteq Nat /\ emitted \subseteq Nat

\* No height escapes: whatever was lost, reordered by a node that lags, or
\* missed while reconnecting, each height from the first one seen to any height
\* seen since was itself seen or is in a range the gap detection of receiveLoop
\* handed to BackfillRange.
GapCoverage ==
  \A d \in delivered : \A h \in firstSeen..d : h \in delivered \/ InGap(h)

\* Back-pressure loses nothing: a settlement block receiveLoop has looked at was
\* sent on the output channel, or is about to be, or ctx is canceled.
EmissionAccounting ==
  \A h \in delivered \cap SettlementHeights :
    \/ h \in emitted
    \/ phase \in {"emitting", "blocked"} /\ pending = h
    \/ canceled

\* When no node lags, live and gap recovery never process the same block: a
\* range handed to BackfillRange holds no height that is seen, then or later,
\* on the WebSocket, and no two ranges overlap.
NoFalseGap ==
  MaxLag = 0 =>
    /\ \A h \in delivered : ~InGap(h)
    /\ \A i, j \in 1..Len(gaps) :
         i < j => gaps[i].to < gaps[j].from

\* When no node lags, the collector is given every block once and in chain order:
\* the heights on the output channel, and the one about to be sent, increase.
OrderedEvents ==
  LET line == IF phase \in {"emitting", "blocked"} THEN Append(events, pending)
                                                  ELSE events
  IN  MaxLag = 0 => \A i, j \in 1..Len(line) : i < j => line[i] < line[j]

\* Cancellation ends the goroutine and closes the output channel, even when it
\* is blocked on a full channel that nobody reads any more.
CancelStops == canceled ~> phase = "stopped" /\ ~eventsOpen

\* A dead connection, closed or silent, is noticed and replaced.
Reconnects == link \in {"silent", "closed"} ~> link = "up" \/ canceled

\* A settlement block seen on the WebSocket reaches the collector's channel.
EventuallyEmitted ==
  \A h \in SettlementHeights : h \in delivered ~> h \in emitted \/ canceled

=============================================================================
