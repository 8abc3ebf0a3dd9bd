---------------------------- MODULE MonitorProofs ----------------------------
(***************************************************************************)
(* Proofs about the monitor process, for every chain, channel capacity,    *)
(* set of faults and number of restarts.  The parts keep the invariants    *)
(* proved of them alone, because what the others do to a part is a step it *)
(* allows for; what a height owes to several of them at once follows from  *)
(* these and from how they meet.                                           *)
(***************************************************************************)
EXTENDS Monitor, SequenceTheorems, TLAPS

\* The state callback and the server are not part of the monitor module: nothing
\* moves their variables.
SP == INSTANCE SubscriberProofs
        WITH OpsEnabled <- FALSE, StoreMayFail <- "store" \in Faults, ready <- FALSE,
             telling <- "none", firstBlockOnce <- FALSE, forced <- FALSE, collector <- "empty",
             server <- "serving", probing <- FALSE, dbOpen <- TRUE
CP == INSTANCE CollectorProofs WITH Heights <- SettlementHeights, MaxBatches <- MaxHeight,
                                    StoreMayFail <- "store" \in Faults
BP == INSTANCE BackfillerProofs WITH MaxGaps <- MaxHeight, RequestedFroms <- {0}

\* The assumptions of the parts are those of the monitor.
LEMMA PartsAssume ==
  /\ SP!SubscriberAssumption /\ SP!ReadinessAssumption
  /\ CP!CollectorAssumption /\ BP!BackfillerAssumption
<1>1. SP!ReadinessAssumption
  BY DEF SP!ReadinessAssumption
<1> QED
  BY <1>1, MonitorAssumption
     DEF SP!SubscriberAssumption, CP!CollectorAssumption, BP!BackfillerAssumption

-----------------------------------------------------------------------------
(* Every step of the monitor is a step of each part, or leaves it alone,   *)
(* but for a restart.                                                      *)

\* The chain, the node, the signal and the subscriber's goroutine.
LEMMA SubscriberSteps == NodeStep \/ SubscriberStep \/ EmitStep => SP!Next
<1> USE DEF S!nodeVars, S!chanVars, S!seenVars, SP!nodeVars, SP!chanVars, SP!seenVars
<1>1. NodeStep => SP!EnvNext
  BY DEF NodeStep, S!Commit, S!Publish, S!ConnectionLost, S!Cancel,
         SP!EnvNext, SP!Commit, SP!Publish, SP!ConnectionLost, SP!Cancel
<1>2. EmitStep => SP!Emit
  BY DEF EmitStep, S!Emit, SP!Emit
<1>3. SubscriberStep => SP!SubNext
  <2> USE DEF SP!SubNext, SP!SubStep
  <2>1. S!SubscribeOK => SP!SubNext
    BY DEF S!SubscribeOK, SP!SubscribeOK
  <2>2. S!ConnectFails \/ S!ChannelClosed \/ S!HeartbeatTimeout => SP!SubNext
    BY DEF S!ConnectFails, S!ChannelClosed, S!HeartbeatTimeout, S!Disconnected, S!Return,
           SP!ConnectFails, SP!ChannelClosed, SP!HeartbeatTimeout, SP!Disconnected, SP!Return
  <2>3. S!ResubscribeFails \/ S!BackoffElapsed => SP!SubNext
    BY DEF S!ResubscribeFails, S!BackoffElapsed, SP!ResubscribeFails, SP!BackoffElapsed
  <2>4. S!ContextDone \/ S!HeaderCanceled => SP!SubNext
    BY DEF S!ContextDone, S!HeaderCanceled, S!Return,
           SP!ContextDone, SP!HeaderCanceled, SP!Return
  <2>5. S!Receive => SP!SubNext
    BY DEF S!Receive, SP!Receive, S!Unexpected, SP!Unexpected
  <2>6. S!HeaderDone => SP!SubNext
    BY DEF S!HeaderDone, SP!HeaderDone, S!IsGap, SP!IsGap, S!GapRange, SP!GapRange
  <2>7. S!EmitBlocks \/ S!EmitAbandoned => SP!SubNext
    BY DEF S!EmitBlocks, S!EmitAbandoned, SP!EmitBlocks, SP!EmitAbandoned
  <2> QED
    BY <2>1, <2>2, <2>3, <2>4, <2>5, <2>6, <2>7 DEF SubscriberStep
<1> QED
  BY <1>1, <1>2, <1>3 DEF SP!Next, SP!SubNext, SP!SubStep

\* The startup backfill and the gap recoveries leave the chain, the gaps and the
\* signal alone, but that a failed startup backfill cancels.
LEMMA BackfillTouches ==
  /\ StartupStep => /\ UNCHANGED <<chain, gaps, tasks, events, eventsOpen, subOnly,
                                   colOnly, procVars>>
                    /\ canceled' = canceled \/ canceled' = TRUE
  /\ RangeStep => UNCHANGED <<chain, gaps, canceled, startup, events, eventsOpen, subOnly, colOnly,
                              procVars>>
<1>1. ASSUME StartupStep
      PROVE  UNCHANGED <<chain, gaps, tasks>> /\ (canceled' = canceled \/ canceled' = TRUE)
  BY <1>1 DEF StartupStep, B!StartupReadLast, B!StartupDecide, B!StartupBlock,
     B!StartupCanceled, B!StartupDone, B!StartupFails, B!StartupFetchFails,
     B!StartupProcessFails, B!StartupError
<1>2. ASSUME RangeStep PROVE UNCHANGED <<chain, gaps, canceled, startup>>
  BY <1>2 DEF RangeStep, B!RangeStart, B!RangeBlock, B!RangeDone, B!RangeNoClient,
     B!RangeFetchFails, B!RangeProcessFails, B!RangeAbandon
<1> QED
  BY <1>1, <1>2 DEF StartupStep, RangeStep

\* To the subscriber, the others receive from its channel, cancel, or do nothing.
LEMMA OthersForSubscriber ==
  ASSUME canceled \in BOOLEAN,
         CollectorStep \/ FlushStep \/ StartupStep \/ RangeStep \/ Shutdown \/ Exited
  PROVE  [SP!Next]_(SP!vars)
<1> SUFFICES SP!Consume \/ SP!Cancel \/ UNCHANGED SP!vars
  BY DEF SP!Next, SP!EnvNext
<1> USE DEF SP!nodeVars, SP!chanVars, SP!seenVars, SP!vars, subOnly, SP!Cancel
<1>1. CASE CollectorStep
  <2>1. CASE C!TakeSame \/ C!TakeOther
    BY <1>1, <2>1 DEF CollectorStep, SP!Consume, C!TakeSame, C!TakeOther
  <2>2. CASE C!FlushFails
    <3>1. canceled' = canceled \/ (~canceled /\ canceled' = TRUE)
      <4>1. CASE canceled = TRUE
        BY <2>2, <4>1 DEF C!FlushFails
      <4>2. CASE canceled = FALSE
        BY <2>2, <4>2 DEF C!FlushFails, C!OwnContext
      <4> QED
        BY <4>1, <4>2
    <3> QED
      BY <1>1, <2>2, <3>1 DEF CollectorStep, C!FlushFails
  <2>3. CASE C!TimerExpires \/ C!SafetyTimeout \/ C!ContextDone \/ C!ChannelClosed
    BY <1>1, <2>3 DEF CollectorStep, C!TimerExpires, C!SafetyTimeout, C!ContextDone,
                      C!ChannelClosed, C!FinalFlush
  <2> QED
    BY <1>1, <2>1, <2>2, <2>3 DEF CollectorStep
<1>2. CASE FlushStep
  BY <1>2 DEF FlushStep, C!FlushOK
<1>3. CASE StartupStep \/ RangeStep
  BY <1>3, BackfillTouches
<1>4. CASE Shutdown \/ Exited
  BY <1>4 DEF Shutdown, Exited, vars
<1> QED
  BY <1>1, <1>2, <1>3, <1>4

LEMMA SubscriberSees ==
  ASSUME canceled \in BOOLEAN, [Next]_vars
  PROVE  [SP!Next]_(SP!vars) \/ Restart
BY SubscriberSteps, OthersForSubscriber
   DEF Next, Exited, vars, SP!vars, SP!nodeVars, SP!chanVars, SP!seenVars, subOnly

\* What the subscriber's step may do to the collector: close the channel of a
\* canceled ctx, or nothing.
LEMMA SubscriberForCollector ==
  ASSUME eventsOpen \in BOOLEAN, SubscriberStep
  PROVE  [CP!Next]_(CP!vars)
<1> USE DEF S!nodeVars, S!chanVars, S!seenVars
<1>1. /\ events' = events /\ canceled' = canceled
      /\ eventsOpen' = eventsOpen \/ (canceled /\ eventsOpen' = FALSE)
  <2>1. CASE S!SubscribeOK \/ S!ResubscribeFails \/ S!BackoffElapsed \/ S!Receive
    BY <2>1 DEF S!SubscribeOK, S!ResubscribeFails, S!BackoffElapsed, S!Receive
  <2>2. CASE S!ConnectFails \/ S!ChannelClosed \/ S!HeartbeatTimeout
    BY <2>2 DEF S!ConnectFails, S!ChannelClosed, S!HeartbeatTimeout, S!Disconnected, S!Return
  <2>3. CASE S!ContextDone \/ S!HeaderCanceled
    BY <2>3 DEF S!ContextDone, S!HeaderCanceled, S!Return
  <2>4. CASE S!HeaderDone \/ S!EmitBlocks \/ S!EmitAbandoned
    BY <2>4 DEF S!HeaderDone, S!EmitBlocks, S!EmitAbandoned
  <2> QED
    BY <2>1, <2>2, <2>3, <2>4 DEF SubscriberStep
<1>2. UNCHANGED colOnly
  BY DEF SubscriberStep
<1> QED
  BY <1>1, <1>2 DEF CP!Next, CP!CloseChannel, CP!vars, CP!colVars, colOnly

\* Whoever cancels, or does nothing, does so to the collector too.
LEMMA CancelForCollector ==
  ASSUME canceled \in BOOLEAN, UNCHANGED <<events, eventsOpen, colOnly>>,
         canceled' = canceled \/ canceled' = TRUE
  PROVE  [CP!Next]_(CP!vars)
BY DEF CP!Next, CP!Cancel, CP!vars, CP!colVars, colOnly

\* The collector's own steps are those of Collector.
LEMMA CollectorSteps == CollectorStep \/ FlushStep => CP!Next
<1> USE DEF CP!Next, CP!ColNext
<1>1. C!TakeSame => CP!Next
  BY DEF C!TakeSame, CP!TakeSame, C!Accumulate, CP!Accumulate
<1>2. C!TakeOther => CP!Next
  BY DEF C!TakeOther, CP!TakeOther, C!BeginFlush, CP!BeginFlush
<1>3. C!TimerExpires \/ C!SafetyTimeout => CP!Next
  BY DEF C!TimerExpires, CP!TimerExpires, C!SafetyTimeout, CP!SafetyTimeout,
         C!BeginFlush, CP!BeginFlush
<1>4. C!ContextDone \/ C!ChannelClosed => CP!Next
  BY DEF C!ContextDone, CP!ContextDone, C!ChannelClosed, CP!ChannelClosed,
         C!FinalFlush, CP!FinalFlush, C!BeginFlush, CP!BeginFlush
<1>5. C!FlushOK => CP!Next
  BY DEF C!FlushOK, CP!FlushOK, C!Accumulate, CP!Accumulate, C!OwnContext, CP!OwnContext
<1>6. C!FlushFails => CP!Next
  BY DEF C!FlushFails, CP!FlushFails, C!OwnContext, CP!OwnContext
<1> QED
  BY <1>1, <1>2, <1>3, <1>4, <1>5, <1>6 DEF CollectorStep, FlushStep

\* Only the subscriber's send is not a step of Collector: its bound on the number
\* of batches is not the monitor's.
LEMMA CollectorSees ==
  ASSUME canceled \in BOOLEAN, eventsOpen \in BOOLEAN, [Next]_vars, ~Restart, ~EmitStep
  PROVE  [CP!Next]_(CP!vars)
<1> USE DEF CP!vars, CP!colVars, colOnly
<1>1. CASE NodeStep
  <2>1. /\ UNCHANGED <<events, eventsOpen, colOnly>>
        /\ canceled' = canceled \/ canceled' = TRUE
    BY <1>1 DEF NodeStep, S!Commit, S!Publish, S!ConnectionLost, S!Cancel, S!chanVars
  <2> QED
    BY <2>1, CancelForCollector
<1>2. CASE SubscriberStep
  BY <1>2, SubscriberForCollector
<1>3. CASE CollectorStep \/ FlushStep
  BY <1>3, CollectorSteps
<1>4. CASE StartupStep \/ RangeStep
  BY <1>4, BackfillTouches, CancelForCollector
<1>5. CASE Shutdown \/ Exited \/ UNCHANGED vars
  BY <1>5 DEF Shutdown, Exited, vars
<1> QED
  BY <1>1, <1>2, <1>3, <1>4, <1>5 DEF Next

-----------------------------------------------------------------------------
(* What a gap recovery does in one step.                                   *)

\* the goroutine of the next gap begins
Begins ==
  /\ Len(tasks) < Len(gaps) /\ Len(tasks') = Len(tasks) + 1
  /\ \A j \in 1..Len(tasks) : tasks'[j] = tasks[j]
  /\ LET t == tasks'[Len(tasks) + 1]
         g == gaps[Len(tasks) + 1]
     IN  t.from = g.from /\ t.to = g.to /\ t.next = g.from /\ t.status = "running"
  /\ UNCHANGED dbVars

\* goroutine i goes on, the others do not
Continues(i) ==
  /\ tasks[i].status = "running"
  /\ Len(tasks') = Len(tasks)
  /\ \A j \in 1..Len(tasks) : j # i => tasks'[j] = tasks[j]
  /\ tasks'[i].from = tasks[i].from /\ tasks'[i].to = tasks[i].to

\* by a block
Stores(i) ==
  /\ Continues(i)
  /\ tasks[i].next <= tasks[i].to
  /\ tasks'[i].next = tasks[i].next + 1 /\ tasks'[i].status = "running"
  /\ \E isLive \in BOOLEAN : BP!Process(tasks[i].next, isLive)

\* or by a retry, by giving up, or by the end of its range
Waits(i) ==
  /\ Continues(i)
  /\ tasks'[i].next = tasks[i].next
  /\ \/ tasks'[i].status \in {"running", "abandoned"}
     \/ tasks'[i].status = "done" /\ tasks[i].next > tasks[i].to
  /\ UNCHANGED dbVars

LEMMA RangeMoves ==
  ASSUME BP!IInv, RangeStep
  PROVE  Begins \/ \E i \in 1..Len(tasks) : Stores(i) \/ Waits(i)
<1>t. tasks \in Seq(BP!Task) /\ Len(tasks) \in Nat
  BY LenProperties DEF BP!IInv, BP!TypeOK
<1>1. CASE B!RangeStart
  <2> DEFINE g == gaps[Len(tasks) + 1]
  <2> DEFINE t == [from |-> g.from, to |-> g.to, next |-> g.from, attempt |-> 0,
                   status |-> "running"]
  <2>1. Len(tasks) < Len(gaps) /\ tasks' = Append(tasks, t) /\ UNCHANGED dbVars
    BY <1>1 DEF B!RangeStart, dbVars
  <2>2. t.from = g.from /\ t.to = g.to /\ t.next = g.from /\ t.status = "running"
    OBVIOUS
  <2> HIDE DEF t
  <2>3. /\ Len(tasks') = Len(tasks) + 1 /\ tasks'[Len(tasks) + 1] = t
        /\ \A j \in 1..Len(tasks) : tasks'[j] = tasks[j]
    BY <1>t, <2>1
  <2> QED
    BY <2>1, <2>2, <2>3 DEF Begins
<1>2. ASSUME NEW i \in 1..Len(tasks), NEW t \in BP!Task,
             tasks' = [tasks EXCEPT ![i] = t], tasks[i].status = "running",
             t.from = tasks[i].from, t.to = tasks[i].to
      PROVE  Continues(i) /\ tasks'[i] = t
  BY <1>t, <1>2, PartsAssume, BP!OneTask DEF Continues
<1>3. ASSUME NEW i \in 1..Len(tasks),
             \/ storeOpen /\ B!RangeBlock(i)
             \/ B!RangeDone(i)
             \/ "rpc" \in Faults /\ (B!RangeNoClient(i) \/ B!RangeFetchFails(i))
             \/ ("store" \in Faults \/ ~storeOpen) /\ B!RangeProcessFails(i)
      PROVE  Stores(i) \/ Waits(i)
  <2>t. /\ tasks[i] \in BP!Task /\ tasks[i].next \in 1..MaxHeight + 1
        /\ tasks[i].to \in 1..MaxHeight /\ tasks[i].attempt \in 0..Retries
    <3>1. tasks[i] \in BP!Task
      BY <1>t, ElementOfSeq
    <3> QED
      BY <3>1 DEF BP!Task, BP!Heights
  <2>1. CASE B!RangeAbandon(i) /\ tasks[i].status = "running"
    <3> DEFINE t == [tasks[i] EXCEPT !.status = "abandoned"]
    <3>1. tasks' = [tasks EXCEPT ![i] = t] /\ UNCHANGED dbVars
      BY <2>1 DEF B!RangeAbandon, dbVars
    <3>2. /\ t \in BP!Task /\ t.status = "abandoned" /\ t.from = tasks[i].from
          /\ t.to = tasks[i].to /\ t.next = tasks[i].next
      BY <2>t DEF BP!Task
    <3> HIDE DEF t
    <3> QED
      BY <1>2, <2>1, <3>1, <3>2 DEF Waits
  <2>2. CASE B!RangeFetchFails(i) /\ ~B!RangeAbandon(i)
    <3> DEFINE t == [tasks[i] EXCEPT !.attempt = tasks[i].attempt + 1]
    <3>1. /\ tasks' = [tasks EXCEPT ![i] = t] /\ tasks[i].attempt < Retries
          /\ tasks[i].status = "running" /\ UNCHANGED dbVars
      BY <2>2 DEF B!RangeFetchFails, B!Running, dbVars
    <3>2. /\ t \in BP!Task /\ t.status = tasks[i].status /\ t.from = tasks[i].from
          /\ t.to = tasks[i].to /\ t.next = tasks[i].next
      <4>1. tasks[i].attempt + 1 \in 0..Retries
        BY <2>t, <3>1, MonitorAssumption
      <4> QED
        BY <2>t, <4>1 DEF BP!Task
    <3> HIDE DEF t
    <3> QED
      BY <1>2, <3>1, <3>2 DEF Waits
  <2>3. CASE B!RangeBlock(i)
    <3> DEFINE t == [tasks[i] EXCEPT !.next = tasks[i].next + 1, !.attempt = 0]
    <3>1. /\ tasks' = [tasks EXCEPT ![i] = t]
          /\ tasks[i].status = "running" /\ tasks[i].next <= tasks[i].to
      BY <2>3 DEF B!RangeBlock, B!Running
    <3>2. /\ t \in BP!Task /\ t.status = tasks[i].status /\ t.from = tasks[i].from
          /\ t.to = tasks[i].to /\ t.next = tasks[i].next + 1
      <4>1. tasks[i].next + 1 \in 1..MaxHeight + 1 /\ 0 \in 0..Retries
        BY <2>t, <3>1, MonitorAssumption
      <4> QED
        BY <2>t, <4>1 DEF BP!Task
    <3>3. \E isLive \in BOOLEAN : BP!Process(tasks[i].next, isLive)
      BY <2>3, MonitorAssumption DEF B!RangeBlock, B!Process, BP!Process
    <3> HIDE DEF t
    <3> QED
      BY <1>2, <3>1, <3>2, <3>3 DEF Stores
  <2>4. CASE B!RangeDone(i)
    <3> DEFINE t == [tasks[i] EXCEPT !.status = "done"]
    <3>1. /\ tasks' = [tasks EXCEPT ![i] = t] /\ UNCHANGED dbVars
          /\ tasks[i].status = "running" /\ tasks[i].next > tasks[i].to
      BY <2>4 DEF B!RangeDone, dbVars
    <3>2. /\ t \in BP!Task /\ t.status = "done" /\ t.from = tasks[i].from
          /\ t.to = tasks[i].to /\ t.next = tasks[i].next
      BY <2>t DEF BP!Task
    <3> HIDE DEF t
    <3> QED
      BY <1>2, <3>1, <3>2 DEF Waits
  <2> QED
    BY <1>3, <2>1, <2>2, <2>3, <2>4
       DEF B!RangeNoClient, B!RangeFetchFails, B!RangeProcessFails, B!Running
<1> QED
  BY <1>1, <1>3 DEF RangeStep

-----------------------------------------------------------------------------
(* The inductive invariant: those of the parts, and how they meet.         *)

Parts == SP!CoverInv /\ CP!IInv /\ BP!IInv

Emitting == phase \in {"emitting", "blocked"}

\* Whatever is on its way was published by the chain, what the collector has was
\* seen by the subscriber and carries settlements, and a channel is closed, or a
\* last flush begun, only when ctx is canceled.
Meeting ==
  /\ delivered \subseteq 1..chain
  /\ phase = "header" => pending <= chain
  /\ \A i \in 1..Len(wire) : wire[i] <= chain
  /\ Emitting => pending \in SettlementHeights
  /\ \A h \in SettlementHeights : InPipeline(h) => h \in delivered
  /\ ~eventsOpen => canceled
  /\ reason \in {"cancel", "closed"} => canceled

\* A gap recovery works on its gap, from its beginning.
TasksAreGaps ==
  \A i \in 1..Len(tasks) :
    /\ tasks[i].from = gaps[i].from /\ tasks[i].to = gaps[i].to
    /\ tasks[i].from <= tasks[i].next

\* What the provers need most often of the types.
LEMMA PartTypes ==
  ASSUME Parts
  PROVE  /\ chain \in 1..MaxHeight /\ MaxHeight \in Nat /\ node \in 0..chain
         /\ canceled \in BOOLEAN /\ eventsOpen \in BOOLEAN
         /\ wire \in Seq(Nat) /\ pending \in Nat
         /\ lastSeenHeight \in Nat /\ firstSeen \in Nat /\ delivered \subseteq Nat
         /\ events \in Seq(SettlementHeights) /\ currentEvents \in Seq(SettlementHeights)
         /\ gaps \in Seq([from : 1..MaxHeight, to : 1..MaxHeight])
         /\ stored \subseteq 1..MaxHeight /\ liveCounted \in [1..MaxHeight -> Nat]
<1>1. SP!TypeOK /\ CP!TypeOK /\ BP!TypeOK
  BY DEF Parts, SP!CoverInv, CP!IInv, BP!IInv
<1>2. canceled \in BOOLEAN /\ eventsOpen \in BOOLEAN
  BY <1>1, Zenon DEF SP!TypeOK
<1> QED
  BY <1>1, <1>2, MonitorAssumption DEF SP!TypeOK, CP!TypeOK, BP!TypeOK, BP!Heights

\* What the collector is gathering when it flushes was seen, and is on the chain.
LEMMA FlushedHeight ==
  ASSUME Parts, Meeting, FlushStep
  PROVE  /\ currentHeight \in SettlementHeights /\ InPipeline(currentHeight)
         /\ currentHeight \in 1..MaxHeight
         /\ stored' = stored \cup {currentHeight}
         /\ BP!Process(currentHeight, TRUE)
<1>1. currentEvents # <<>> /\ colPhase = "flushing"
  BY DEF Parts, CP!IInv, CP!Holding, FlushStep, C!FlushOK
<1>2. currentEvents \in Seq(SettlementHeights) /\ 1 \in 1..Len(currentEvents)
  BY <1>1, PartTypes, EmptySeq, LenProperties
<1>3. currentEvents[1] = currentHeight /\ currentEvents[1] \in SettlementHeights
  BY <1>2, ElementOfSeq DEF Parts, CP!IInv, CP!OneHeightPerFlush
<1>4. InPipeline(currentHeight) /\ currentHeight \in SettlementHeights
  BY <1>2, <1>3 DEF InPipeline
<1>5. currentHeight \in 1..MaxHeight
  <2>1. currentHeight \in 1..chain
    BY <1>4 DEF Meeting
  <2> QED
    BY <2>1, PartTypes
<1>6. BP!Process(currentHeight, TRUE)
  BY DEF FlushStep, B!Process, BP!Process
<1> QED
  BY <1>4, <1>5, <1>6 DEF BP!Process

\* A gap reported is a range of the chain, below the block being looked at.
LEMMA GapReported ==
  ASSUME Parts, Meeting, S!HeaderDone
  PROVE  \/ gaps' = gaps
         \/ \E g \in [from : 1..MaxHeight, to : 1..MaxHeight] :
              /\ gaps' = Append(gaps, g) /\ g.from <= g.to
              /\ g.from = lastSeenHeight + 1 /\ g.to = pending - 1
<1>1. CASE S!IsGap(lastSeenHeight, pending)
  <2> DEFINE g == S!GapRange(lastSeenHeight, pending)
  <2>1. lastSeenHeight \in Nat /\ pending \in Nat /\ pending <= chain /\ chain \in 1..MaxHeight
        /\ MaxHeight \in Nat
    BY PartTypes DEF Meeting, S!HeaderDone
  <2>2. gaps' = Append(gaps, g)
    BY <1>1 DEF S!HeaderDone
  <2>3. g.from = lastSeenHeight + 1 /\ g.to = pending - 1 /\ g.from <= g.to
        /\ g \in [from : 1..MaxHeight, to : 1..MaxHeight]
    BY <1>1, <2>1 DEF S!IsGap, S!GapRange
  <2> QED
    BY <2>2, <2>3
<1>2. CASE ~S!IsGap(lastSeenHeight, pending)
  BY <1>2 DEF S!HeaderDone
<1> QED
  BY <1>1, <1>2

-----------------------------------------------------------------------------
(* The parts keep their invariants.                                        *)

LEMMA SubscriberKeeps ==
  ASSUME Parts, [Next]_vars, ~Restart
  PROVE  SP!CoverInv'
<1>1. [SP!Next]_(SP!vars)
  BY PartTypes, SubscriberSees
<1> QED
  BY <1>1, PartsAssume, SP!NextCoverInv DEF Parts

LEMMA CollectorKeeps ==
  ASSUME Parts, Meeting, [Next]_vars, ~Restart
  PROVE  CP!IInv'
<1>1. CASE EmitStep
  <2>1. /\ pending \in SettlementHeights /\ Len(events) < EventBufferSize
        /\ events' = Append(events, pending) /\ produced' = Append(produced, pending)
        /\ UNCHANGED <<eventsOpen, canceled>>
    BY <1>1 DEF EmitStep, S!Emit, Meeting, Emitting
  <2>2. UNCHANGED <<CP!colVars, handled, lost>>
    BY <1>1 DEF EmitStep, CP!colVars
  <2> QED
    BY <2>1, <2>2, PartsAssume, CP!SendKeeps DEF Parts
<1>2. CASE ~EmitStep
  <2>1. [CP!Next]_(CP!vars)
    BY <1>2, PartTypes, CollectorSees
  <2> QED
    BY <2>1, PartsAssume, CP!NextIInv DEF Parts
<1> QED
  BY <1>1, <1>2

\* The backfiller is left alone but for the chain, the signal, and the gaps
\* reported, or but for a block the collector stores.
LEMMA BackfillerLeft ==
  ASSUME Parts, \/ NodeStep \/ SubscriberStep \/ EmitStep \/ CollectorStep
                \/ Shutdown \/ Exited \/ UNCHANGED vars
  PROVE  /\ UNCHANGED <<startup, tasks, remaining, stored, liveCounted>>
         /\ chain' \in 1..MaxHeight /\ chain <= chain' /\ canceled' \in BOOLEAN
         /\ S!HeaderDone \/ gaps' = gaps
<1> USE DEF S!nodeVars, S!chanVars, S!seenVars, dbVars, bfOnly
<1>t. chain \in 1..MaxHeight /\ canceled \in BOOLEAN /\ MaxHeight \in Nat
  BY PartTypes
<1>1. CASE NodeStep
  <2>1. chain' \in 1..MaxHeight /\ chain <= chain'
    BY <1>1, <1>t DEF NodeStep, S!Commit, S!Publish, S!ConnectionLost, S!Cancel
  <2>2. canceled' \in BOOLEAN /\ gaps' = gaps
    BY <1>1, <1>t DEF NodeStep, S!Commit, S!Publish, S!ConnectionLost, S!Cancel
  <2> QED
    BY <1>1, <2>1, <2>2 DEF NodeStep
<1>2. CASE SubscriberStep
  <2>1. CASE S!SubscribeOK \/ S!ResubscribeFails \/ S!BackoffElapsed \/ S!Receive \/ S!HeaderDone
    BY <1>2, <1>t, <2>1 DEF SubscriberStep, S!SubscribeOK, S!ResubscribeFails,
       S!BackoffElapsed, S!Receive, S!HeaderDone
  <2>2. CASE S!ConnectFails \/ S!ChannelClosed \/ S!HeartbeatTimeout
    BY <1>2, <1>t, <2>2 DEF SubscriberStep, S!ConnectFails, S!ChannelClosed, S!HeartbeatTimeout,
       S!Disconnected, S!Return
  <2>3. CASE S!ContextDone \/ S!HeaderCanceled \/ S!EmitBlocks \/ S!EmitAbandoned
    BY <1>2, <1>t, <2>3 DEF SubscriberStep, S!ContextDone, S!HeaderCanceled, S!Return,
       S!EmitBlocks, S!EmitAbandoned
  <2> QED
    BY <1>2, <2>1, <2>2, <2>3 DEF SubscriberStep
<1>3. CASE EmitStep \/ Shutdown \/ Exited \/ UNCHANGED vars
  BY <1>3, <1>t DEF EmitStep, S!Emit, Shutdown, Exited, vars
<1>4. CASE CollectorStep
  <2>1. canceled' \in BOOLEAN
    <3>1. CASE C!FlushFails
      BY <3>1, Zenon DEF C!FlushFails
    <3>2. CASE ~C!FlushFails
      BY <1>t, <1>4, <3>2 DEF CollectorStep, C!TakeSame, C!TakeOther, C!TimerExpires,
         C!SafetyTimeout, C!ContextDone, C!ChannelClosed, C!FinalFlush
    <3> QED
      BY <3>1, <3>2
  <2> QED
    BY <1>4, <1>t, <2>1 DEF CollectorStep
<1> QED
  BY <1>1, <1>2, <1>3, <1>4

LEMMA BackfillerKeeps ==
  ASSUME Parts, Meeting, [Next]_vars, ~Restart
  PROVE  BP!IInv'
<1>t. /\ BP!IInv /\ BP!TypeOK /\ startup \in BP!StartupType
      /\ gaps \in Seq([from : BP!Heights, to : BP!Heights])
  BY DEF Parts, BP!IInv, BP!TypeOK, BP!StartupType
<1>1. CASE StartupStep
  <2> USE DEF BP!StartupNext
  <2>1. B!StartupReadLast => BP!StartupNext
    BY DEF B!StartupReadLast, BP!StartupReadLast, B!LastProcessedHeight,
           BP!LastProcessedHeight, B!Max, BP!Max
  <2>2. B!StartupDecide => BP!StartupNext
    BY DEF B!StartupDecide, BP!StartupDecide, B!FromHeight, BP!FromHeight,
           B!FirstRun, BP!FirstRun
  <2>3. B!StartupBlock => BP!StartupNext
    BY DEF B!StartupBlock, BP!StartupBlock, B!Process, BP!Process
  <2>4. B!StartupCanceled \/ B!StartupDone => BP!StartupNext
    BY DEF B!StartupCanceled, BP!StartupCanceled, B!StartupDone, BP!StartupDone
  <2>5. B!StartupFails \/ B!StartupFetchFails \/ B!StartupProcessFails => BP!StartupNext
    BY DEF B!StartupFails, BP!StartupFails, B!StartupFetchFails, BP!StartupFetchFails,
           B!StartupProcessFails, BP!StartupProcessFails, B!StartupError, BP!StartupError
  <2> QED
    BY <1>1, <1>t, <2>1, <2>2, <2>3, <2>4, <2>5, PartsAssume, BP!StartupKeeps
       DEF StartupStep
<1>2. CASE RangeStep
  <2>1. CASE B!RangeStart
    <3>1. BP!RangeStart
      BY <2>1 DEF B!RangeStart, BP!RangeStart
    <3> QED
      BY <1>t, <3>1, PartsAssume, BP!RangeStartKeeps
  <2>2. ASSUME NEW i \in 1..Len(tasks),
               B!RangeBlock(i) \/ B!RangeDone(i) \/ B!RangeNoClient(i)
                 \/ B!RangeFetchFails(i) \/ B!RangeProcessFails(i)
        PROVE  BP!IInv'
    <3>1. BP!RangeNext(i)
      BY <2>2 DEF BP!RangeNext, B!RangeBlock, BP!RangeBlock, B!RangeDone, BP!RangeDone,
         B!RangeNoClient, BP!RangeNoClient, B!RangeFetchFails, BP!RangeFetchFails,
         B!RangeProcessFails, BP!RangeProcessFails, B!RangeAbandon, BP!RangeAbandon,
         B!Running, BP!Running, B!Process, BP!Process
    <3> QED
      BY <1>t, <3>1, PartsAssume, BP!RangeKeeps
  <2> QED
    BY <1>2, <2>1, <2>2 DEF RangeStep
<1>3. ASSUME UNCHANGED <<gaps, startup, tasks, remaining>>, chain' \in BP!Heights,
             canceled' \in BOOLEAN, stored' \subseteq BP!Heights, stored \subseteq stored',
             liveCounted' \in [BP!Heights -> Nat]
      PROVE  BP!IInv'
  <2>1. remaining' \in 0..MaxHeight /\ startup' \in BP!StartupType
    BY <1>3, <1>t DEF BP!TypeOK
  <2>2. BP!StartupProgress'
    BY <1>3 DEF Parts, BP!IInv, BP!StartupProgress
  <2> QED
    BY <1>3, <1>t, <2>1, <2>2, PartsAssume, BP!StartupStep
<1>4. CASE FlushStep
  <2>1. currentHeight \in BP!Heights /\ BP!Process(currentHeight, TRUE)
    BY <1>4, FlushedHeight DEF BP!Heights
  <2>2. /\ stored' = stored \cup {currentHeight} /\ stored' \subseteq BP!Heights
        /\ liveCounted' \in [BP!Heights -> Nat]
    BY <1>t, <2>1, PartsAssume, BP!Processed
  <2>3. UNCHANGED <<chain, gaps, startup, tasks, remaining, canceled>>
    BY <1>4 DEF FlushStep, C!FlushOK, bfOnly
  <2> QED
    BY <1>3, <1>t, <2>2, <2>3 DEF BP!TypeOK
<1>5. CASE \/ NodeStep \/ SubscriberStep \/ EmitStep \/ CollectorStep
           \/ Shutdown \/ Exited \/ UNCHANGED vars
  <2>1. /\ UNCHANGED <<startup, tasks, remaining, stored, liveCounted>>
        /\ chain' \in BP!Heights /\ canceled' \in BOOLEAN
        /\ S!HeaderDone \/ gaps' = gaps
    BY <1>5, BackfillerLeft DEF BP!Heights
  <2>2. CASE gaps' = gaps
    BY <1>3, <1>t, <2>1, <2>2 DEF BP!TypeOK
  <2>3. CASE gaps' # gaps
    <3>1. PICK g \in [from : BP!Heights, to : BP!Heights] :
                 gaps' = Append(gaps, g) /\ g.from <= g.to
      BY <2>1, <2>3, GapReported DEF BP!Heights
    <3>2. /\ gaps' \in Seq([from : BP!Heights, to : BP!Heights]) /\ Len(gaps') = Len(gaps) + 1
          /\ gaps'[Len(gaps) + 1] = g /\ \A j \in 1..Len(gaps) : gaps'[j] = gaps[j]
          /\ Len(gaps) \in Nat
      BY <1>t, <3>1, LenProperties
    <3>3. BP!TypeOK'
      <4>1. tasks \in Seq(BP!Task) /\ Len(tasks) \in Nat /\ Len(tasks) <= Len(gaps)
        BY <1>t, LenProperties DEF BP!TypeOK
      <4> QED
        BY <1>t, <2>1, <3>2, <4>1 DEF BP!TypeOK
    <3>4. BP!TaskProgress' /\ BP!StartupProgress'
      BY <1>t, <2>1 DEF BP!IInv, BP!TaskProgress, BP!StartupProgress
    <3>5. BP!GapRanges'
      <4> SUFFICES ASSUME NEW j \in 1..Len(gaps') PROVE gaps'[j].from <= gaps'[j].to
        BY DEF BP!GapRanges
      <4>1. CASE j = Len(gaps) + 1
        BY <3>1, <3>2, <4>1
      <4>2. CASE j # Len(gaps) + 1
        <5>1. j \in 1..Len(gaps)
          BY <3>2, <4>2
        <5> QED
          BY <1>t, <3>2, <5>1 DEF BP!IInv, BP!GapRanges
      <4> QED
        BY <4>1, <4>2
    <3> QED
      BY <3>3, <3>4, <3>5 DEF BP!IInv
  <2> QED
    BY <2>2, <2>3
<1> QED
  BY <1>1, <1>2, <1>4, <1>5 DEF Next

LEMMA PartsKeep ==
  ASSUME Parts, Meeting, [Next]_vars, ~Restart
  PROVE  Parts'
BY SubscriberKeeps, CollectorKeeps, BackfillerKeeps DEF Parts

-----------------------------------------------------------------------------
(* The way of a block from the subscriber to the database.                 *)

Among(s, h) == \E i \in 1..Len(s) : s[i] = h

\* What is put on a channel is on it, with what was.
LEMMA AmongAppended ==
  ASSUME NEW s \in Seq(SettlementHeights), NEW e \in SettlementHeights, NEW h
  PROVE  Among(Append(s, e), h) <=> Among(s, h) \/ h = e
<1>1. /\ Len(Append(s, e)) = Len(s) + 1 /\ Len(s) \in Nat
      /\ \A i \in 1..Len(s) : Append(s, e)[i] = s[i]
      /\ Append(s, e)[Len(s) + 1] = e
  BY AppendProperties, LenProperties
<1> QED
  BY <1>1 DEF Among

\* What is on a channel is its head or among the rest.
LEMMA AmongTail ==
  ASSUME NEW s \in Seq(SettlementHeights), s # <<>>, NEW h
  PROVE  /\ Head(s) \in SettlementHeights /\ Tail(s) \in Seq(SettlementHeights)
         /\ Among(s, h) <=> h = Head(s) \/ Among(Tail(s), h)
<1>1. /\ Head(s) \in SettlementHeights /\ Tail(s) \in Seq(SettlementHeights)
      /\ Len(s) \in Nat /\ Len(s) >= 1 /\ Len(Tail(s)) = Len(s) - 1
      /\ \A i \in 1..Len(Tail(s)) : Tail(s)[i] = s[i + 1]
      /\ Head(s) = s[1]
  BY HeadTailProperties, EmptySeq, LenProperties
<1>2. ASSUME Among(s, h), h # Head(s) PROVE Among(Tail(s), h)
  <2>1. PICK i \in 1..Len(s) : s[i] = h
    BY <1>2 DEF Among
  <2>2. i - 1 \in 1..Len(Tail(s)) /\ Tail(s)[i - 1] = h
    BY <1>1, <1>2, <2>1
  <2> QED
    BY <2>2 DEF Among
<1>3. ASSUME Among(Tail(s), h) PROVE Among(s, h)
  <2>1. PICK i \in 1..Len(Tail(s)) : Tail(s)[i] = h
    BY <1>3 DEF Among
  <2>2. i + 1 \in 1..Len(s) /\ s[i + 1] = h
    BY <1>1, <2>1
  <2> QED
    BY <2>2 DEF Among
<1>4. Among(s, Head(s))
  BY <1>1 DEF Among
<1> QED
  BY <1>1, <1>2, <1>3, <1>4

LEMMA AmongNone == \A h : ~Among(<<>>, h)
BY DEF Among

\* A block enters the pipeline from the header query, and leaves it only into the
\* database or because ctx is canceled.
PipelineMoves(h) ==
  /\ InPipeline(h)' => InPipeline(h) \/ (S!HeaderDone /\ h = pending)
  /\ InPipeline(h) => InPipeline(h)' \/ h \in stored' \/ canceled'

\* The subscriber's end of it.
LEMMA SubscriberMoves ==
  ASSUME Parts, Meeting, NEW h \in SettlementHeights, NodeStep \/ SubscriberStep \/ EmitStep
  PROVE  /\ PipelineMoves(h)
         /\ S!HeaderDone /\ h = pending => InPipeline(h)'
         /\ S!HeaderDone \/ UNCHANGED <<lastSeenHeight, gaps, firstSeen, delivered>>
<1> USE DEF S!nodeVars, S!chanVars, S!seenVars, Emitting
<1>u. UNCHANGED <<taken, currentEvents>>
  BY DEF NodeStep, SubscriberStep, EmitStep, colOnly
<1>p. /\ InPipeline(h) <=> \/ Emitting /\ pending = h
                           \/ Among(events, h) \/ taken = h \/ Among(currentEvents, h)
      /\ InPipeline(h)' <=> \/ Emitting' /\ pending' = h
                            \/ Among(events', h) \/ taken = h \/ Among(currentEvents, h)
  BY <1>u DEF InPipeline, Among
<1> DEFINE Quiet == /\ UNCHANGED <<events, lastSeenHeight, gaps, firstSeen, delivered>>
                    /\ Emitting' => Emitting /\ pending' = pending
                    /\ canceled' \/ (Emitting => Emitting' /\ pending' = pending)
<1>1. NodeStep => Quiet
  BY DEF NodeStep, S!Commit, S!Publish, S!ConnectionLost, S!Cancel
<1>2. SubscriberStep => Quiet \/ S!HeaderDone
  <2>1. S!SubscribeOK \/ S!ResubscribeFails \/ S!BackoffElapsed \/ S!Receive => Quiet
    BY DEF S!SubscribeOK, S!ResubscribeFails, S!BackoffElapsed, S!Receive
  <2>2. S!ConnectFails \/ S!ChannelClosed \/ S!HeartbeatTimeout => Quiet
    BY DEF S!ConnectFails, S!ChannelClosed, S!HeartbeatTimeout, S!Disconnected, S!Return
  <2>3. S!ContextDone \/ S!HeaderCanceled => Quiet
    BY DEF S!ContextDone, S!HeaderCanceled, S!Return
  <2>4. S!EmitBlocks \/ S!EmitAbandoned => Quiet
    BY DEF S!EmitBlocks, S!EmitAbandoned
  <2> QED
    BY <2>1, <2>2, <2>3, <2>4 DEF SubscriberStep
<1>3. Quiet => PipelineMoves(h)
  BY <1>p DEF PipelineMoves
<1>4. CASE S!HeaderDone
  <2>1. events' = events /\ ~Emitting
    BY <1>4 DEF S!HeaderDone
  <2>2. pending \in SettlementHeights => Emitting' /\ pending' = pending
    BY <1>4 DEF S!HeaderDone
  <2>3. pending \notin SettlementHeights => ~Emitting'
    BY <1>4 DEF S!HeaderDone
  <2> QED
    BY <1>4, <1>p, <2>1, <2>2, <2>3 DEF PipelineMoves
<1>5. CASE EmitStep
  <2>1. /\ Emitting /\ pending \in SettlementHeights /\ events' = Append(events, pending)
        /\ ~Emitting' /\ UNCHANGED <<lastSeenHeight, gaps, firstSeen, delivered>>
    BY <1>5 DEF EmitStep, S!Emit, Meeting
  <2>2. Among(events', h) <=> Among(events, h) \/ h = pending
    BY <2>1, PartTypes, AmongAppended
  <2>3. ~S!HeaderDone
    BY <2>1 DEF S!HeaderDone
  <2> QED
    BY <1>p, <2>1, <2>2, <2>3 DEF PipelineMoves
<1>6. CASE Quiet /\ ~S!HeaderDone
  BY <1>3, <1>6
<1> QED
  BY <1>1, <1>2, <1>4, <1>5, <1>6

\* The collector's end of it.
LEMMA CollectorMoves ==
  ASSUME Parts, Meeting, NEW h \in SettlementHeights, CollectorStep \/ FlushStep
  PROVE  PipelineMoves(h)
<1> USE DEF PipelineMoves
<1>t. /\ events \in Seq(SettlementHeights) /\ currentEvents \in Seq(SettlementHeights)
      /\ canceled \in BOOLEAN
  BY PartTypes
<1>u. UNCHANGED <<phase, pending>>
  BY DEF CollectorStep, FlushStep, subOnly
<1>p. /\ InPipeline(h) <=> \/ Emitting /\ pending = h
                           \/ Among(events, h) \/ taken = h \/ Among(currentEvents, h)
      /\ InPipeline(h)' <=> \/ Emitting /\ pending = h
                            \/ Among(events', h) \/ taken' = h \/ Among(currentEvents', h)
  BY <1>u DEF InPipeline, Emitting, Among
<1>1. CASE C!TakeSame \/ C!TakeOther
  <2>1. events # <<>> /\ events' = Tail(events)
    BY <1>1 DEF C!TakeSame, C!TakeOther
  <2>2. /\ Head(events) \in SettlementHeights
        /\ Among(events, h) <=> h = Head(events) \/ Among(events', h)
    BY <1>t, <2>1, AmongTail
  <2>3. CASE C!TakeSame
    <3>1. currentEvents' = Append(currentEvents, Head(events)) /\ taken' = taken
      BY <2>3 DEF C!TakeSame, C!Accumulate
    <3>2. Among(currentEvents', h) <=> Among(currentEvents, h) \/ h = Head(events)
      BY <1>t, <2>2, <3>1, AmongAppended
    <3> QED
      BY <1>p, <2>2, <3>1, <3>2
  <2>4. CASE C!TakeOther
    <3>1. currentEvents' = currentEvents /\ taken' = Head(events) /\ taken = 0
      BY <2>4 DEF C!TakeOther, Parts, CP!IInv, CP!Holding
    <3>2. h # 0
      BY MonitorAssumption
    <3> QED
      BY <1>p, <2>2, <3>1, <3>2
  <2> QED
    BY <1>1, <2>3, <2>4
<1>2. CASE C!TimerExpires \/ C!SafetyTimeout \/ C!ContextDone \/ C!ChannelClosed
  <2>1. UNCHANGED <<events, taken, currentEvents>>
    BY <1>2 DEF C!TimerExpires, C!SafetyTimeout, C!ContextDone, C!ChannelClosed, C!FinalFlush
  <2> QED
    BY <1>p, <2>1
<1>3. CASE C!FlushFails
  <2>1. canceled'
    BY <1>3, <1>t DEF C!FlushFails, C!OwnContext, Meeting
  <2>2. currentEvents' = <<>> /\ taken' = 0 /\ events' = events /\ h # 0
    BY <1>3, MonitorAssumption DEF C!FlushFails
  <2> QED
    BY <1>p, <2>1, <2>2, AmongNone
<1>4. CASE FlushStep
  <2>0. h # 0
    BY MonitorAssumption
  <2>1. /\ colPhase = "flushing" /\ events' = events /\ taken' = 0
        /\ reason = "height" <=> taken # 0
    BY <1>4 DEF FlushStep, C!FlushOK, Parts, CP!IInv, CP!Holding
  <2>2. stored' = stored \cup {currentHeight}
    BY <1>4, FlushedHeight
  <2>3. Among(currentEvents, h) => h = currentHeight
    BY DEF Parts, CP!IInv, CP!OneHeightPerFlush, Among
  <2>4. CASE reason = "height"
    <3>1. currentEvents' = Append(<<>>, taken)
      BY <1>4, <2>4 DEF FlushStep, C!FlushOK, C!Accumulate
    <3>2. taken \in SettlementHeights /\ <<>> \in Seq(SettlementHeights)
      BY <2>1, <2>4, EmptySeq DEF Parts, CP!IInv, CP!TypeOK
    <3>3. Among(currentEvents', h) <=> h = taken
      BY <3>1, <3>2, AmongAppended, AmongNone
    <3> QED
      BY <1>p, <2>0, <2>1, <2>2, <2>3, <3>3
  <2>5. CASE reason # "height"
    <3>1. currentEvents' = <<>> /\ taken = 0
      BY <1>4, <2>1, <2>5 DEF FlushStep, C!FlushOK
    <3> QED
      BY <1>p, <2>0, <2>1, <2>2, <2>3, <3>1, AmongNone
  <2> QED
    BY <2>4, <2>5
<1> QED
  BY <1>1, <1>2, <1>3, <1>4 DEF CollectorStep

-----------------------------------------------------------------------------
(* How the parts meet is kept.                                             *)

\* What the subscriber's end is about.
Published ==
  /\ delivered \subseteq 1..chain
  /\ phase = "header" => pending <= chain
  /\ \A i \in 1..Len(wire) : wire[i] <= chain
  /\ Emitting => pending \in SettlementHeights
  /\ ~eventsOpen => canceled

LEMMA PublishedKept ==
  ASSUME Parts, Meeting, NodeStep \/ SubscriberStep \/ EmitStep
  PROVE  Published' /\ delivered \subseteq delivered' /\ (canceled => canceled')
<1> USE DEF S!nodeVars, S!chanVars, S!seenVars, Emitting
<1>t. /\ chain \in Nat /\ node \in Nat /\ node <= chain /\ wire \in Seq(Nat) /\ Len(wire) \in Nat
      /\ delivered \subseteq Nat /\ pending \in Nat /\ Published
  BY PartTypes, LenProperties DEF Meeting, Published
<1>1. ASSUME chain' \in Nat, chain <= chain', UNCHANGED delivered,
             wire' = wire \/ wire' = <<>>,
             phase' = "header" => phase = "header" /\ pending' = pending,
             Emitting' => Emitting /\ pending' = pending, ~eventsOpen' => canceled',
             canceled => canceled'
      PROVE  Published' /\ delivered \subseteq delivered' /\ (canceled => canceled')
  <2>1. delivered' \subseteq 1..chain'
    BY <1>1, <1>t DEF Published
  <2>2. phase' = "header" => pending' <= chain'
    BY <1>1, <1>t DEF Published
  <2>3. \A i \in 1..Len(wire') : wire'[i] <= chain'
    BY <1>1, <1>t DEF Published
  <2> QED
    BY <1>1, <1>t, <2>1, <2>2, <2>3 DEF Published
<1>2. CASE NodeStep
  <2>1. CASE S!Publish /\ wire' # wire
    <3>1. /\ wire' = Append(wire, node + 1) /\ node < chain
          /\ UNCHANGED <<chain, delivered, phase, pending, eventsOpen, canceled>>
      BY <2>1 DEF S!Publish
    <3>2. /\ Len(wire') = Len(wire) + 1 /\ wire'[Len(wire) + 1] = node + 1
          /\ \A i \in 1..Len(wire) : wire'[i] = wire[i]
      BY <1>t, <3>1, AppendProperties
    <3>3. \A i \in 1..Len(wire') : wire'[i] <= chain
      BY <1>t, <3>1, <3>2 DEF Published
    <3> QED
      BY <1>t, <3>1, <3>3 DEF Published
  <2>2. CASE ~(S!Publish /\ wire' # wire)
    BY <1>1, <1>2, <1>t, <2>2
       DEF NodeStep, S!Commit, S!Publish, S!ConnectionLost, S!Cancel, Published
  <2> QED
    BY <2>1, <2>2
<1>3. CASE SubscriberStep
  <2>1. CASE S!SubscribeOK \/ S!ResubscribeFails \/ S!BackoffElapsed
    BY <1>1, <1>t, <2>1 DEF S!SubscribeOK, S!ResubscribeFails, S!BackoffElapsed, Published
  <2>2. CASE S!ConnectFails \/ S!ChannelClosed \/ S!HeartbeatTimeout
    BY <1>1, <1>t, <2>2 DEF S!ConnectFails, S!ChannelClosed, S!HeartbeatTimeout,
       S!Disconnected, S!Return, Published
  <2>3. CASE S!ContextDone \/ S!HeaderCanceled \/ S!EmitBlocks \/ S!EmitAbandoned
    BY <1>1, <1>t, <2>3 DEF S!ContextDone, S!HeaderCanceled, S!Return, S!EmitBlocks,
       S!EmitAbandoned, Published
  <2>4. CASE S!Receive
    <3>1. /\ wire # <<>> /\ wire' = Tail(wire) /\ pending' = Head(wire) /\ phase' = "header"
          /\ UNCHANGED <<chain, delivered, eventsOpen, canceled>>
      BY <2>4 DEF S!Receive
    <3>2. /\ Len(wire') = Len(wire) - 1 /\ Len(wire) >= 1 /\ Head(wire) = wire[1]
          /\ \A i \in 1..Len(wire') : wire'[i] = wire[i + 1]
      BY <1>t, <3>1, HeadTailProperties, EmptySeq
    <3>3. (\A i \in 1..Len(wire') : wire'[i] <= chain) /\ pending' <= chain
      BY <1>t, <3>1, <3>2 DEF Published
    <3> QED
      BY <1>t, <3>1, <3>3 DEF Published
  <2>5. CASE S!HeaderDone
    <3>1. /\ delivered' = delivered \cup {pending} /\ phase = "header"
          /\ UNCHANGED <<chain, wire, eventsOpen, canceled>> /\ phase' # "header"
          /\ Emitting' => pending \in SettlementHeights /\ pending' = pending
      BY <2>5 DEF S!HeaderDone
    <3>2. pending \in 1..chain
      BY <1>t, <3>1 DEF Published, Parts, SP!CoverInv, SP!SeenInv
    <3> QED
      BY <1>t, <3>1, <3>2 DEF Published
  <2> QED
    BY <1>3, <2>1, <2>2, <2>3, <2>4, <2>5 DEF SubscriberStep
<1>4. CASE EmitStep
  BY <1>1, <1>4, <1>t DEF EmitStep, S!Emit, Published
<1> QED
  BY <1>2, <1>3, <1>4

\* The collector and the backfiller leave the subscriber alone, and cancel at most;
\* a last flush is begun only when ctx is canceled.
LEMMA OthersLeave ==
  ASSUME Parts, Meeting, \/ CollectorStep \/ FlushStep \/ StartupStep \/ RangeStep
                         \/ Shutdown \/ Exited \/ UNCHANGED vars
  PROVE  /\ UNCHANGED <<chain, wire, phase, pending, delivered, lastSeenHeight, firstSeen,
                        gaps, eventsOpen>>
         /\ canceled => canceled'
         /\ reason' \in {"cancel", "closed"} => canceled'
<1>1. CASE CollectorStep
  <2>1. UNCHANGED eventsOpen /\ (canceled => canceled')
        /\ (reason' \in {"cancel", "closed"} => canceled')
    <3>1. CASE C!TakeSame \/ C!TakeOther
      BY <3>1 DEF C!TakeSame, C!TakeOther, C!BeginFlush, Meeting
    <3>2. CASE C!TimerExpires \/ C!SafetyTimeout
      BY <3>2 DEF C!TimerExpires, C!SafetyTimeout, C!BeginFlush, Meeting
    <3>3. CASE C!ContextDone \/ C!ChannelClosed
      BY <3>3 DEF C!ContextDone, C!ChannelClosed, C!FinalFlush, C!BeginFlush, Meeting
    <3>4. CASE C!FlushFails
      BY <3>4 DEF C!FlushFails, C!OwnContext, Meeting
    <3> QED
      BY <1>1, <3>1, <3>2, <3>3, <3>4 DEF CollectorStep
  <2> QED
    BY <1>1, <2>1 DEF CollectorStep, subOnly
<1>2. CASE FlushStep
  BY <1>2 DEF FlushStep, C!FlushOK, subOnly, Meeting
<1>3. CASE StartupStep \/ RangeStep
  BY <1>3, BackfillTouches DEF subOnly, colOnly, Meeting
<1>4. CASE Shutdown \/ Exited \/ UNCHANGED vars
  BY <1>4 DEF Shutdown, Exited, vars, subOnly, colOnly, Meeting
<1> QED
  BY <1>1, <1>2, <1>3, <1>4

\* What moves on in the pipeline was there, and what is not touched stays.
LEMMA AllMove ==
  ASSUME Parts, Meeting, [Next]_vars, ~Restart, NEW h \in SettlementHeights
  PROVE  PipelineMoves(h)
<1>1. CASE NodeStep \/ SubscriberStep \/ EmitStep
  BY <1>1, SubscriberMoves
<1>2. CASE CollectorStep \/ FlushStep
  BY <1>2, CollectorMoves
<1>3. CASE StartupStep \/ RangeStep \/ Shutdown \/ Exited \/ UNCHANGED vars
  <2>1. UNCHANGED <<phase, pending, events, taken, currentEvents>>
    BY <1>3, BackfillTouches DEF Shutdown, Exited, vars, subOnly, colOnly
  <2> QED
    BY <2>1 DEF PipelineMoves, InPipeline
<1> QED
  BY <1>1, <1>2, <1>3 DEF Next

LEMMA MeetingKept ==
  ASSUME Parts, Meeting, [Next]_vars, ~Restart
  PROVE  Meeting'
<1>1. ASSUME Published', delivered \subseteq delivered', S!HeaderDone => pending \in delivered',
             reason' \in {"cancel", "closed"} => canceled'
      PROVE  Meeting'
  <2>1. ASSUME NEW h \in SettlementHeights, InPipeline(h)' PROVE h \in delivered'
    BY <1>1, <2>1, AllMove DEF PipelineMoves, Meeting
  <2> QED
    BY <1>1, <2>1 DEF Published, Meeting
<1>2. CASE NodeStep \/ SubscriberStep \/ EmitStep
  <2>1. UNCHANGED reason
    BY <1>2 DEF NodeStep, SubscriberStep, EmitStep, colOnly
  <2>2. S!HeaderDone => pending \in delivered'
    BY DEF S!HeaderDone
  <2> QED
    BY <1>1, <1>2, <2>1, <2>2, PublishedKept DEF Meeting
<1>3. CASE \/ CollectorStep \/ FlushStep \/ StartupStep \/ RangeStep
           \/ Shutdown \/ Exited \/ UNCHANGED vars
  <2>1. /\ UNCHANGED <<chain, wire, phase, pending, delivered, eventsOpen>>
        /\ canceled => canceled'
        /\ reason' \in {"cancel", "closed"} => canceled'
    BY <1>3, OthersLeave
  <2>2. ~S!HeaderDone \/ pending \in delivered'
    BY DEF S!HeaderDone
  <2> QED
    BY <1>1, <2>1, <2>2 DEF Meeting, Published, Emitting
<1> QED
  BY <1>2, <1>3 DEF Next

-----------------------------------------------------------------------------
(* The way of a height through a gap recovery.                             *)

\* What the provers need most often of the goroutines.
LEMMA TaskTypes ==
  ASSUME Parts
  PROVE  /\ Len(tasks) \in Nat /\ Len(gaps) \in Nat /\ Len(tasks) <= Len(gaps)
         /\ \A i \in 1..Len(tasks) :
              /\ tasks[i].from \in 1..MaxHeight /\ tasks[i].to \in 1..MaxHeight
              /\ tasks[i].next \in 1..MaxHeight + 1
         /\ \A i \in 1..Len(gaps) :
              gaps[i].from \in 1..MaxHeight /\ gaps[i].to \in 1..MaxHeight
<1>1. /\ tasks \in Seq(BP!Task) /\ Len(tasks) <= Len(gaps)
      /\ gaps \in Seq([from : BP!Heights, to : BP!Heights])
  BY DEF Parts, BP!IInv, BP!TypeOK
<1>2. ASSUME NEW i \in 1..Len(tasks)
      PROVE  /\ tasks[i].from \in 1..MaxHeight /\ tasks[i].to \in 1..MaxHeight
             /\ tasks[i].next \in 1..MaxHeight + 1
  <2>1. tasks[i] \in BP!Task
    BY <1>1, ElementOfSeq
  <2> QED
    BY <2>1 DEF BP!Task, BP!Heights
<1>3. ASSUME NEW i \in 1..Len(gaps)
      PROVE  gaps[i].from \in 1..MaxHeight /\ gaps[i].to \in 1..MaxHeight
  <2>1. gaps[i] \in [from : BP!Heights, to : BP!Heights]
    BY <1>1, ElementOfSeq
  <2> QED
    BY <2>1 DEF BP!Heights
<1> QED
  BY <1>1, <1>2, <1>3, LenProperties

\* A height leaves a gap recovery into the database, or because it gives up.
RecoveryMoves(h) ==
  /\ InBackfill(h) => InBackfill(h)' \/ h \in stored' \/ Abandoned(h)'
  /\ Abandoned(h) => Abandoned(h)'
  /\ stored \subseteq stored'

LEMMA RangeRecovers ==
  ASSUME Parts, RangeStep, NEW h \in Int
  PROVE  RecoveryMoves(h)
<1> USE DEF RecoveryMoves
<1>t. /\ Len(tasks) \in Nat /\ gaps' = gaps
      /\ \A i \in 1..Len(tasks) : tasks[i].next \in Int /\ tasks[i].to \in Int
  BY TaskTypes, BackfillTouches
<1>1. CASE Begins
  <2>1. /\ Len(tasks') = Len(tasks) + 1 /\ stored' = stored
        /\ \A j \in 1..Len(tasks) : tasks'[j] = tasks[j]
        /\ tasks'[Len(tasks) + 1].next = gaps[Len(tasks) + 1].from
        /\ tasks'[Len(tasks) + 1].to = gaps[Len(tasks) + 1].to
        /\ tasks'[Len(tasks) + 1].status = "running"
    BY <1>1 DEF Begins, dbVars
  <2>2. Abandoned(h) => Abandoned(h)'
    BY <1>t, <2>1 DEF Abandoned
  <2>3. ASSUME NEW i \in Len(tasks) + 1..Len(gaps), h \in gaps[i].from..gaps[i].to
        PROVE  InBackfill(h)'
    <3>1. CASE i = Len(tasks) + 1
      <4>1. i \in 1..Len(tasks') /\ tasks'[i].status = "running"
            /\ h \in tasks'[i].next..tasks'[i].to
        BY <1>t, <2>1, <2>3, <3>1
      <4> QED
        BY <4>1 DEF InBackfill
    <3>2. CASE i # Len(tasks) + 1
      <4>1. i \in Len(tasks') + 1..Len(gaps)
        BY <1>t, <2>1, <3>2
      <4> QED
        BY <1>t, <2>3, <4>1 DEF InBackfill
    <3> QED
      BY <3>1, <3>2
  <2>4. ASSUME NEW i \in 1..Len(tasks), tasks[i].status = "running",
               h \in tasks[i].next..tasks[i].to
        PROVE  InBackfill(h)'
    BY <1>t, <2>1, <2>4 DEF InBackfill
  <2> QED
    BY <2>1, <2>2, <2>3, <2>4 DEF InBackfill
<1>2. ASSUME NEW i \in 1..Len(tasks), Stores(i) \/ Waits(i)
      PROVE  RecoveryMoves(h)
  <2>1. /\ Len(tasks') = Len(tasks) /\ tasks[i].status = "running"
        /\ \A j \in 1..Len(tasks) : j # i => tasks'[j] = tasks[j]
        /\ tasks'[i].to = tasks[i].to
    BY <1>2 DEF Stores, Waits, Continues
  <2>2. stored \subseteq stored'
    BY <1>2 DEF Stores, Waits, BP!Process, dbVars
  <2>3. Abandoned(h) => Abandoned(h)'
    BY <2>1 DEF Abandoned
  <2>4. ASSUME NEW j \in Len(tasks) + 1..Len(gaps), h \in gaps[j].from..gaps[j].to
        PROVE  InBackfill(h)'
    BY <1>t, <2>1, <2>4 DEF InBackfill
  <2>5. ASSUME NEW j \in 1..Len(tasks), tasks[j].status = "running",
               h \in tasks[j].next..tasks[j].to
        PROVE  InBackfill(h)' \/ h \in stored' \/ Abandoned(h)'
    <3>1. CASE j # i
      BY <2>1, <2>5, <3>1 DEF InBackfill
    <3>2. CASE j = i /\ Stores(i)
      <4>1. /\ tasks'[i].next = tasks[i].next + 1 /\ tasks'[i].status = "running"
            /\ stored' = stored \cup {tasks[i].next}
        BY <3>2 DEF Stores, BP!Process
      <4>2. CASE h = tasks[i].next
        BY <4>1, <4>2
      <4>3. CASE h # tasks[i].next
        <5>1. h \in tasks'[i].next..tasks'[i].to
          BY <1>t, <2>1, <2>5, <3>2, <4>1, <4>3
        <5> QED
          BY <2>1, <4>1, <5>1 DEF InBackfill
      <4> QED
        BY <4>2, <4>3
    <3>3. CASE j = i /\ Waits(i)
      <4>1. h \in tasks'[i].next..tasks'[i].to /\ tasks'[i].status \in {"running", "abandoned"}
        BY <1>t, <2>1, <2>5, <3>3 DEF Waits
      <4> QED
        BY <2>1, <4>1 DEF InBackfill, Abandoned
    <3> QED
      BY <1>2, <3>1, <3>2, <3>3
  <2> QED
    BY <2>2, <2>3, <2>4, <2>5 DEF InBackfill
<1> QED
  BY <1>1, <1>2, RangeMoves DEF Parts

\* Only a block that is looked at adds to what has been seen, or to the gaps.
LEMMA Notices ==
  ASSUME NodeStep \/ SubscriberStep \/ EmitStep, ~(SubscriberStep /\ S!HeaderDone)
  PROVE  UNCHANGED <<lastSeenHeight, gaps, firstSeen, delivered>>
<1> USE DEF S!nodeVars, S!chanVars, S!seenVars
<1>1. CASE NodeStep \/ EmitStep
  BY <1>1 DEF NodeStep, S!Commit, S!Publish, S!ConnectionLost, S!Cancel, EmitStep, S!Emit
<1>2. CASE SubscriberStep
  <2>1. CASE S!SubscribeOK \/ S!ResubscribeFails \/ S!BackoffElapsed \/ S!Receive
    BY <2>1 DEF S!SubscribeOK, S!ResubscribeFails, S!BackoffElapsed, S!Receive
  <2>2. CASE S!ConnectFails \/ S!ChannelClosed \/ S!HeartbeatTimeout
    BY <2>2 DEF S!ConnectFails, S!ChannelClosed, S!HeartbeatTimeout, S!Disconnected, S!Return
  <2>3. CASE S!ContextDone \/ S!HeaderCanceled \/ S!EmitBlocks \/ S!EmitAbandoned
    BY <2>3 DEF S!ContextDone, S!HeaderCanceled, S!Return, S!EmitBlocks, S!EmitAbandoned
  <2> QED
    BY <1>2, <2>1, <2>2, <2>3 DEF SubscriberStep
<1> QED
  BY <1>1, <1>2

\* A gap recovery still works on its gap, from its beginning.
LEMMA TasksKept ==
  ASSUME Parts, Meeting, TasksAreGaps, [Next]_vars, ~Restart
  PROVE  TasksAreGaps'
<1>t. /\ Len(tasks) \in Nat /\ Len(gaps) \in Nat /\ Len(tasks) <= Len(gaps)
      /\ gaps \in Seq([from : 1..MaxHeight, to : 1..MaxHeight])
      /\ \A i \in 1..Len(tasks) : tasks[i].next \in Int /\ tasks[i].from \in Int
      /\ \A i \in 1..Len(gaps) : gaps[i].from \in Int
  <2>1. \A i \in 1..Len(tasks) : tasks[i].next \in Int /\ tasks[i].from \in Int
    BY TaskTypes
  <2>2. \A i \in 1..Len(gaps) : gaps[i].from \in Int
    BY TaskTypes
  <2>3. Len(tasks) \in Nat /\ Len(gaps) \in Nat /\ Len(tasks) <= Len(gaps)
    BY TaskTypes
  <2>4. gaps \in Seq([from : 1..MaxHeight, to : 1..MaxHeight])
    BY PartTypes
  <2> QED
    BY <2>1, <2>2, <2>3, <2>4
<1>1. ASSUME tasks' = tasks, \A j \in 1..Len(gaps) : gaps'[j] = gaps[j]
      PROVE  TasksAreGaps'
  <2>1. \A i \in 1..Len(tasks) : i \in 1..Len(gaps)
    BY <1>t
  <2> QED
    BY <1>1, <2>1 DEF TasksAreGaps
<1>2. CASE RangeStep
  <2>g. gaps' = gaps
    BY <1>2, BackfillTouches
  <2>1. CASE Begins
    <3> SUFFICES ASSUME NEW i \in 1..Len(tasks')
                 PROVE  /\ tasks'[i].from = gaps[i].from /\ tasks'[i].to = gaps[i].to
                        /\ tasks'[i].from <= tasks'[i].next
      BY <2>g DEF TasksAreGaps
    <3>1. CASE i = Len(tasks) + 1
      <4>1. Len(tasks) + 1 \in 1..Len(gaps)
        BY <1>t, <2>1 DEF Begins
      <4> QED
        BY <1>t, <2>1, <3>1, <4>1 DEF Begins
    <3>2. CASE i # Len(tasks) + 1
      <4>1. i \in 1..Len(tasks) /\ tasks'[i] = tasks[i]
        BY <1>t, <2>1, <3>2 DEF Begins
      <4> QED
        BY <4>1 DEF TasksAreGaps
    <3> QED
      BY <3>1, <3>2
  <2>2. ASSUME NEW i \in 1..Len(tasks), Stores(i) \/ Waits(i)
        PROVE  TasksAreGaps'
    <3>1. /\ Len(tasks') = Len(tasks)
          /\ \A j \in 1..Len(tasks) : j # i => tasks'[j] = tasks[j]
          /\ tasks'[i].from = tasks[i].from /\ tasks'[i].to = tasks[i].to
      BY <2>2 DEF Stores, Waits, Continues
    <3>2. tasks'[i].next = tasks[i].next + 1 \/ tasks'[i].next = tasks[i].next
      BY <2>2 DEF Stores, Waits
    <3>3. tasks'[i].from <= tasks'[i].next
      BY <1>t, <3>1, <3>2 DEF TasksAreGaps
    <3> QED
      BY <2>g, <3>1, <3>3 DEF TasksAreGaps
  <2> QED
    BY <1>2, <2>1, <2>2, RangeMoves DEF Parts
<1>3. CASE SubscriberStep /\ S!HeaderDone
  <2>1. tasks' = tasks
    BY <1>3 DEF SubscriberStep, bfOnly
  <2>2. \A j \in 1..Len(gaps) : gaps'[j] = gaps[j]
    <3>1. CASE gaps' = gaps
      BY <3>1
    <3>2. CASE gaps' # gaps
      <4>1. PICK g \in [from : 1..MaxHeight, to : 1..MaxHeight] : gaps' = Append(gaps, g)
        BY <1>3, <3>2, GapReported
      <4> QED
        BY <1>t, <4>1, AppendProperties
    <3> QED
      BY <3>1, <3>2
  <2> QED
    BY <1>1, <2>1, <2>2
<1>4. CASE ~RangeStep /\ ~(SubscriberStep /\ S!HeaderDone)
  <2>1. UNCHANGED <<tasks, gaps>>
    <3>1. CASE NodeStep \/ SubscriberStep \/ EmitStep
      <4>1. UNCHANGED tasks
        BY <3>1 DEF NodeStep, SubscriberStep, EmitStep, bfOnly
      <4>2. UNCHANGED gaps
        BY <3>1, <1>4, Notices DEF S!HeaderDone
      <4> QED
        BY <4>1, <4>2
    <3>2. CASE CollectorStep \/ FlushStep
      BY <3>2 DEF CollectorStep, FlushStep, bfOnly
    <3>3. CASE StartupStep
      BY <3>3, BackfillTouches
    <3>4. CASE Shutdown \/ Exited \/ UNCHANGED vars
      BY <3>4 DEF Shutdown, Exited, vars, bfOnly
    <3> QED
      BY <1>4, <3>1, <3>2, <3>3, <3>4 DEF Next
  <2> QED
    BY <1>1, <2>1
<1> QED
  BY <1>2, <1>3, <1>4

-----------------------------------------------------------------------------
(* The beginning of a process, the first one or a later one.               *)

\* What it begins with, on whatever chain and database it finds.
Begun ==
  /\ chain \in 1..MaxHeight /\ stored \subseteq 1..MaxHeight
  /\ node = 0 /\ wire = <<>> /\ link = "none" /\ phase = "connecting"
  /\ lastSeenHeight = 0 /\ pending = 0 /\ events = <<>> /\ eventsOpen = TRUE
  /\ canceled = FALSE /\ wsConnected = FALSE
  /\ gaps = <<>> /\ firstSeen = 0 /\ delivered = {} /\ emitted = {}
  /\ colPhase = "waiting" /\ reason = "none" /\ taken = 0
  /\ currentHeight = 0 /\ currentEvents = <<>> /\ timer = "off"
  /\ produced = <<>> /\ handled = <<>> /\ lost = <<>>
  /\ liveCounted = [h \in 1..MaxHeight |-> 0]
  /\ startup = StartupInit /\ tasks = <<>> /\ remaining = 0

LEMMA InitBegun == Init => Begun
<1> SUFFICES ASSUME Init PROVE Begun
  OBVIOUS
<1>1. chain \in 1..MaxHeight /\ stored \subseteq 1..MaxHeight
  BY MonitorAssumption DEF Init, S!Init
<1> QED
  BY <1>1 DEF Init, S!Init, C!Init, B!Heights, Begun

LEMMA RestartBegun == Parts /\ Restart => Begun'
<1> SUFFICES ASSUME Parts, Restart PROVE Begun'
  OBVIOUS
<1>1. chain' \in 1..MaxHeight /\ stored' \subseteq 1..MaxHeight
  BY PartTypes DEF Restart
<1>2. startup' = StartupInit'
  BY DEF Restart, StartupInit
<1> QED
  BY <1>1, <1>2 DEF Restart, B!Heights, Begun

\* The inductive invariant of the monitor.
Whole == Parts /\ Meeting /\ TasksAreGaps

\* Nothing has been seen, sent, gathered or begun.
LEMMA BegunWhole == Begun => Whole
<1> SUFFICES ASSUME Begun PROVE Whole
  OBVIOUS
<1>e. \A SS : <<>> \in Seq(SS) /\ Len(<<>>) = 0
  BY EmptySeq
<1>1. SP!CoverInv
  <2>1. wire \in Seq(Nat) /\ events \in Seq(Nat) /\ gaps \in Seq(SP!Gap)
        /\ Len(wire) <= WireCapacity /\ Len(events) <= EventBufferSize
    BY <1>e, MonitorAssumption DEF Begun
  <2>2. /\ eventsOpen \in BOOLEAN /\ canceled \in BOOLEAN /\ wsConnected \in BOOLEAN
    BY Zenon DEF Begun
  <2>3. SP!TypeOK
    BY <2>1, <2>2, MonitorAssumption DEF Begun, SP!TypeOK, SP!Phases
  <2>4. SP!SeenInv /\ SP!GapCoverage
    BY DEF Begun, SP!SeenInv, SP!GapCoverage
  <2> QED
    BY <2>3, <2>4 DEF SP!CoverInv
<1>2. CP!IInv
  <2>1. CP!Init
    BY DEF Begun, CP!Init
  <2> QED
    BY <2>1, PartsAssume, CP!InitIInv
<1>3. BP!IInv
  <2>1. BP!Fresh
    BY DEF Begun, BP!Fresh, BP!Heights, StartupInit
  <2> QED
    BY <2>1, PartsAssume, BP!FreshIInv
<1>4. Meeting /\ TasksAreGaps
  <2>1. ASSUME NEW h \in SettlementHeights PROVE ~InPipeline(h)
    <3>1. h # 0
      BY MonitorAssumption
    <3> QED
      BY <1>e, <3>1 DEF Begun, InPipeline
  <2>2. Meeting
    BY <1>e, <2>1 DEF Begun, Meeting, Emitting
  <2>3. TasksAreGaps
    BY <1>e DEF Begun, TasksAreGaps
  <2> QED
    BY <2>2, <2>3
<1> QED
  BY <1>1, <1>2, <1>3, <1>4 DEF Whole, Parts

LEMMA WholeKept == Whole /\ [Next]_vars => Whole'
<1>1. Begun' => Whole'
  BY BegunWhole, PTL
<1>2. CASE Restart
  BY <1>1, <1>2, RestartBegun DEF Whole
<1>3. CASE ~Restart
  BY <1>3, PartsKeep, MeetingKept, TasksKept DEF Whole
<1> QED
  BY <1>2, <1>3

-----------------------------------------------------------------------------
(* Nothing seen is forgotten.                                              *)

\* The block being looked at is on its way, what it skips is in a gap whose
\* goroutine has yet to begin, and what was accounted for before still is.
LEMMA AccountedSeen ==
  ASSUME Whole, LiveAccounting, SubscriberStep, S!HeaderDone
  PROVE  LiveAccounting'
<1> SUFFICES ASSUME ~canceled', NEW h \in SettlementHeights \cap firstSeen'..lastSeenHeight'
             PROVE  (h \in stored \/ InPipeline(h) \/ InBackfill(h) \/ Abandoned(h))'
  BY DEF LiveAccounting
<1>0. /\ lastSeenHeight \in Nat /\ firstSeen \in Nat /\ pending \in Nat
      /\ Len(tasks) \in Nat /\ Len(gaps) \in Nat /\ Len(tasks) <= Len(gaps)
      /\ gaps \in Seq([from : 1..MaxHeight, to : 1..MaxHeight])
      /\ h \in SettlementHeights /\ h \in Nat
      /\ lastSeenHeight = 0 <=> firstSeen = 0
  BY PartTypes, TaskTypes, MonitorAssumption DEF Whole, Parts, SP!CoverInv, SP!SeenInv
<1>1. /\ lastSeenHeight' = pending /\ firstSeen' = IF firstSeen = 0 THEN pending ELSE firstSeen
      /\ canceled' = canceled /\ stored' = stored /\ tasks' = tasks
  BY DEF S!HeaderDone, SubscriberStep, dbVars, bfOnly
<1>2. CASE h = pending
  BY <1>0, <1>2, SubscriberMoves DEF Whole
<1>3. CASE h # pending /\ h <= lastSeenHeight
  <2>1. h \in firstSeen..lastSeenHeight
    BY <1>0, <1>1, <1>3
  <2>2. h \in stored \/ InPipeline(h) \/ InBackfill(h) \/ Abandoned(h)
    BY <1>0, <1>1, <2>1 DEF LiveAccounting
  <2>3. InPipeline(h) => InPipeline(h)' \/ h \in stored'
    BY <1>0, <1>1, SubscriberMoves DEF Whole, PipelineMoves
  <2>4. Len(gaps') >= Len(gaps) /\ Len(gaps') \in Nat
        /\ \A i \in 1..Len(gaps) : gaps'[i] = gaps[i]
    <3>1. CASE gaps' = gaps
      BY <1>0, <3>1
    <3>2. CASE gaps' # gaps
      <4>1. PICK g \in [from : 1..MaxHeight, to : 1..MaxHeight] : gaps' = Append(gaps, g)
        BY <3>2, GapReported DEF Whole
      <4> QED
        BY <1>0, <4>1, AppendProperties
    <3> QED
      BY <3>1, <3>2
  <2>5. InBackfill(h) => InBackfill(h)'
    <3>1. ASSUME NEW i \in Len(tasks) + 1..Len(gaps), h \in gaps[i].from..gaps[i].to
          PROVE  InBackfill(h)'
      <4>1. i \in Len(tasks) + 1..Len(gaps') /\ gaps'[i] = gaps[i]
        BY <1>0, <2>4, <3>1
      <4> QED
        BY <1>1, <3>1, <4>1 DEF InBackfill
    <3> QED
      BY <1>1, <3>1 DEF InBackfill
  <2>6. Abandoned(h) => Abandoned(h)'
    BY <1>1 DEF Abandoned
  <2> QED
    BY <1>1, <2>2, <2>3, <2>5, <2>6
<1>4. CASE h # pending /\ h > lastSeenHeight
  <2>1. lastSeenHeight > 0 /\ h < pending
    BY <1>0, <1>1, <1>4
  <2>2. S!IsGap(lastSeenHeight, pending)
    BY <1>0, <1>4, <2>1 DEF S!IsGap
  <2>3. PICK g \in [from : 1..MaxHeight, to : 1..MaxHeight] :
               gaps' = Append(gaps, g) /\ g.from = lastSeenHeight + 1 /\ g.to = pending - 1
    <3>1. gaps' # gaps
      <4>1. gaps' = Append(gaps, S!GapRange(lastSeenHeight, pending))
        BY <2>2 DEF S!HeaderDone
      <4>2. Len(gaps') = Len(gaps) + 1
        BY <1>0, <4>1
      <4> QED
        BY <1>0, <4>2
    <3> QED
      BY <3>1, GapReported DEF Whole
  <2>4. Len(gaps') = Len(gaps) + 1 /\ gaps'[Len(gaps) + 1] = g
    BY <1>0, <2>3, AppendProperties
  <2>5. Len(gaps) + 1 \in Len(tasks) + 1..Len(gaps') /\ h \in g.from..g.to
    BY <1>0, <1>4, <2>1, <2>3, <2>4
  <2> QED
    BY <1>1, <2>4, <2>5 DEF InBackfill
<1> QED
  BY <1>0, <1>2, <1>3, <1>4

\* A step that sees nothing new.
LEMMA NothingSeen ==
  ASSUME Whole, [Next]_vars, ~Restart, ~(SubscriberStep /\ S!HeaderDone)
  PROVE  UNCHANGED <<lastSeenHeight, firstSeen, delivered>> /\ (canceled => canceled')
<1>1. CASE NodeStep \/ SubscriberStep \/ EmitStep
  BY <1>1, Notices, PublishedKept DEF Whole
<1>2. CASE ~(NodeStep \/ SubscriberStep \/ EmitStep)
  BY <1>2, OthersLeave DEF Whole, Next
<1> QED
  BY <1>1, <1>2

\* What is in a gap recovery stays there, is stored, or was given up.
LEMMA Recovers ==
  ASSUME Whole, [Next]_vars, ~Restart, ~(SubscriberStep /\ S!HeaderDone), NEW h \in Int
  PROVE  RecoveryMoves(h)
<1>1. CASE RangeStep
  BY <1>1, RangeRecovers DEF Whole
<1>2. ASSUME UNCHANGED <<tasks, gaps>>, stored \subseteq stored'
      PROVE  RecoveryMoves(h)
  BY <1>2 DEF RecoveryMoves, InBackfill, Abandoned
<1>3. CASE NodeStep \/ SubscriberStep \/ EmitStep
  <2>1. UNCHANGED <<tasks, stored>>
    BY <1>3 DEF NodeStep, SubscriberStep, EmitStep, bfOnly, dbVars
  <2> QED
    BY <1>2, <1>3, <2>1, Notices
<1>4. CASE CollectorStep \/ Shutdown \/ Exited \/ UNCHANGED vars
  BY <1>2, <1>4 DEF CollectorStep, Shutdown, Exited, vars, bfOnly, dbVars
<1>5. CASE FlushStep
  BY <1>2, <1>5, FlushedHeight DEF FlushStep, bfOnly, Whole
<1>6. CASE StartupStep
  <2>1. stored \subseteq stored'
    BY <1>6 DEF StartupStep, B!StartupReadLast, B!StartupDecide, B!StartupBlock, B!Process,
       B!StartupCanceled, B!StartupDone, B!StartupFails, B!StartupFetchFails,
       B!StartupProcessFails, B!StartupError
  <2> QED
    BY <1>2, <1>6, <2>1, BackfillTouches
<1> QED
  BY <1>1, <1>3, <1>4, <1>5, <1>6 DEF Next

LEMMA AccountingKept ==
  ASSUME Whole, LiveAccounting, [Next]_vars, ~Restart
  PROVE  LiveAccounting'
<1>1. CASE SubscriberStep /\ S!HeaderDone
  BY <1>1, AccountedSeen
<1>2. CASE ~(SubscriberStep /\ S!HeaderDone)
  <2> SUFFICES ASSUME ~canceled', NEW h \in SettlementHeights \cap firstSeen'..lastSeenHeight'
               PROVE  (h \in stored \/ InPipeline(h) \/ InBackfill(h) \/ Abandoned(h))'
    BY DEF LiveAccounting
  <2>1. UNCHANGED <<lastSeenHeight, firstSeen>> /\ ~canceled
    BY <1>2, NothingSeen
  <2>2. h \in SettlementHeights /\ h \in Int /\ h \in firstSeen..lastSeenHeight
    BY <2>1, MonitorAssumption
  <2>3. h \in stored \/ InPipeline(h) \/ InBackfill(h) \/ Abandoned(h)
    BY <2>1, <2>2 DEF LiveAccounting
  <2>4. RecoveryMoves(h) /\ PipelineMoves(h)
    BY <1>2, <2>2, Recovers, AllMove DEF Whole
  <2> QED
    BY <2>3, <2>4 DEF RecoveryMoves, PipelineMoves
<1> QED
  BY <1>1, <1>2

\* A process that begins has seen nothing.
LEMMA BegunAccounting == Begun => LiveAccounting
BY MonitorAssumption DEF Begun, LiveAccounting

LEMMA SpecAccounting == Spec => [](Whole /\ LiveAccounting)
<1>1. Init => Whole /\ LiveAccounting
  BY InitBegun, BegunWhole, BegunAccounting
<1>2. Whole /\ LiveAccounting /\ [Next]_vars => (Whole /\ LiveAccounting)'
  <2>1. Begun' => LiveAccounting'
    BY BegunAccounting, PTL
  <2>2. Whole /\ [Next]_vars => Whole'
    BY WholeKept
  <2>3. Whole /\ Restart => LiveAccounting'
    BY <2>1, RestartBegun DEF Whole
  <2>4. Whole /\ LiveAccounting /\ [Next]_vars /\ ~Restart => LiveAccounting'
    BY AccountingKept
  <2> QED
    BY <2>2, <2>3, <2>4
<1> QED
  BY <1>1, <1>2, PTL DEF Spec

\* Nothing the WebSocket has shown is forgotten while the process works: whatever
\* nodes lag, connections drop, transactions fail and gap recoveries overlap, each
\* settlement height from the first one receiveLoop saw to the last is in the
\* database, on its way through the collector, or with a BackfillRange goroutine,
\* one that gave up included.
THEOREM LiveAccountingHolds == Spec => []LiveAccounting
BY SpecAccounting, PTL

\* A restart recovers what is above the watermark: RunIfNeeded works from the last
\* height the database held, the WebSocket from the first one it sees, and where the
\* two have joined no settlement height between is forgotten.
THEOREM RestartRecoversHolds == Spec => []RestartRecovers
<1>1. Whole /\ LiveAccounting => RestartRecovers
  <2> SUFFICES ASSUME Whole, LiveAccounting, ~canceled, JoinedOn,
                      NEW h \in SettlementHeights \cap atBoot + 1..lastSeenHeight
               PROVE  h \in stored \/ InPipeline(h) \/ InBackfill(h) \/ InStartup(h) \/ Abandoned(h)
    BY DEF RestartRecovers
  <2>1. /\ startup \in BP!StartupType /\ BP!StartupProgress /\ startup.requested = 0
        /\ MaxHeight \in Nat /\ firstSeen \in Nat /\ lastSeenHeight \in Nat
    BY PartTypes DEF Whole, Parts, BP!IInv, BP!TypeOK, BP!StartupType
  <2>2. /\ startup.last \in 0..MaxHeight /\ startup.to \in 0..MaxHeight
        /\ startup.from \in 1..MaxHeight + 1 /\ startup.next \in 1..MaxHeight + 1
    BY <2>1 DEF BP!StartupType
  <2>3. /\ startup.from = startup.last + 1 /\ h \in Int /\ startup.last < h
        /\ h <= lastSeenHeight /\ startup.to > 0 /\ firstSeen <= startup.to + 1
    BY <2>1, <2>2 DEF JoinedOn, BP!StartupProgress, BP!FromHeight
  <2>4. CASE firstSeen <= h
    BY <2>1, <2>3, <2>4 DEF LiveAccounting
  <2>5. CASE h < firstSeen
    <3>1. h <= startup.to /\ h \in BP!Heights
      BY <2>1, <2>2, <2>3, <2>5 DEF BP!Heights
    <3>2. h < startup.next => h \in stored
      BY <2>1, <2>2, <2>3, <3>1 DEF BP!StartupProgress
    <3>3. startup.phase = "done" => h < startup.next
      BY <2>1, <2>2, <2>3, <3>1 DEF BP!StartupProgress
    <3>4. startup.phase = "running" /\ startup.next <= h => InStartup(h)
      BY <2>2, <2>3, <3>1 DEF InStartup
    <3> QED
      BY <2>2, <2>3, <3>2, <3>3, <3>4 DEF JoinedOn
  <2> QED
    BY <2>1, <2>3, <2>4, <2>5
<1> QED
  BY <1>1, SpecAccounting, PTL

-----------------------------------------------------------------------------
(***************************************************************************)
(* When no node lags (MaxLag = 0), a height is counted at most once: what  *)
(* is on its way has not been counted, the collector is given its heights  *)
(* in order, and a gap recovery works where nothing was seen.              *)
(***************************************************************************)
Counted ==
  \A h \in 1..MaxHeight :
    /\ liveCounted[h] <= 1
    /\ h > lastSeenHeight \/ InPipeline(h) \/ InBackfill(h) => liveCounted[h] = 0

\* The collector gathers, holds and is sent ever greater heights.
InLine ==
  /\ \A i \in 1..Len(events) : currentHeight < events[i] /\ taken < events[i]
  /\ taken # 0 => currentHeight < taken
  /\ Emitting => currentHeight < pending /\ taken < pending

OnceInv == SP!OrderInv /\ InLine /\ Counted

\* What is on its way carries settlements.
Settling == \A h \in 1..MaxHeight : InPipeline(h) => h \in SettlementHeights

LEMMA Settles == Parts /\ Meeting => Settling
<1> SUFFICES ASSUME Parts, Meeting, NEW h \in 1..MaxHeight, InPipeline(h)
             PROVE  h \in SettlementHeights
  BY DEF Settling
<1>1. /\ \A i \in 1..Len(events) : events[i] \in SettlementHeights
      /\ \A i \in 1..Len(currentEvents) : currentEvents[i] \in SettlementHeights
  BY PartTypes, ElementOfSeq
<1>2. taken \in SettlementHeights \cup {0} /\ h # 0
  BY PartTypes DEF Parts, CP!IInv, CP!TypeOK
<1> QED
  BY <1>1, <1>2 DEF InPipeline, Meeting, Emitting

\* What a gap recovery has yet to do is in a gap.
LEMMA Recovering ==
  ASSUME Parts, TasksAreGaps, NEW h \in Int, InBackfill(h)
  PROVE  SP!InGap(h)
<1>t. Len(tasks) \in Nat /\ Len(gaps) \in Nat /\ Len(tasks) <= Len(gaps)
  BY TaskTypes
<1>1. CASE \E i \in Len(tasks) + 1..Len(gaps) : h \in gaps[i].from..gaps[i].to
  BY <1>t, <1>1 DEF SP!InGap
<1>2. ASSUME NEW i \in 1..Len(tasks), h \in tasks[i].next..tasks[i].to
      PROVE  SP!InGap(h)
  <2>1. /\ tasks[i].from = gaps[i].from /\ tasks[i].to = gaps[i].to
        /\ tasks[i].from <= tasks[i].next
    BY DEF TasksAreGaps
  <2>2. tasks[i].from \in Int /\ tasks[i].to \in Int /\ tasks[i].next \in Int
    BY TaskTypes
  <2>3. h \in gaps[i].from..gaps[i].to
    BY <1>2, <2>1, <2>2
  <2> QED
    BY <1>t, <2>3 DEF SP!InGap
<1> QED
  BY <1>1, <1>2 DEF InBackfill

\* What is in a gap was not seen, and is behind what was.
LEMMA Apart ==
  ASSUME Whole, MaxLag = 0, SP!OrderInv, NEW h \in 1..MaxHeight
  PROVE  /\ InPipeline(h) => h \in delivered /\ h <= lastSeenHeight
         /\ InBackfill(h) => h \notin delivered /\ h <= lastSeenHeight
<1>1. ASSUME InPipeline(h) PROVE h \in delivered /\ h <= lastSeenHeight
  <2>1. h \in SettlementHeights
    BY <1>1, Settles DEF Whole, Settling
  <2> QED
    BY <1>1, <2>1 DEF Whole, Meeting, SP!OrderInv, SP!SeenBehind
<1>2. ASSUME InBackfill(h) PROVE h \notin delivered /\ h <= lastSeenHeight
  <2>1. SP!InGap(h)
    BY <1>2, Recovering DEF Whole
  <2>2. PICK i \in 1..Len(gaps) : h \in gaps[i].from..gaps[i].to
    BY <2>1 DEF SP!InGap
  <2>3. gaps[i].to < lastSeenHeight /\ gaps[i].to \in Int /\ lastSeenHeight \in Nat
    <3>1. gaps[i].to \in 1..MaxHeight
      BY TaskTypes DEF Whole
    <3>2. gaps[i].to < lastSeenHeight
      BY DEF SP!OrderInv, SP!SeenBehind
    <3>3. lastSeenHeight \in Nat
      BY PartTypes DEF Whole
    <3> QED
      BY <3>1, <3>2, <3>3
  <2> QED
    BY <2>1, <2>2, <2>3 DEF SP!OrderInv, SP!NoFalseGap
<1> QED
  BY <1>1, <1>2

\* The collector gathers and holds what was seen.
LEMMA HeldSeen ==
  ASSUME Whole, MaxLag = 0, SP!OrderInv
  PROVE  /\ currentHeight \in Nat /\ currentHeight <= lastSeenHeight
         /\ taken \in Nat /\ taken <= lastSeenHeight
<1>t. /\ currentHeight \in SettlementHeights \cup {0} /\ taken \in SettlementHeights \cup {0}
      /\ lastSeenHeight \in Nat /\ currentEvents \in Seq(SettlementHeights)
      /\ currentHeight = 0 <=> currentEvents = <<>>
      /\ \A i \in 1..Len(currentEvents) : currentEvents[i] = currentHeight
  BY PartTypes DEF Whole, Parts, CP!IInv, CP!TypeOK, CP!OneHeightPerFlush
<1>1. ASSUME NEW h \in SettlementHeights, InPipeline(h) PROVE h <= lastSeenHeight
  BY <1>1 DEF Whole, Meeting, SP!OrderInv, SP!SeenBehind
<1>2. currentHeight # 0 => InPipeline(currentHeight)
  <2> SUFFICES ASSUME currentHeight # 0 PROVE InPipeline(currentHeight)
    OBVIOUS
  <2>1. 1 \in 1..Len(currentEvents)
    BY <1>t, EmptySeq, LenProperties
  <2> QED
    BY <1>t, <2>1 DEF InPipeline
<1>3. InPipeline(taken)
  BY DEF InPipeline
<1>4. currentHeight \in Nat /\ taken \in Nat
  BY <1>t, MonitorAssumption
<1> QED
  BY <1>t, <1>1, <1>2, <1>3, <1>4

\* The subscriber's end of the line.
LEMMA LineSent ==
  ASSUME Whole, MaxLag = 0, SP!OrderInv, InLine, NodeStep \/ SubscriberStep \/ EmitStep
  PROVE  InLine'
<1> USE DEF S!nodeVars, S!chanVars, S!seenVars
<1>u. UNCHANGED <<taken, currentHeight>>
  BY DEF NodeStep, SubscriberStep, EmitStep, colOnly
<1>t. /\ currentHeight \in Nat /\ currentHeight <= lastSeenHeight
      /\ taken \in Nat /\ taken <= lastSeenHeight
      /\ pending \in Nat /\ lastSeenHeight \in Nat
  BY HeldSeen, PartTypes DEF Whole
<1>1. ASSUME events' = events, Emitting' => Emitting /\ pending' = pending PROVE InLine'
  BY <1>1, <1>u DEF InLine
<1>2. CASE NodeStep
  BY <1>1, <1>2 DEF NodeStep, S!Commit, S!Publish, S!ConnectionLost, S!Cancel, Emitting
<1>3. CASE SubscriberStep /\ ~S!HeaderDone
  <2>1. CASE S!SubscribeOK \/ S!ResubscribeFails \/ S!BackoffElapsed \/ S!Receive
    BY <1>1, <2>1 DEF S!SubscribeOK, S!ResubscribeFails, S!BackoffElapsed, S!Receive, Emitting
  <2>2. CASE S!ConnectFails \/ S!ChannelClosed \/ S!HeartbeatTimeout
    BY <1>1, <2>2 DEF S!ConnectFails, S!ChannelClosed, S!HeartbeatTimeout, S!Disconnected,
       S!Return, Emitting
  <2>3. CASE S!ContextDone \/ S!HeaderCanceled \/ S!EmitBlocks \/ S!EmitAbandoned
    BY <1>1, <2>3 DEF S!ContextDone, S!HeaderCanceled, S!Return, S!EmitBlocks,
       S!EmitAbandoned, Emitting
  <2> QED
    BY <1>3, <2>1, <2>2, <2>3 DEF SubscriberStep
<1>4. CASE S!HeaderDone
  <2>1. events' = events /\ (Emitting' => pending' = pending) /\ phase = "header"
    BY <1>4 DEF S!HeaderDone, Emitting
  <2>2. lastSeenHeight < pending
    <3>1. node \in Int
      BY PartTypes DEF Whole
    <3> QED
      BY <1>t, <2>1, <3>1 DEF SP!OrderInv, SP!WireAhead
  <2> QED
    BY <1>t, <1>u, <2>1, <2>2 DEF InLine
<1>5. CASE EmitStep
  <2>1. Emitting /\ pending \in SettlementHeights /\ events' = Append(events, pending) /\ ~Emitting'
    BY <1>5 DEF EmitStep, S!Emit, Emitting, Whole, Meeting
  <2>2. /\ Len(events') = Len(events) + 1 /\ Len(events) \in Nat
        /\ \A i \in 1..Len(events) : events'[i] = events[i]
        /\ events'[Len(events) + 1] = pending
    <3>1. events \in Seq(SettlementHeights)
      BY PartTypes DEF Whole
    <3> QED
      BY <2>1, <3>1, AppendProperties, LenProperties
  <2> QED
    BY <1>u, <2>1, <2>2 DEF InLine
<1> QED
  BY <1>2, <1>3, <1>4, <1>5

\* The collector's end.
LEMMA LineTaken ==
  ASSUME Whole, MaxLag = 0, SP!OrderInv, InLine, CollectorStep \/ FlushStep
  PROVE  InLine'
<1>u. UNCHANGED <<phase, pending, lastSeenHeight>>
  BY DEF CollectorStep, FlushStep, subOnly
<1>t. /\ events \in Seq(SettlementHeights) /\ Len(events) \in Nat
      /\ \A i \in 1..Len(events) : events[i] \in SettlementHeights /\ events[i] \in Nat \ {0}
      /\ currentHeight \in Nat /\ taken \in Nat
      /\ Emitting => pending \in Nat \ {0}
  <2>1. events \in Seq(SettlementHeights) /\ Len(events) \in Nat
    BY PartTypes, LenProperties DEF Whole
  <2> QED
    BY <2>1, ElementOfSeq, HeldSeen, MonitorAssumption DEF Whole, Meeting
<1>1. CASE C!TakeSame \/ C!TakeOther
  <2>1. events # <<>> /\ events' = Tail(events) /\ colPhase = "waiting" /\ taken = 0
    BY <1>1 DEF C!TakeSame, C!TakeOther, Whole, Parts, CP!IInv, CP!Holding
  <2>2. /\ Len(events) >= 1 /\ Len(events') = Len(events) - 1 /\ Head(events) = events[1]
        /\ \A i \in 1..Len(events') : events'[i] = events[i + 1]
    BY <1>t, <2>1, HeadTailProperties, EmptySeq
  <2>3. \A i \in 1..Len(events') : events[1] < events'[i]
    BY <1>t, <2>2 DEF SP!OrderInv, SP!EventsBehind
  <2>4. Emitting => events[1] < pending
    BY <1>t, <2>2 DEF SP!OrderInv, SP!EventsBehind, Emitting
  <2>5. currentHeight < events[1]
    BY <1>t, <2>2 DEF InLine
  <2>6. CASE C!TakeSame
    <3>1. currentHeight' = events[1] /\ taken' = 0
      BY <2>1, <2>2, <2>6 DEF C!TakeSame, C!Accumulate
    <3>2. 1 \in 1..Len(events) /\ events[1] \in Nat \ {0}
      BY <1>t, <2>2
    <3>3. \A i \in 1..Len(events') : currentHeight' < events'[i] /\ taken' < events'[i]
      <4>1. \A i \in 1..Len(events') : i + 1 \in 1..Len(events)
        BY <1>t, <2>2
      <4>2. \A i \in 1..Len(events') : events'[i] \in Nat \ {0}
        BY <1>t, <2>2, <4>1
      <4> QED
        BY <2>3, <3>1, <4>2
    <3>4. Emitting' => Emitting /\ pending' = pending
      BY <1>u DEF Emitting
    <3> QED
      BY <1>t, <2>4, <3>1, <3>2, <3>3, <3>4 DEF InLine
  <2>7. CASE C!TakeOther
    <3>1. currentHeight' = currentHeight /\ taken' = events[1]
      BY <2>2, <2>7 DEF C!TakeOther
    <3>2. \A i \in 1..Len(events') : currentHeight < events'[i]
      BY <1>t, <2>2 DEF InLine
    <3> QED
      BY <1>t, <1>u, <2>2, <2>3, <2>4, <2>5, <3>1, <3>2 DEF InLine, Emitting
  <2> QED
    BY <1>1, <2>6, <2>7
<1>2. CASE C!TimerExpires \/ C!SafetyTimeout \/ C!ContextDone \/ C!ChannelClosed
  <2>1. UNCHANGED <<events, taken, currentHeight>>
    BY <1>2 DEF C!TimerExpires, C!SafetyTimeout, C!ContextDone, C!ChannelClosed, C!FinalFlush
  <2> QED
    BY <1>u, <2>1 DEF InLine, Emitting
<1>3. CASE C!FlushFails \/ (FlushStep /\ reason # "height")
  <2>1. currentHeight' = 0 /\ taken' = 0 /\ events' = events
    BY <1>3 DEF C!FlushFails, FlushStep, C!FlushOK
  <2> QED
    BY <1>t, <1>u, <2>1 DEF InLine, Emitting
<1>4. CASE FlushStep /\ reason = "height"
  <2>1. currentHeight' = taken /\ taken' = 0 /\ events' = events
    BY <1>4 DEF FlushStep, C!FlushOK, C!Accumulate
  <2> QED
    BY <1>t, <1>u, <2>1 DEF InLine, Emitting
<1> QED
  BY <1>1, <1>2, <1>3, <1>4 DEF CollectorStep

LEMMA LineKept ==
  ASSUME Whole, MaxLag = 0, SP!OrderInv, InLine, [Next]_vars, ~Restart
  PROVE  InLine'
<1>1. CASE StartupStep \/ RangeStep \/ Shutdown \/ Exited \/ UNCHANGED vars
  <2>1. UNCHANGED <<phase, pending, events, taken, currentHeight>>
    BY <1>1, BackfillTouches DEF Shutdown, Exited, vars, subOnly, colOnly
  <2> QED
    BY <2>1 DEF InLine, Emitting
<1> QED
  BY <1>1, LineSent, LineTaken DEF Next

\* A gap recovery comes to no height that was not ahead of it.
LEMMA RecoversBack ==
  ASSUME Whole, [Next]_vars, ~Restart, ~(SubscriberStep /\ S!HeaderDone),
         NEW h \in Int, InBackfill(h)'
  PROVE  InBackfill(h)
<1>t. /\ Len(tasks) \in Nat /\ Len(gaps) \in Nat /\ Len(tasks) <= Len(gaps)
      /\ \A i \in 1..Len(tasks) : tasks[i].next \in Int /\ tasks[i].to \in Int
  <2>1. \A i \in 1..Len(tasks) : tasks[i].next \in Int /\ tasks[i].to \in Int
    BY TaskTypes DEF Whole
  <2> QED
    BY <2>1, TaskTypes DEF Whole
<1>1. CASE ~RangeStep
  <2>1. UNCHANGED <<tasks, gaps>>
    <3>1. CASE NodeStep \/ SubscriberStep \/ EmitStep
      BY <3>1, Notices DEF NodeStep, SubscriberStep, EmitStep, bfOnly
    <3>2. CASE CollectorStep \/ FlushStep
      BY <3>2 DEF CollectorStep, FlushStep, bfOnly
    <3>3. CASE StartupStep
      BY <3>3, BackfillTouches
    <3>4. CASE Shutdown \/ Exited \/ UNCHANGED vars
      BY <3>4 DEF Shutdown, Exited, vars, bfOnly
    <3> QED
      BY <1>1, <3>1, <3>2, <3>3, <3>4 DEF Next
  <2> QED
    BY <2>1 DEF InBackfill
<1>2. CASE RangeStep /\ Begins
  <2>1. /\ Len(tasks') = Len(tasks) + 1 /\ gaps' = gaps /\ Len(tasks) < Len(gaps)
        /\ \A j \in 1..Len(tasks) : tasks'[j] = tasks[j]
        /\ tasks'[Len(tasks) + 1].next = gaps[Len(tasks) + 1].from
        /\ tasks'[Len(tasks) + 1].to = gaps[Len(tasks) + 1].to
    BY <1>2, BackfillTouches DEF Begins
  <2>2. ASSUME NEW i \in Len(tasks') + 1..Len(gaps'), h \in gaps'[i].from..gaps'[i].to
        PROVE  InBackfill(h)
    BY <1>t, <2>1, <2>2 DEF InBackfill
  <2>3. ASSUME NEW i \in 1..Len(tasks'), tasks'[i].status = "running",
               h \in tasks'[i].next..tasks'[i].to
        PROVE  InBackfill(h)
    <3>1. CASE i = Len(tasks) + 1
      <4>1. i \in Len(tasks) + 1..Len(gaps) /\ h \in gaps[i].from..gaps[i].to
        BY <1>t, <2>1, <2>3, <3>1
      <4> QED
        BY <4>1 DEF InBackfill
    <3>2. CASE i # Len(tasks) + 1
      <4>1. i \in 1..Len(tasks) /\ tasks'[i] = tasks[i]
        BY <1>t, <2>1, <3>2
      <4> QED
        BY <2>3, <4>1 DEF InBackfill
    <3> QED
      BY <3>1, <3>2
  <2> QED
    BY <2>2, <2>3 DEF InBackfill
<1>3. ASSUME NEW k \in 1..Len(tasks), Stores(k) \/ Waits(k), RangeStep
      PROVE  InBackfill(h)
  <2>1. /\ Len(tasks') = Len(tasks) /\ gaps' = gaps /\ tasks[k].status = "running"
        /\ \A j \in 1..Len(tasks) : j # k => tasks'[j] = tasks[j]
        /\ tasks'[k].to = tasks[k].to
        /\ tasks'[k].next = tasks[k].next + 1 \/ tasks'[k].next = tasks[k].next
    BY <1>3, BackfillTouches DEF Stores, Waits, Continues
  <2>2. ASSUME NEW i \in 1..Len(tasks'), tasks'[i].status = "running",
               h \in tasks'[i].next..tasks'[i].to
        PROVE  InBackfill(h)
    <3>1. CASE i = k
      <4>1. h \in tasks[k].next..tasks[k].to
        BY <1>t, <2>1, <2>2, <3>1
      <4> QED
        BY <2>1, <4>1 DEF InBackfill
    <3>2. CASE i # k
      BY <2>1, <2>2, <3>2 DEF InBackfill
    <3> QED
      BY <3>1, <3>2
  <2> QED
    BY <2>1, <2>2 DEF InBackfill
<1> QED
  BY <1>1, <1>2, <1>3, RangeMoves DEF Whole, Parts

\* What is on its way next, in the pipeline or in a gap recovery, was on its way or
\* is new.
LEMMA NewOnly ==
  ASSUME Whole, MaxLag = 0, SP!OrderInv, [Next]_vars, ~Restart, NEW h \in 1..MaxHeight
  PROVE  h > lastSeenHeight' \/ InPipeline(h)' \/ InBackfill(h)'
           => h > lastSeenHeight \/ InPipeline(h) \/ InBackfill(h)
<1>p. InPipeline(h)' => InPipeline(h) \/ (S!HeaderDone /\ h = pending)
  <2> SUFFICES ASSUME InPipeline(h)' PROVE InPipeline(h) \/ (S!HeaderDone /\ h = pending)
    OBVIOUS
  <2>1. Whole'
    BY WholeKept
  <2>2. Parts' /\ Meeting' => Settling'
    BY Settles, PTL
  <2>3. h \in SettlementHeights
    BY <2>1, <2>2 DEF Whole, Settling
  <2> QED
    BY <2>3, AllMove DEF Whole, PipelineMoves
<1>1. CASE SubscriberStep /\ S!HeaderDone
  <2>0. /\ lastSeenHeight \in Nat /\ pending \in Nat /\ node \in Int
        /\ Len(tasks) \in Nat /\ Len(gaps) \in Nat /\ Len(tasks) <= Len(gaps)
    BY PartTypes, TaskTypes DEF Whole
  <2>1. lastSeenHeight' = pending /\ lastSeenHeight < pending
    BY <1>1, <2>0 DEF S!HeaderDone, SP!OrderInv, SP!WireAhead
  <2>2. InBackfill(h)' => InBackfill(h) \/ h > lastSeenHeight
    <3>t. tasks' = tasks
      BY <1>1 DEF SubscriberStep, bfOnly
    <3>1. CASE gaps' = gaps
      BY <3>t, <3>1 DEF InBackfill
    <3>2. CASE gaps' # gaps
      <4>1. PICK g \in [from : 1..MaxHeight, to : 1..MaxHeight] :
                   gaps' = Append(gaps, g) /\ g.from = lastSeenHeight + 1
        BY <1>1, <3>2, GapReported DEF Whole
      <4>2. /\ Len(gaps') = Len(gaps) + 1 /\ gaps'[Len(gaps) + 1] = g
            /\ \A i \in 1..Len(gaps) : gaps'[i] = gaps[i]
        <5>1. gaps \in Seq([from : 1..MaxHeight, to : 1..MaxHeight])
          BY PartTypes DEF Whole
        <5> QED
          BY <4>1, <5>1, AppendProperties
      <4>3. ASSUME NEW i \in Len(tasks) + 1..Len(gaps'), h \in gaps'[i].from..gaps'[i].to
            PROVE  InBackfill(h) \/ h > lastSeenHeight
        <5>1. CASE i = Len(gaps) + 1
          <6>1. h \in g.from..g.to
            BY <4>2, <4>3, <5>1
          <6> QED
            BY <2>0, <4>1, <6>1
        <5>2. CASE i # Len(gaps) + 1
          <6>1. i \in Len(tasks) + 1..Len(gaps) /\ gaps'[i] = gaps[i]
            BY <2>0, <4>2, <5>2
          <6> QED
            BY <4>3, <6>1 DEF InBackfill
        <5> QED
          BY <5>1, <5>2
      <4> QED
        BY <3>t, <4>3 DEF InBackfill
    <3> QED
      BY <3>1, <3>2
  <2> QED
    BY <1>p, <2>0, <2>1, <2>2
<1>2. CASE ~(SubscriberStep /\ S!HeaderDone)
  <2>1. lastSeenHeight' = lastSeenHeight
    BY <1>2, NothingSeen
  <2>2. InBackfill(h)' => InBackfill(h)
    BY <1>2, RecoversBack
  <2>3. S!HeaderDone /\ h = pending => h > lastSeenHeight
    <3>1. lastSeenHeight \in Nat /\ node \in Int
      BY PartTypes DEF Whole
    <3> QED
      BY <3>1 DEF S!HeaderDone, SP!OrderInv, SP!WireAhead
  <2> QED
    BY <1>p, <2>1, <2>2, <2>3
<1> QED
  BY <1>1, <1>2

\* A block counted now was on its way and is not any more.
LEMMA CountsOnce ==
  ASSUME Whole, MaxLag = 0, SP!OrderInv, Counted, [Next]_vars, ~Restart,
         NEW x \in 1..MaxHeight, NEW isLive \in BOOLEAN, BP!Process(x, isLive),
         InPipeline(x) \/ InBackfill(x),
         ~(x > lastSeenHeight') /\ ~InPipeline(x)' /\ ~InBackfill(x)'
  PROVE  Counted'
<1>t. liveCounted \in [1..MaxHeight -> Nat]
  BY PartTypes DEF Whole
<1>1. /\ liveCounted'[x] = liveCounted[x] + (IF isLive THEN 1 ELSE 0)
      /\ \A h \in 1..MaxHeight : h # x => liveCounted'[h] = liveCounted[h]
  BY <1>t DEF BP!Process
<1>2. liveCounted[x] = 0
  BY DEF Counted
<1>3. ASSUME NEW h \in 1..MaxHeight
      PROVE  /\ liveCounted'[h] <= 1
             /\ h > lastSeenHeight' \/ InPipeline(h)' \/ InBackfill(h)' => liveCounted'[h] = 0
  <2>1. CASE h = x
    BY <1>1, <1>2, <2>1
  <2>2. CASE h # x
    BY <1>1, <2>2, NewOnly DEF Counted
  <2> QED
    BY <2>1, <2>2
<1> QED
  BY <1>3 DEF Counted

\* A block that is not counted keeps the counts.
LEMMA CountsKept ==
  ASSUME Whole, MaxLag = 0, SP!OrderInv, Counted, [Next]_vars, ~Restart,
         liveCounted' = liveCounted
  PROVE  Counted'
BY NewOnly DEF Counted

\* The collector's ProcessBlock, always live.
LEMMA FlushCounts ==
  ASSUME Whole, MaxLag = 0, OnceInv, [Next]_vars, ~Restart, FlushStep
  PROVE  Counted'
<1> USE DEF OnceInv
<1>0. PICK x \in 1..MaxHeight : x = currentHeight
  BY FlushedHeight DEF Whole
<1>1. x \in SettlementHeights /\ InPipeline(x) /\ BP!Process(x, TRUE)
  BY <1>0, FlushedHeight DEF Whole
<1>2. x \in delivered /\ x <= lastSeenHeight /\ ~InBackfill(x)
  BY <1>1, Apart
<1>3. /\ UNCHANGED <<phase, pending, lastSeenHeight, events>> /\ taken' = 0
      /\ colPhase = "flushing"
      /\ reason = "height" <=> taken # 0
      /\ currentEvents' = IF reason = "height" THEN Append(<<>>, taken) ELSE <<>>
  BY DEF FlushStep, C!FlushOK, C!Accumulate, subOnly, Whole, Parts, CP!IInv, CP!Holding
<1>4. ~InBackfill(x)'
  <2>1. ~(SubscriberStep /\ S!HeaderDone)
    BY <1>3 DEF S!HeaderDone
  <2>2. x \in Int
    BY <1>1
  <2> QED
    BY <1>2, <2>1, <2>2, RecoversBack
<1>5. ~InPipeline(x)'
  <2>1. x # 0 /\ x \in Nat /\ pending \in Nat /\ taken \in Nat
    BY <1>1, PartTypes, HeldSeen DEF Whole
  <2>2. ~(Emitting /\ pending = x)
    BY <1>0, <2>1 DEF InLine
  <2>3. \A i \in 1..Len(events) : events[i] # x
    BY <1>0, <2>1 DEF InLine
  <2>4. \A i \in 1..Len(currentEvents') : currentEvents'[i] # x
    <3>1. CASE reason = "height"
      <4>1. Len(currentEvents') = 1 /\ currentEvents'[1] = taken /\ taken # x
        BY <1>0, <1>3, <2>1, <3>1 DEF InLine
      <4> QED
        BY <4>1
    <3>2. CASE reason # "height"
      BY <1>3, <3>2
    <3> QED
      BY <3>1, <3>2
  <2> QED
    BY <1>3, <2>1, <2>2, <2>3, <2>4 DEF InPipeline, Emitting
<1>6. ~(x > lastSeenHeight')
  <2>1. lastSeenHeight \in Nat
    BY PartTypes DEF Whole
  <2> QED
    BY <1>1, <1>2, <1>3, <2>1
<1> QED
  BY <1>1, <1>4, <1>5, <1>6, CountsOnce

\* A gap recovery's ProcessBlock, live when the block is recent.
LEMMA RangeCounts ==
  ASSUME Whole, MaxLag = 0, OnceInv, [Next]_vars, ~Restart, RangeStep
  PROVE  Counted'
<1> USE DEF OnceInv
<1>1. CASE liveCounted' = liveCounted
  BY <1>1, CountsKept
<1>2. ASSUME NEW k \in 1..Len(tasks), Stores(k)
      PROVE  Counted'
  <2>t. /\ Len(tasks) \in Nat /\ Len(gaps) \in Nat /\ Len(tasks) <= Len(gaps)
        /\ tasks[k].next \in Int /\ tasks[k].to \in 1..MaxHeight /\ tasks[k].next >= 1
        /\ MaxHeight \in Nat
    <3>1. tasks[k].next \in 1..MaxHeight + 1 /\ tasks[k].to \in 1..MaxHeight
      BY TaskTypes DEF Whole
    <3>2. MaxHeight \in Nat
      BY PartTypes DEF Whole
    <3>3. Len(tasks) \in Nat /\ Len(gaps) \in Nat /\ Len(tasks) <= Len(gaps)
      BY TaskTypes DEF Whole
    <3> QED
      BY <3>1, <3>2, <3>3
  <2>0. PICK x \in 1..MaxHeight : x = tasks[k].next
    <3>1. tasks[k].next <= tasks[k].to
      BY <1>2 DEF Stores
    <3>2. tasks[k].next \in 1..MaxHeight
      BY <2>t, <3>1
    <3> QED
      BY <3>2
  <2>1. /\ x <= tasks[k].to /\ tasks[k].status = "running" /\ Len(tasks') = Len(tasks)
        /\ \A j \in 1..Len(tasks) : j # k => tasks'[j] = tasks[j]
        /\ tasks'[k].next = x + 1
        /\ gaps' = gaps
    BY <1>2, <2>0, BackfillTouches DEF Stores, Continues
  <2>2. InBackfill(x)
    <3>1. x \in tasks[k].next..tasks[k].to
      BY <2>t, <2>0, <2>1
    <3> QED
      BY <2>t, <2>1, <3>1 DEF InBackfill
  <2>3. x \notin delivered /\ x <= lastSeenHeight /\ ~InPipeline(x)
    BY <2>2, Apart
  <2>4. ~InPipeline(x)' /\ ~(x > lastSeenHeight')
    <3>1. UNCHANGED <<phase, pending, events, taken, currentEvents, lastSeenHeight>>
      BY BackfillTouches DEF subOnly, colOnly
    <3>2. lastSeenHeight \in Nat
      BY PartTypes DEF Whole
    <3> QED
      BY <2>t, <2>3, <3>1, <3>2 DEF InPipeline
  <2>5. \A i \in 1..Len(tasks) : /\ tasks[i].from = gaps[i].from /\ tasks[i].to = gaps[i].to
                                 /\ tasks[i].from <= tasks[i].next
                                 /\ tasks[i].from \in Int /\ tasks[i].next \in Int
                                 /\ tasks[i].to \in Int
    <3>1. \A i \in 1..Len(tasks) : /\ tasks[i].from \in Int /\ tasks[i].next \in Int
                                   /\ tasks[i].to \in Int
      BY TaskTypes DEF Whole
    <3> QED
      BY <3>1 DEF Whole, TasksAreGaps
  <2>6. ASSUME NEW j \in 1..Len(gaps), j # k PROVE x \notin gaps[j].from..gaps[j].to
    <3>1. gaps[j].from \in Int /\ gaps[j].to \in Int /\ k \in 1..Len(gaps)
      <4>1. gaps[j].from \in 1..MaxHeight /\ gaps[j].to \in 1..MaxHeight
        BY TaskTypes DEF Whole
      <4> QED
        BY <2>t, <4>1
    <3>2. gaps[k].from <= x /\ x <= gaps[k].to /\ gaps[k].from \in Int /\ gaps[k].to \in Int
      BY <2>0, <2>1, <2>5
    <3>3. gaps[j].to < gaps[k].from \/ gaps[k].to < gaps[j].from
      <4>1. j < k \/ k < j
        BY <2>6, <2>t
      <4> QED
        BY <3>1, <4>1 DEF SP!OrderInv, SP!NoFalseGap
    <3> QED
      BY <2>t, <3>1, <3>2, <3>3
  <2>7. ~InBackfill(x)'
    <3>1. \A j \in Len(tasks) + 1..Len(gaps) : x \notin gaps[j].from..gaps[j].to
      BY <2>t, <2>6
    <3>2. ASSUME NEW j \in 1..Len(tasks), j # k PROVE x \notin tasks[j].next..tasks[j].to
      <4>1. x \notin gaps[j].from..gaps[j].to
        BY <2>t, <2>6, <3>2
      <4> QED
        BY <2>t, <2>5, <4>1
    <3>3. x \notin tasks'[k].next..tasks'[k].to
      BY <2>t, <2>1
    <3>4. ~InBackfill(x)'
      BY <2>1, <3>1, <3>2, <3>3 DEF InBackfill
    <3> QED
      BY <3>4
  <2>8. PICK isLive \in BOOLEAN : BP!Process(x, isLive)
    BY <1>2, <2>0 DEF Stores
  <2> QED
    BY <2>2, <2>4, <2>7, <2>8, CountsOnce
<1>3. ASSUME NEW k \in 1..Len(tasks), Waits(k)
      PROVE  liveCounted' = liveCounted
  BY <1>3 DEF Waits, dbVars
<1>4. Begins => liveCounted' = liveCounted
  BY DEF Begins, dbVars
<1> QED
  BY <1>1, <1>2, <1>3, <1>4, RangeMoves DEF Whole, Parts

LEMMA CountsHold ==
  ASSUME Whole, MaxLag = 0, OnceInv, [Next]_vars, ~Restart
  PROVE  Counted'
<1> USE DEF OnceInv
<1>1. CASE StartupStep
  <2>1. CASE B!StartupBlock
    <3>1. liveCounted' = [liveCounted EXCEPT ![startup.next] = @ + 0]
      BY <2>1 DEF B!StartupBlock, B!Process
    <3>2. liveCounted' = liveCounted
      <4>1. liveCounted \in [1..MaxHeight -> Nat]
        BY PartTypes DEF Whole
      <4> QED
        BY <3>1, <4>1
    <3> QED
      BY <3>2, CountsKept
  <2>2. CASE ~B!StartupBlock
    BY <1>1, <2>2, CountsKept DEF StartupStep, B!StartupReadLast, B!StartupDecide,
       B!StartupCanceled, B!StartupDone, B!StartupFails, B!StartupFetchFails,
       B!StartupProcessFails, B!StartupError
  <2> QED
    BY <2>1, <2>2
<1>2. CASE RangeStep
  BY <1>2, RangeCounts
<1>3. CASE FlushStep
  BY <1>3, FlushCounts
<1>4. CASE NodeStep \/ SubscriberStep \/ EmitStep \/ CollectorStep \/ Shutdown \/ Exited
            \/ UNCHANGED vars
  BY <1>4, CountsKept DEF NodeStep, SubscriberStep, EmitStep, CollectorStep, Shutdown, Exited,
     vars, dbVars
<1> QED
  BY <1>1, <1>2, <1>3, <1>4 DEF Next

LEMMA OnceKept ==
  ASSUME Whole, MaxLag = 0, OnceInv, [Next]_vars, ~Restart
  PROVE  OnceInv'
<1>1. SP!OrderInv'
  <2>1. [SP!Next]_(SP!vars) /\ SP!TypeOK
    BY PartTypes, SubscriberSees DEF Whole, Parts, SP!CoverInv
  <2>2. SP!TypeOK'
    BY WholeKept DEF Whole, Parts, SP!CoverInv
  <2> QED
    BY <2>1, <2>2, PartsAssume, SP!OrderStep DEF OnceInv
<1>2. InLine'
  BY LineKept DEF OnceInv
<1> QED
  BY <1>1, <1>2, CountsHold DEF OnceInv

LEMMA BegunOnce == Begun => OnceInv
<1> SUFFICES ASSUME Begun PROVE OnceInv
  OBVIOUS
<1>e. \A SS : <<>> \in Seq(SS) /\ Len(<<>>) = 0
  BY EmptySeq
<1>1. SP!OrderInv
  <2>1. SP!SeenBehind /\ SP!NoFalseGap
    BY <1>e DEF Begun, SP!SeenBehind, SP!NoFalseGap, SP!InGap
  <2>2. SP!WireAhead /\ SP!EventsBehind
    BY <1>e DEF Begun, SP!WireAhead, SP!EventsBehind
  <2> QED
    BY <2>1, <2>2 DEF SP!OrderInv
<1>2. InLine
  BY <1>e DEF Begun, InLine, Emitting
<1>3. Counted
  BY DEF Begun, Counted
<1> QED
  BY <1>1, <1>2, <1>3 DEF OnceInv

\* When no node lags, the counters and notifications of a block fire at most once in
\* a process, the collector, gap recoveries that count recent blocks as live and
\* the startup backfill all working at once: a height is only ever on one of the
\* ways into ProcessBlock, and leaves it when it is counted.
THEOREM CountedOnceHolds == Spec => []CountedOnce
<1> DEFINE I == Whole /\ (MaxLag = 0 => OnceInv)
<1>1. Init => I
  BY InitBegun, BegunWhole, BegunOnce
<1>2. I /\ [Next]_vars => I'
  <2> SUFFICES ASSUME I, [Next]_vars PROVE I'
    OBVIOUS
  <2>1. Begun' => OnceInv'
    BY BegunOnce, PTL
  <2>2. CASE Restart
    BY <2>1, <2>2, WholeKept, RestartBegun DEF Whole
  <2>3. CASE ~Restart
    BY <2>3, WholeKept, OnceKept
  <2> QED
    BY <2>2, <2>3
<1>3. I => CountedOnce
  BY DEF OnceInv, Counted, CountedOnce, B!Heights
<1> QED
  BY <1>1, <1>2, <1>3, PTL DEF Spec

=============================================================================
