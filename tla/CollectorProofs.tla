--------------------------- MODULE CollectorProofs ---------------------------
(***************************************************************************)
(* Proofs about the collector, for every set of heights, channel capacity  *)
(* and number of batches: it never mixes heights, it neither loses,        *)
(* repeats nor reorders a batch before it returns, and it implements       *)
(* BlockPipeline.                                                          *)
(***************************************************************************)
EXTENDS Collector, SequenceTheorems, TLAPS

-----------------------------------------------------------------------------
(* Facts about the channel and what is gathered, as sequences.             *)

\* An item taken off a queue and what is left make up the queue.
LEMMA HeadThenTail ==
  ASSUME NEW S, NEW s \in Seq(S), s # <<>>
  PROVE  /\ Head(s) \in S /\ Tail(s) \in Seq(S)
         /\ s = <<Head(s)>> \o Tail(s)
         /\ Len(Tail(s)) = Len(s) - 1
<1>1. Len(s) \in Nat \ {0} /\ Head(s) = s[1]
  BY EmptySeq, HeadTailProperties
<1>2. Head(s) \in S /\ Tail(s) \in Seq(S) /\ Len(Tail(s)) = Len(s) - 1
  BY HeadTailProperties
<1>3. s = SubSeq(s, 1, Len(s)) /\ Tail(s) = SubSeq(s, 2, Len(s))
  BY SubSeqFull, TailIsSubSeq
<1>4. SubSeq(s, 1, Len(s)) = <<s[1]>> \o SubSeq(s, 1 + 1, Len(s))
  <2>1. 1 \in 1..Len(s) /\ Len(s) \in 1..Len(s)
    BY <1>1
  <2> QED
    BY <2>1, SubSeqRecursiveFirst
<1> QED
  BY <1>1, <1>2, <1>3, <1>4

\* A batch goes from what is queued to what is gathered.
LEMMA MoveBatch ==
  ASSUME NEW a \in Seq(Heights), NEW b \in Seq(Heights), NEW h \in Heights
  PROVE  /\ Append(a, h) \in Seq(Heights)
         /\ Append(a, h) \o b = a \o (<<h>> \o b)
<1>1. <<h>> \in Seq(Heights) /\ Append(a, h) = a \o <<h>> /\ Append(a, h) \in Seq(Heights)
  <2>1. <<>> \in Seq(Heights) /\ Append(<<>>, h) = <<h>>
    BY EmptySeq
  <2> QED
    BY <2>1, AppendIsConcat, AppendProperties
<1> QED
  BY <1>1, ConcatAssociative

\* A batch sent is the last of them.
LEMMA SendBatch ==
  ASSUME NEW a \in Seq(Heights), NEW b \in Seq(Heights), NEW h \in Heights
  PROVE  a \o Append(b, h) = Append(a \o b, h)
<1>1. <<h>> \in Seq(Heights) /\ a \o b \in Seq(Heights)
  <2>1. <<>> \in Seq(Heights) /\ Append(<<>>, h) = <<h>>
    BY EmptySeq
  <2> QED
    BY <2>1, AppendProperties, ConcatProperties
<1>2. Append(b, h) = b \o <<h>> /\ Append(a \o b, h) = (a \o b) \o <<h>>
  BY <1>1, AppendIsConcat
<1> QED
  BY <1>1, <1>2, ConcatAssociative

\* The beginning of a concatenation.
LEMMA Beginning ==
  ASSUME NEW S, NEW a \in Seq(S), NEW b \in Seq(S)
  PROVE  SubSeq(a \o b, 1, Len(a)) = a
<1>1. Len(a) \in Nat
  BY LenProperties
<1>2. CASE Len(a) = 0
  <2>1. a = <<>>
    BY <1>2, EmptySeq
  <2>2. SubSeq(a \o b, 1, 0) = <<>>
    BY SubSeqEmpty
  <2> QED
    BY <1>2, <2>1, <2>2
<1>3. CASE Len(a) > 0
  <2>1. 1 \in 1..Len(a) /\ Len(a) \in 1..Len(a)
    BY <1>1, <1>3
  <2>2. SubSeq(a \o b, 1, Len(a)) = SubSeq(a, 1, Len(a))
    BY <2>1, SubSeqOfConcat1
  <2> QED
    BY <2>2, SubSeqFull
<1> QED
  BY <1>1, <1>2, <1>3

-----------------------------------------------------------------------------
(* The inductive invariant.                                                *)

\* A batch is held beside those gathered exactly during a flush that its height
\* caused, and no flush is empty.
Holding ==
  /\ colPhase = "waiting" => taken = 0
  /\ colPhase = "flushing" =>
       /\ currentEvents # <<>> /\ reason # "none"
       /\ reason = "height" <=> taken # 0

IInv == TypeOK /\ OneHeightPerFlush /\ Conservation /\ Holding

\* Nothing is held: what is stored, gathered and queued is what was sent.
LEMMA WaitingAccount ==
  ASSUME TypeOK, taken = 0
  PROVE  ((handled \o currentEvents) \o Taken) \o events =
           (handled \o currentEvents) \o events
<1>1. handled \o currentEvents \in Seq(Heights) /\ Taken = <<>>
  BY ConcatProperties DEF TypeOK, Taken
<1> QED
  BY <1>1, ConcatEmptySeq

\* The collector starts with nothing gathered, held or queued.
LEMMA InitIInv == Init => IInv
<1> SUFFICES ASSUME Init PROVE IInv
  OBVIOUS
<1>1. /\ events \in Seq(Heights) /\ currentEvents \in Seq(Heights)
      /\ produced \in Seq(Heights) /\ handled \in Seq(Heights) /\ lost \in Seq(Heights)
      /\ Len(events) = 0
  BY EmptySeq DEF Init
<1>2. TypeOK
  <2>1. Len(events) <= EventBufferSize
    BY <1>1, CollectorAssumption
  <2>2. taken \in Heights \cup {0} /\ currentHeight \in Heights \cup {0}
    BY DEF Init
  <2>3. /\ eventsOpen \in BOOLEAN /\ canceled \in BOOLEAN /\ timer \in {"off", "running", "fired"}
        /\ colPhase \in {"waiting", "flushing", "returned"}
        /\ reason \in {"none", "height", "timeout", "cancel", "closed"}
    BY DEF Init
  <2> QED
    BY <1>1, <2>1, <2>2, <2>3 DEF TypeOK
<1>3. OneHeightPerFlush
  BY EmptySeq DEF Init, OneHeightPerFlush
<1>4. Conservation
  <2>1. <<>> \in Seq(Heights)
    BY EmptySeq
  <2>2. <<>> \o <<>> = <<>>
    BY <2>1, ConcatEmptySeq
  <2> QED
    BY <2>2 DEF Init, Conservation, Taken
<1> QED
  BY <1>2, <1>3, <1>4 DEF Init, IInv, Holding

\* Taking a batch of the height being gathered keeps what is gathered of one height.
LEMMA Gathering ==
  ASSUME NEW gathered \in Seq(Heights), NEW h \in Heights,
         \A i \in 1..Len(gathered) : gathered[i] = h
  PROVE  /\ Append(gathered, h) \in Seq(Heights) /\ Append(gathered, h) # <<>>
         /\ \A i \in 1..Len(Append(gathered, h)) : Append(gathered, h)[i] = h
<1>1. /\ Append(gathered, h) \in Seq(Heights) /\ Append(gathered, h) # <<>>
      /\ Len(Append(gathered, h)) = Len(gathered) + 1 /\ Len(gathered) \in Nat
      /\ \A i \in 1..Len(gathered) : Append(gathered, h)[i] = gathered[i]
      /\ Append(gathered, h)[Len(gathered) + 1] = h
  BY AppendProperties, LenProperties
<1> QED
  BY <1>1

\* A send into a channel with room keeps the invariant, whatever bounds the number
\* of batches.
LEMMA SendKeeps ==
  ASSUME IInv, NEW h \in Heights, Len(events) < EventBufferSize,
         events' = Append(events, h), produced' = Append(produced, h),
         UNCHANGED <<eventsOpen, canceled, colVars, handled, lost>>
  PROVE  IInv'
<1> USE CollectorAssumption
<1>1. /\ events \in Seq(Heights) /\ currentEvents \in Seq(Heights)
      /\ produced \in Seq(Heights) /\ handled \in Seq(Heights)
      /\ taken \in Heights \cup {0}
  BY DEF IInv, TypeOK
<1>2. /\ events' \in Seq(Heights) /\ produced' \in Seq(Heights)
      /\ Len(events') = Len(events) + 1 /\ Len(events) \in Nat
  BY <1>1, AppendProperties, LenProperties
<1>3. TypeOK'
  BY <1>2 DEF IInv, TypeOK, colVars
<1>4. Conservation'
  <2> DEFINE before == (handled \o currentEvents) \o Taken
  <2>1. before \in Seq(Heights)
    <3>1. handled \o currentEvents \in Seq(Heights)
      BY <1>1, ConcatProperties
    <3>2. <<>> \in Seq(Heights) /\ (taken \in Heights => <<taken>> \in Seq(Heights))
      BY EmptySeq
    <3>3. Taken \in Seq(Heights)
      BY <3>2, <1>1 DEF Taken
    <3> QED
      BY <3>1, <3>3, ConcatProperties
  <2>2. before \o events' = Append(before \o events, h)
    <3> HIDE DEF before
    <3> QED
      BY <2>1, <1>1, SendBatch
  <2>3. before' = before
    BY DEF colVars, Taken
  <2> QED
    BY <2>2, <2>3 DEF IInv, Conservation, colVars
<1> QED
  BY <1>3, <1>4 DEF IInv, OneHeightPerFlush, Holding, colVars

\* Every step of the subscriber's send, the cancellation and the collector keeps it.
LEMMA NextIInv == IInv /\ [Next]_vars => IInv'
<1> SUFFICES ASSUME IInv, [Next]_vars PROVE IInv'
  OBVIOUS
<1> USE CollectorAssumption
<1>types. /\ events \in Seq(Heights) /\ currentEvents \in Seq(Heights)
          /\ produced \in Seq(Heights) /\ handled \in Seq(Heights) /\ lost \in Seq(Heights)
          /\ currentHeight \in Heights \cup {0} /\ taken \in Heights \cup {0}
  BY DEF IInv, TypeOK
<1>send. ASSUME NEW h \in Heights, Send(h) PROVE IInv'
  BY <1>send, SendKeeps DEF Send
<1>closeChannel. CASE CloseChannel
  BY <1>closeChannel DEF CloseChannel, IInv, TypeOK, OneHeightPerFlush, Conservation, Holding,
                         colVars, Taken
<1>cancel. CASE Cancel
  BY <1>cancel DEF Cancel, IInv, TypeOK, OneHeightPerFlush, Conservation, Holding,
                   colVars, Taken
<1>takeSame. CASE TakeSame
  <2> DEFINE h == Head(events)
  <2>1. /\ colPhase = "waiting" /\ taken = 0 /\ events # <<>>
        /\ currentHeight \in {0, h}
        /\ events' = Tail(events) /\ currentHeight' = h
        /\ currentEvents' = Append(currentEvents, h) /\ timer' = "running"
        /\ UNCHANGED <<eventsOpen, canceled, colPhase, reason, taken, produced, handled, lost>>
    BY <1>takeSame DEF TakeSame, Accumulate, IInv, Holding
  <2>2. /\ h \in Heights /\ Tail(events) \in Seq(Heights)
        /\ events = <<h>> \o Tail(events)
        /\ Len(Tail(events)) = Len(events) - 1 /\ Len(events) \in Nat
    BY <2>1, <1>types, HeadThenTail, LenProperties
  <2>3. \A i \in 1..Len(currentEvents) : currentEvents[i] = h
    <3>1. CASE currentHeight = 0
      BY <3>1, EmptySeq DEF IInv, OneHeightPerFlush
    <3>2. CASE currentHeight = h
      BY <3>2 DEF IInv, OneHeightPerFlush
    <3> QED
      BY <2>1, <3>1, <3>2
  <2>4. /\ currentEvents' \in Seq(Heights) /\ currentEvents' # <<>>
        /\ \A i \in 1..Len(currentEvents') : currentEvents'[i] = h
    BY <2>1, <2>2, <2>3, <1>types, Gathering
  <2>5. TypeOK'
    BY <2>1, <2>2, <2>4 DEF IInv, TypeOK
  <2>6. OneHeightPerFlush'
    BY <2>1, <2>2, <2>4 DEF OneHeightPerFlush
  <2>7. Conservation'
    <3>1. (handled \o currentEvents) \o events = produced
      BY <2>1, WaitingAccount DEF IInv, Conservation
    <3>2. handled \o currentEvents \in Seq(Heights)
      BY <1>types, ConcatProperties
    <3>3. (handled \o currentEvents) \o events =
            Append(handled \o currentEvents, h) \o Tail(events)
      <4> HIDE DEF h
      <4>1. Append(handled \o currentEvents, h) \o Tail(events) =
              (handled \o currentEvents) \o (<<h>> \o Tail(events))
        BY <3>2, <2>2, MoveBatch
      <4> QED
        BY <2>2, <4>1
    <3>4. Append(handled \o currentEvents, h) = handled \o Append(currentEvents, h)
      <4> HIDE DEF h
      <4> QED
        BY <1>types, <2>2, SendBatch
    <3>5. ((handled \o currentEvents) \o Taken)' \o events' =
            (handled \o currentEvents)' \o events'
      <4>1. taken' = 0 /\ handled' \in Seq(Heights) /\ (handled \o currentEvents)' \in Seq(Heights)
        BY <2>1, <2>4, <1>types, ConcatProperties
      <4> QED
        BY <4>1, ConcatEmptySeq DEF Taken
    <3> QED
      BY <2>1, <3>1, <3>3, <3>4, <3>5 DEF Conservation
  <2> QED
    BY <2>1, <2>5, <2>6, <2>7 DEF IInv, Holding
<1>takeOther. CASE TakeOther
  <2> DEFINE h == Head(events)
  <2>1. /\ colPhase = "waiting" /\ taken = 0 /\ events # <<>>
        /\ currentHeight \notin {0, h}
        /\ events' = Tail(events) /\ taken' = h
        /\ colPhase' = "flushing" /\ reason' = "height"
        /\ UNCHANGED <<eventsOpen, canceled, currentHeight, currentEvents, timer, produced,
                       handled, lost>>
    BY <1>takeOther DEF TakeOther, BeginFlush, IInv, Holding
  <2>2. /\ h \in Heights /\ Tail(events) \in Seq(Heights)
        /\ events = <<h>> \o Tail(events)
        /\ Len(Tail(events)) = Len(events) - 1 /\ Len(events) \in Nat
    BY <2>1, <1>types, HeadThenTail, LenProperties
  <2>3. TypeOK'
    BY <2>1, <2>2 DEF IInv, TypeOK
  <2>4. OneHeightPerFlush' /\ Holding'
    BY <2>1, <2>2 DEF IInv, OneHeightPerFlush, Holding
  <2>5. Conservation'
    <3>1. (handled \o currentEvents) \o events = produced
      BY <2>1, WaitingAccount DEF IInv, Conservation
    <3>2. handled \o currentEvents \in Seq(Heights)
      BY <1>types, ConcatProperties
    <3>3. <<h>> \in Seq(Heights)
      BY <2>2, EmptySeq
    <3>4. ((handled \o currentEvents) \o <<h>>) \o Tail(events) = produced
      BY <3>1, <3>2, <3>3, <2>2, ConcatAssociative
    <3>5. Taken' = <<h>>
      BY <2>1, <2>2 DEF Taken
    <3> QED
      BY <2>1, <3>4, <3>5 DEF Conservation
  <2> QED
    BY <2>3, <2>4, <2>5 DEF IInv
<1>timerExpires. CASE TimerExpires
  BY <1>timerExpires DEF TimerExpires, IInv, TypeOK, OneHeightPerFlush, Conservation, Holding,
                         Taken
<1>safetyTimeout. CASE SafetyTimeout
  BY <1>safetyTimeout DEF SafetyTimeout, BeginFlush, IInv, TypeOK, OneHeightPerFlush,
                          Conservation, Holding, Taken
<1>contextDone. CASE ContextDone
  BY <1>contextDone DEF ContextDone, FinalFlush, BeginFlush, IInv, TypeOK,
                        OneHeightPerFlush, Conservation, Holding, Taken
<1>channelClosed. CASE ChannelClosed
  BY <1>channelClosed DEF ChannelClosed, FinalFlush, BeginFlush, IInv, TypeOK,
                          OneHeightPerFlush, Conservation, Holding, Taken
<1>flushOK. CASE FlushOK
  <2>1. /\ colPhase = "flushing" /\ currentEvents # <<>>
        /\ handled' = handled \o currentEvents /\ taken' = 0
        /\ UNCHANGED <<events, eventsOpen, canceled, reason, produced, lost>>
        /\ colPhase' = IF reason \in {"cancel", "closed"} THEN "returned" ELSE "waiting"
    BY <1>flushOK DEF FlushOK, OwnContext, IInv, Holding
  <2>2. handled' \in Seq(Heights)
    BY <2>1, <1>types, ConcatProperties
  <2>3. ((handled \o currentEvents) \o Taken) \o events = produced
    BY <2>1 DEF IInv, Conservation
  <2>4. CASE reason = "height"
    <3>1. /\ taken \in Heights /\ currentHeight' = taken /\ timer' = "running"
          /\ currentEvents' = Append(<<>>, taken)
      BY <1>flushOK, <2>4, <1>types DEF FlushOK, Accumulate, IInv, Holding
    <3>2. /\ <<>> \in Seq(Heights) /\ \A i \in 1..Len(<<>>) : <<>>[i] = taken
          /\ Append(<<>>, taken) = <<taken>> /\ taken # 0
      BY <3>1, EmptySeq
    <3>3. /\ currentEvents' \in Seq(Heights) /\ currentEvents' # <<>>
          /\ \A i \in 1..Len(currentEvents') : currentEvents'[i] = taken
      BY <3>1, <3>2, Gathering
    <3>4. Conservation'
      <4>1. Taken = currentEvents' /\ Taken' = <<>>
        BY <2>1, <3>1, <3>2 DEF Taken
      <4>2. (handled' \o currentEvents') \o <<>> = handled' \o currentEvents'
        BY <2>2, <3>3, ConcatProperties, ConcatEmptySeq
      <4> QED
        BY <2>1, <2>3, <4>1, <4>2 DEF Conservation
    <3> QED
      BY <2>1, <2>2, <2>4, <3>1, <3>2, <3>3, <3>4
         DEF IInv, TypeOK, OneHeightPerFlush, Holding
  <2>5. CASE reason # "height"
    <3>1. currentHeight' = 0 /\ currentEvents' = <<>> /\ timer' = timer /\ taken = 0
      BY <1>flushOK, <2>1, <2>5 DEF FlushOK, IInv, Holding
    <3>2. <<>> \in Seq(Heights) /\ Len(<<>>) = 0
      BY EmptySeq
    <3>3. Conservation'
      <4>1. Taken = <<>> /\ Taken' = <<>>
        BY <2>1, <3>1 DEF Taken
      <4>2. handled' \o <<>> = handled'
        BY <2>2, ConcatEmptySeq
      <4> QED
        BY <2>1, <2>3, <3>1, <4>1, <4>2 DEF Conservation
    <3> QED
      BY <2>1, <2>2, <3>1, <3>2, <3>3 DEF IInv, TypeOK, OneHeightPerFlush, Holding
  <2> QED
    BY <2>4, <2>5
<1>flushFails. CASE FlushFails
  <2>1. lost' \in Seq(Heights) /\ <<>> \in Seq(Heights) /\ Len(<<>>) = 0
    BY <1>flushFails, <1>types, ConcatProperties, EmptySeq DEF FlushFails
  <2>2. /\ currentHeight' = 0 /\ currentEvents' = <<>> /\ taken' = 0
        /\ colPhase' = "returned" /\ canceled' = (canceled \/ ~OwnContext)
        /\ UNCHANGED <<events, eventsOpen, reason, timer, produced, handled>>
    BY <1>flushFails DEF FlushFails
  <2>3. canceled' \in BOOLEAN
    BY <2>2 DEF IInv, TypeOK
  <2>4. TypeOK'
    BY <2>1, <2>2, <2>3 DEF IInv, TypeOK
  <2> QED
    BY <2>1, <2>2, <2>4 DEF IInv, OneHeightPerFlush, Conservation, Holding
<1>stutter. CASE UNCHANGED vars
  BY <1>stutter DEF vars, colVars, IInv, TypeOK, OneHeightPerFlush, Conservation, Holding, Taken
<1> QED
  BY <1>send, <1>closeChannel, <1>cancel, <1>takeSame, <1>takeOther, <1>timerExpires,
     <1>safetyTimeout, <1>contextDone, <1>channelClosed, <1>flushOK, <1>flushFails, <1>stutter
     DEF Next, ColNext, Terminated

\* The invariant holds in every reachable state.
LEMMA InductiveInvariant == Spec => []IInv
<1> QED
  BY InitIInv, NextIInv, PTL DEF Spec

-----------------------------------------------------------------------------
(* The safety invariants.                                                  *)

\* The collector's variables keep their types and the channel its capacity.
THEOREM TypeCorrect == Spec => []TypeOK
<1>1. IInv => TypeOK
  BY DEF IInv
<1> QED
  BY <1>1, InductiveInvariant, PTL

\* ProcessBlock is given events of one height only.
THEOREM OneHeightHolds == Spec => []OneHeightPerFlush
<1>1. IInv => OneHeightPerFlush
  BY DEF IInv
<1> QED
  BY <1>1, InductiveInvariant, PTL

\* Until Run returns, what is stored, gathered, held and queued is what was sent.
THEOREM ConservationHolds == Spec => []Conservation
<1>1. IInv => Conservation
  BY DEF IInv
<1> QED
  BY <1>1, InductiveInvariant, PTL

-----------------------------------------------------------------------------
(* The collector implements BlockPipeline.                                 *)

\* What follows the first batches of a sequence, when it is of one height, is a
\* transaction of the pipeline.
LEMMA NextBatches ==
  ASSUME NEW first \in Seq(Heights), NEW batch \in Seq(Heights), NEW rest \in Seq(Heights),
         NEW h, batch # <<>>, \A i \in 1..Len(batch) : batch[i] = h,
         NEW all, all = (first \o batch) \o rest
  PROVE  /\ Len(first \o batch) \in Len(first) + 1..Len(all)
         /\ \A i \in Len(first) + 1..Len(first \o batch) : all[i] = h
         /\ first \o batch = SubSeq(all, 1, Len(first \o batch))
<1> DEFINE both == first \o batch
<1>1. Len(first) \in Nat /\ Len(batch) \in Nat /\ Len(rest) \in Nat /\ Len(batch) # 0
  BY LenProperties, EmptySeq
<1>2. /\ both \in Seq(Heights) /\ Len(both) = Len(first) + Len(batch)
      /\ \A i \in 1..Len(first) + Len(batch) :
           both[i] = IF i <= Len(first) THEN first[i] ELSE batch[i - Len(first)]
  BY ConcatProperties
<1>3. \A i \in Len(first) + 1..Len(both) : both[i] = h
  <2> HIDE DEF both
  <2> SUFFICES ASSUME NEW i \in Len(first) + 1..Len(both)
               PROVE  both[i] = h
    OBVIOUS
  <2>1. i \in 1..Len(first) + Len(batch) /\ ~(i <= Len(first)) /\ i - Len(first) \in 1..Len(batch)
    BY <1>1, <1>2
  <2> QED
    BY <1>2, <2>1
<1>4. /\ Len(all) = Len(both) + Len(rest)
      /\ \A i \in 1..Len(both) : all[i] = both[i]
      /\ SubSeq(all, 1, Len(both)) = both
  <2> HIDE DEF both
  <2>1. all = both \o rest
    BY DEF both
  <2>2. /\ Len(both \o rest) = Len(both) + Len(rest)
        /\ \A i \in 1..Len(both) + Len(rest) :
             (both \o rest)[i] = IF i <= Len(both) THEN both[i] ELSE rest[i - Len(both)]
    BY <1>2, ConcatProperties
  <2>3. \A i \in 1..Len(both) : (both \o rest)[i] = both[i]
    BY <1>1, <1>2, <2>2
  <2>4. SubSeq(both \o rest, 1, Len(both)) = both
    BY <1>2, Beginning
  <2> QED
    BY <2>1, <2>2, <2>3, <2>4
<1> HIDE DEF both
<1>5. Len(both) \in Len(first) + 1..Len(all)
  BY <1>1, <1>2, <1>4
<1>6. \A i \in Len(first) + 1..Len(both) : all[i] = h
  BY <1>1, <1>2, <1>3, <1>4
<1> QED
  BY <1>4, <1>5, <1>6 DEF both

\* A flush that succeeds is one transaction of the pipeline: the next batches
\* sent, all of one height.
LEMMA FlushStores ==
  ASSUME IInv, FlushOK
  PROVE  \E n \in Len(handled) + 1..Len(produced) :
           /\ \A i, j \in Len(handled) + 1..n : produced[i] = produced[j]
           /\ handled' = SubSeq(produced, 1, n)
<1>1. /\ handled' = handled \o currentEvents /\ currentEvents # <<>>
      /\ ((handled \o currentEvents) \o Taken) \o events = produced
  BY DEF FlushOK, IInv, Holding, Conservation
<1>2. /\ handled \in Seq(Heights) /\ currentEvents \in Seq(Heights)
      /\ events \in Seq(Heights) /\ taken \in Heights \cup {0}
      /\ \A i \in 1..Len(currentEvents) : currentEvents[i] = currentHeight
  BY DEF IInv, TypeOK, OneHeightPerFlush
<1>3. Taken \in Seq(Heights)
  <2>1. <<>> \in Seq(Heights) /\ (taken \in Heights => <<taken>> \in Seq(Heights))
    BY EmptySeq
  <2> QED
    BY <2>1, <1>2 DEF Taken
<1> DEFINE both == handled \o currentEvents
           rest == Taken \o events
<1>4. both \in Seq(Heights) /\ rest \in Seq(Heights)
  BY <1>2, <1>3, ConcatProperties
<1>5. produced = both \o rest
  <2>1. (both \o Taken) \o events = both \o rest
    <3> HIDE DEF both
    <3> QED
      BY <1>2, <1>3, <1>4, ConcatAssociative
  <2> QED
    BY <1>1, <2>1
<1>6. /\ Len(both) \in Len(handled) + 1..Len(produced)
      /\ \A i \in Len(handled) + 1..Len(both) : produced[i] = currentHeight
      /\ both = SubSeq(produced, 1, Len(both))
  <2> HIDE DEF rest
  <2> QED
    BY <1>1, <1>2, <1>4, <1>5, NextBatches
<1> HIDE DEF both
<1>7. handled' = both
  BY <1>1 DEF both
<1> QED
  BY <1>6, <1>7

\* Every step of the collector is a step of the pipeline, or none.
LEMMA StepRefines ==
  IInv /\ [Next]_vars => [P!Next]_<<produced, handled, colPhase = "returned">>
<1> SUFFICES ASSUME IInv, [Next]_vars
             PROVE  [P!Next]_<<produced, handled, colPhase = "returned">>
  OBVIOUS
<1>send. ASSUME NEW h \in Heights, Send(h) PROVE P!Send
  BY <1>send DEF Send, colVars, P!Send
<1>silent. ASSUME \/ CloseChannel \/ Cancel \/ TakeSame \/ TakeOther \/ TimerExpires
                  \/ SafetyTimeout \/ UNCHANGED vars
           PROVE  UNCHANGED <<produced, handled, colPhase = "returned">>
  BY <1>silent DEF CloseChannel, Cancel, TakeSame, TakeOther, TimerExpires, SafetyTimeout,
                   BeginFlush, vars, colVars
<1>final. ASSUME NEW why, FinalFlush(why)
          PROVE  P!End \/ UNCHANGED <<produced, handled, colPhase = "returned">>
  <2>1. colPhase = "waiting" /\ UNCHANGED <<produced, handled>>
    BY <1>final DEF FinalFlush
  <2>2. colPhase' \in {"flushing", "returned"}
    BY <1>final DEF FinalFlush, BeginFlush
  <2> QED
    BY <2>1, <2>2 DEF P!End
<1>flushOK. ASSUME FlushOK PROVE P!Store
  <2>1. colPhase # "returned" /\ UNCHANGED produced
    BY <1>flushOK DEF FlushOK
  <2>2. (colPhase' = "returned") \in BOOLEAN
    OBVIOUS
  <2> QED
    BY <2>1, <2>2, <1>flushOK, FlushStores DEF P!Store
<1>flushFails. ASSUME FlushFails PROVE P!End
  BY <1>flushFails DEF FlushFails, P!End
<1> QED
  BY <1>send, <1>silent, <1>final, <1>flushOK, <1>flushFails
     DEF Next, ColNext, Terminated, ContextDone, ChannelClosed, P!Next

\* The collector implements the pipeline, for every set of heights and capacity.
THEOREM PipelineRefined == Spec => RefinesPipeline
<1>1. Init => P!Init
  BY DEF Init, P!Init
<1> QED
  BY <1>1, StepRefines, InductiveInvariant, PTL DEF Spec, RefinesPipeline, P!Spec

=============================================================================
