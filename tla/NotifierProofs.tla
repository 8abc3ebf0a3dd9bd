--------------------------- MODULE NotifierProofs ----------------------------
(***************************************************************************)
(* Proofs about the notifier, for every set of blocks, channel size and    *)
(* number of retries, however many NotifyBlock goroutines run and in       *)
(* whatever order: the variables keep their types and the channel its      *)
(* capacity, and each message is accounted for exactly once.               *)
(***************************************************************************)
EXTENDS Notifier, FiniteSetTheorems, SequenceTheorems, TLAPS

-----------------------------------------------------------------------------
(* Facts about the channel and what has left it, as sequences.             *)

\* An item taken off a queue and what is left make up the queue.
LEMMA HeadThenTail ==
  ASSUME NEW S, NEW s \in Seq(S), s # <<>>
  PROVE  /\ Head(s) \in S /\ Tail(s) \in Seq(S)
         /\ s = <<Head(s)>> \o Tail(s)
         /\ Len(Tail(s)) = Len(s) - 1
<1>1. Len(s) \in Nat \ {0} /\ Head(s) = s[1]
  BY EmptySeq, HeadTailProperties
<1>2. Head(s) \in S /\ Tail(s) \in Seq(S) /\ Len(Tail(s)) = Len(s) - 1
  BY HeadTailProperties
<1>3. s = SubSeq(s, 1, Len(s)) /\ Tail(s) = SubSeq(s, 2, Len(s))
  BY SubSeqFull, TailIsSubSeq
<1>4. SubSeq(s, 1, Len(s)) = <<s[1]>> \o SubSeq(s, 1 + 1, Len(s))
  <2>1. 1 \in 1..Len(s) /\ Len(s) \in 1..Len(s)
    BY <1>1
  <2> QED
    BY <2>1, SubSeqRecursiveFirst
<1> QED
  BY <1>1, <1>2, <1>3, <1>4

\* Moving an item from the head of what follows to the end of what precedes.
LEMMA MoveItem ==
  ASSUME NEW S, NEW a \in Seq(S), NEW b \in Seq(S), NEW h \in S
  PROVE  /\ Append(a, h) \in Seq(S)
         /\ Append(a, h) \o b = a \o (<<h>> \o b)
<1>1. <<h>> \in Seq(S) /\ Append(a, h) = a \o <<h>> /\ Append(a, h) \in Seq(S)
  <2>1. <<>> \in Seq(S) /\ Append(<<>>, h) = <<h>>
    BY EmptySeq
  <2> QED
    BY <2>1, AppendIsConcat, AppendProperties
<1> QED
  BY <1>1, ConcatAssociative

\* What is put on a queue is appended to whatever the queue follows.
LEMMA SendLast ==
  ASSUME NEW S, NEW a \in Seq(S), NEW b \in Seq(S), NEW h \in S
  PROVE  a \o Append(b, h) = Append(a \o b, h)
<1>1. <<h>> \in Seq(S) /\ a \o b \in Seq(S)
  <2>1. <<>> \in Seq(S) /\ Append(<<>>, h) = <<h>>
    BY EmptySeq
  <2> QED
    BY <2>1, AppendProperties, ConcatProperties
<1>2. Append(b, h) = b \o <<h>> /\ Append(a \o b, h) = (a \o b) \o <<h>>
  BY <1>1, AppendIsConcat
<1> QED
  BY <1>1, <1>2, ConcatAssociative

-----------------------------------------------------------------------------
(* The inductive invariant: that of the NotifyBlock goroutines, and that   *)
(* of the channel and its sender.                                          *)

Jobs == [pc : {"idle", "hour", "day", "enqueue", "done"}, asking : Nat, todo : Seq(Messages)]

JobsOK ==
  /\ last \in [Kinds -> Nat] /\ jobs \in [Blocks -> Jobs]
  /\ summarized \in [Kinds -> Seq(Nat)] /\ early \subseteq Nat \X Blocks
  /\ unread \subseteq Kinds \X Nat

QueueOK ==
  /\ ch \in Seq(Messages) /\ Len(ch) <= ChannelSize
  /\ accepted \in Seq(Messages) /\ resolved \in Seq(Messages)
  /\ sentTotal \in Nat /\ errorTotal \in Nat /\ dropped \in Nat

SenderOK ==
  /\ sender \in {"select", "posting", "retrying", "returned"}
  /\ msg \in Seq(Messages) /\ Len(msg) <= 1 /\ attempt \in 0..MaxRetries

FlagsOK == canceled \in BOOLEAN /\ done \in BOOLEAN /\ draining \in BOOLEAN /\ expired \in BOOLEAN

\* A message is in hand exactly while it is being posted or waits for a retry, and
\* it waits only if there is one left.
InHand ==
  /\ sender \in {"posting", "retrying"} => msg # <<>>
  /\ sender = "retrying" => attempt < MaxRetries
  /\ sender \in {"select", "returned"} => msg = <<>>

QueueInv == QueueOK /\ SenderOK /\ InHand /\ MessageAccounting

\* The type invariant, in parts.
LEMMA TypeParts == JobsOK /\ QueueOK /\ SenderOK /\ FlagsOK => TypeOK
BY DEF TypeOK, JobsOK, Jobs, QueueOK, SenderOK, FlagsOK

-----------------------------------------------------------------------------
(* The NotifyBlock goroutines.                                             *)

\* The hour and the day of a block are numbers.
LEMMA PeriodType ==
  ASSUME NEW h \in Blocks, NEW kind \in Kinds
  PROVE  Period(kind, h) \in Nat
<1>1. h \in Nat /\ BlocksPerHour \in Nat \ {0} /\ BlocksPerHour * HoursPerDay \in Nat \ {0}
  BY NotifierAssumption
<1>2. \A n \in Nat \ {0} : h \div n + 1 \in Nat
  BY <1>1
<1> QED
  BY <1>1, <1>2 DEF Period, Hour, Day

\* The messages of a block are messages.
LEMMA MessageTypes ==
  ASSUME NEW h \in Blocks
  PROVE  BlockMessages(h) \in Seq(Messages)
<1>1. Message("block", h) \in Messages /\ Message("slash_critical", h) \in Messages
  BY NotifierAssumption DEF Message, Messages
<1> QED
  BY <1>1, EmptySeq DEF BlockMessages

LEMMA InitJobs == Init => JobsOK
<1> SUFFICES ASSUME Init PROVE JobsOK
  OBVIOUS
<1>1. <<>> \in Seq(Nat) /\ <<>> \in Seq(Messages)
  BY EmptySeq
<1>2. last \in [Kinds -> Nat] /\ summarized \in [Kinds -> Seq(Nat)]
  BY <1>1 DEF Init
<1>3. jobs \in [Blocks -> Jobs]
  BY <1>1 DEF Init, Jobs
<1> QED
  BY <1>2, <1>3 DEF Init, JobsOK

\* A goroutine goes on; the others stay.
LEMMA OneJob ==
  ASSUME JobsOK, NEW h \in Blocks, NEW j \in Jobs, jobs' = [jobs EXCEPT ![h] = j]
  PROVE  jobs' \in [Blocks -> Jobs]
BY DEF JobsOK

\* What checkSummaryBoundary leaves of the goroutine.
LEMMA AdvancedType ==
  ASSUME JobsOK, NEW h \in Blocks, NEW kind \in Kinds
  PROVE  Advanced(h, kind) \in [Blocks -> Jobs]
<1>1. jobs \in [Blocks -> Jobs] /\ jobs[h] \in Jobs
  BY DEF JobsOK
<1> DEFINE pc == IF kind = "hour" THEN "day" ELSE "enqueue"
           j == [jobs[h] EXCEPT !.pc = pc, !.asking = 0]
<1>2. pc \in {"idle", "hour", "day", "enqueue", "done"}
  OBVIOUS
<1>3. j \in Jobs
  <2> HIDE DEF pc
  <2> QED
    BY <1>1, <1>2 DEF Jobs
<1>4. Advanced(h, kind) = [jobs EXCEPT ![h] = j]
  BY DEF Advanced
<1> HIDE DEF j
<1> QED
  BY <1>1, <1>3, <1>4

\* Every step of a goroutine keeps its types, and the message it queues is one.
LEMMA NextJobs ==
  JobsOK /\ [Next]_vars => JobsOK'
<1> SUFFICES ASSUME JobsOK, [Next]_vars PROVE JobsOK'
  OBVIOUS
<1>k. ASSUME UNCHANGED jobVars PROVE JobsOK'
  BY <1>k DEF JobsOK, jobVars
<1>1. ASSUME NEW h \in Blocks, Process(h) PROVE JobsOK'
  <2>1. jobs[h] \in Jobs /\ BlockMessages(h) \in Seq(Messages)
    BY MessageTypes DEF JobsOK
  <2> DEFINE pc == IF h \in QuietBlocks THEN "enqueue" ELSE "hour"
             j == [jobs[h] EXCEPT !.pc = pc, !.todo = BlockMessages(h)]
  <2>2. pc \in {"idle", "hour", "day", "enqueue", "done"}
    OBVIOUS
  <2>3. j \in Jobs
    <3> HIDE DEF pc
    <3> QED
      BY <2>1, <2>2 DEF Jobs
  <2>4. jobs' = [jobs EXCEPT ![h] = j]
    BY <1>1 DEF Process
  <2> HIDE DEF j
  <2> QED
    BY <1>1, <2>3, <2>4, OneJob DEF JobsOK, Process
<1>2. ASSUME NEW h \in Blocks, NEW kind \in Kinds, CheckBoundary(h, kind) PROVE JobsOK'
  <2>1. Period(kind, h) \in Nat
    BY PeriodType
  <2>2. jobs[h] \in Jobs /\ last[kind] \in Nat
    BY DEF JobsOK
  <2>3. last' \in [Kinds -> Nat]
    BY <1>2, <2>1 DEF JobsOK, CheckBoundary
  <2>4. jobs' \in [Blocks -> Jobs]
    <3> DEFINE j == [jobs[h] EXCEPT !.asking = last[kind]]
    <3>1. j \in Jobs
      BY <2>2 DEF Jobs
    <3>2. jobs' = [jobs EXCEPT ![h] = j] \/ jobs' = Advanced(h, kind)
      BY <1>2 DEF CheckBoundary
    <3> HIDE DEF j
    <3> QED
      BY <3>1, <3>2, OneJob, AdvancedType
  <2> QED
    BY <1>2, <2>3, <2>4 DEF JobsOK, CheckBoundary
<1>3. ASSUME NEW h \in Blocks, NEW kind \in Kinds, Summarize(h, kind) PROVE JobsOK'
  <2>1. Period(kind, h) \in Nat /\ jobs[h].asking \in Nat
    BY PeriodType DEF JobsOK, Jobs
  <2>2. last' \in [Kinds -> Nat]
    BY <1>3, <2>1 DEF JobsOK, Summarize
  <2>3. jobs' \in [Blocks -> Jobs]
    BY <1>3, AdvancedType DEF Summarize
  <2>4. summarized' \in [Kinds -> Seq(Nat)]
    <3>1. summarized[kind] \in Seq(Nat)
      BY DEF JobsOK
    <3>2. Append(summarized[kind], jobs[h].asking) \in Seq(Nat)
      BY <2>1, <3>1, AppendProperties
    <3>3. summarized' = [summarized EXCEPT ![kind] = Append(summarized[kind], jobs[h].asking)]
      BY <1>3 DEF Summarize
    <3> QED
      BY <3>2, <3>3 DEF JobsOK
  <2>5. early' \subseteq Nat \X Blocks
    <3>1. Missing(kind, jobs[h].asking) \subseteq Blocks
      BY DEF Missing
    <3> QED
      BY <1>3, <2>1, <3>1 DEF JobsOK, Summarize
  <2> QED
    BY <1>3, <2>2, <2>3, <2>4, <2>5 DEF JobsOK, Summarize
<1>4. ASSUME NEW h \in Blocks, NEW kind \in Kinds, SummaryUnread(h, kind) PROVE JobsOK'
  <2>1. Period(kind, h) \in Nat /\ jobs[h].asking \in Nat
    BY PeriodType DEF JobsOK, Jobs
  <2>2. last' \in [Kinds -> Nat] /\ unread' \subseteq Kinds \X Nat
    BY <1>4, <2>1 DEF JobsOK, SummaryUnread
  <2>3. jobs' \in [Blocks -> Jobs]
    BY <1>4, AdvancedType DEF SummaryUnread
  <2> QED
    BY <1>4, <2>2, <2>3 DEF JobsOK, SummaryUnread
<1>5. ASSUME NEW h \in Blocks, EnqueueBlock(h) PROVE JobsOK'
  <2>1. jobs[h] \in Jobs /\ jobs[h].todo \in Seq(Messages) /\ jobs[h].todo # <<>>
    BY <1>5 DEF JobsOK, Jobs, EnqueueBlock
  <2>2. Tail(jobs[h].todo) \in Seq(Messages)
    BY <2>1, HeadThenTail
  <2> DEFINE j == [jobs[h] EXCEPT !.todo = Tail(jobs[h].todo)]
  <2>3. j \in Jobs
    BY <2>1, <2>2 DEF Jobs
  <2>4. jobs' = [jobs EXCEPT ![h] = j]
    BY <1>5 DEF EnqueueBlock
  <2> HIDE DEF j
  <2> QED
    BY <1>5, <2>3, <2>4, OneJob DEF JobsOK, EnqueueBlock
<1>6. ASSUME NEW h \in Blocks, NotifyReturns(h) PROVE JobsOK'
  <2> DEFINE j == [jobs[h] EXCEPT !.pc = "done"]
  <2>1. j \in Jobs
    BY DEF JobsOK, Jobs
  <2>2. jobs' = [jobs EXCEPT ![h] = j]
    BY <1>6 DEF NotifyReturns
  <2> HIDE DEF j
  <2> QED
    BY <1>6, <2>1, <2>2, OneJob DEF JobsOK, NotifyReturns
<1>7. CASE Cancel \/ Stop \/ DrainExpires \/ UNCHANGED vars
  BY <1>7, <1>k DEF Cancel, Stop, DrainExpires, vars
<1>8. CASE SenderNext
  BY <1>8, <1>k DEF SenderNext, Take, PostOK, PostFails, RateLimited, RetryElapsed, ContextDone,
                    StopReceived, DrainEnds
<1> QED
  BY <1>1, <1>2, <1>3, <1>4, <1>5, <1>6, <1>7, <1>8 DEF Next, NotifyNext, Stopped

-----------------------------------------------------------------------------
(* The channel and its sender.                                             *)

\* What is queued follows what is resolved and what is in hand.
LEMMA InOrder ==
  ASSUME QueueOK, SenderOK
  PROVE  /\ resolved \o msg \in Seq(Messages)
         /\ msg = <<>> => (resolved \o msg) \o ch = resolved \o ch
         /\ msg # <<>> => msg[1] \in Messages /\ msg = <<msg[1]>>
<1>1. resolved \in Seq(Messages) /\ msg \in Seq(Messages) /\ ch \in Seq(Messages)
  BY DEF QueueOK, SenderOK
<1>2. resolved \o msg \in Seq(Messages)
  BY <1>1, ConcatProperties
<1>3. msg = <<>> => resolved \o msg = resolved
  BY <1>1, ConcatEmptySeq
<1>4. CASE msg # <<>>
  <2>1. /\ Head(msg) \in Messages /\ Tail(msg) \in Seq(Messages)
        /\ msg = <<Head(msg)>> \o Tail(msg) /\ Len(Tail(msg)) = Len(msg) - 1
    BY <1>1, <1>4, HeadThenTail
  <2>2. Tail(msg) = <<>>
    <3>1. Len(msg) <= 1 /\ Len(msg) \in Nat
      BY <1>1, LenProperties DEF SenderOK
    <3>2. Tail(msg) # <<>> => Len(Tail(msg)) \in Nat \ {0}
      BY <2>1, EmptySeq
    <3> QED
      BY <2>1, <3>1, <3>2
  <2>3. <<Head(msg)>> \in Seq(Messages)
    BY <2>1
  <2>4. msg = <<Head(msg)>>
    BY <2>1, <2>2, <2>3, ConcatEmptySeq
  <2>5. msg[1] \in Messages /\ msg = <<msg[1]>>
    <3>1. Head(msg) = msg[1]
      BY <1>1, <1>4, HeadTailProperties
    <3> QED
      BY <2>1, <2>4, <3>1
  <2> QED
    BY <1>2, <1>4, <2>5
<1> QED
  BY <1>2, <1>3, <1>4

\* enqueue: the message comes last, or is dropped and counted.
LEMMA PutKeeps ==
  ASSUME QueueInv, NEW m \in Messages, Put(m), UNCHANGED <<sendVars, sentTotal>>
  PROVE  QueueInv'
<1>1. SenderOK' /\ InHand'
  BY DEF QueueInv, SenderOK, InHand, sendVars
<1>2. /\ ch \in Seq(Messages) /\ accepted \in Seq(Messages) /\ Len(resolved) \in Nat
      /\ resolved \o msg \in Seq(Messages) /\ UNCHANGED <<resolved, msg, sentTotal>>
      /\ accepted = (resolved \o msg) \o ch /\ sentTotal + errorTotal = Len(resolved) + dropped
      /\ sentTotal \in Nat /\ errorTotal \in Nat /\ dropped \in Nat
  BY InOrder, LenProperties DEF QueueInv, QueueOK, MessageAccounting, sendVars
<1>3. CASE Len(ch) < ChannelSize /\ ch' = Append(ch, m) /\ accepted' = Append(accepted, m)
           /\ UNCHANGED <<errorTotal, dropped>>
  <2>1. /\ ch' \in Seq(Messages) /\ Len(ch') = Len(ch) + 1 /\ Len(ch) \in Nat
        /\ accepted' \in Seq(Messages)
    BY <1>2, <1>3, AppendProperties, LenProperties
  <2>2. QueueOK'
    BY <1>2, <1>3, <2>1, NotifierAssumption DEF QueueInv, QueueOK
  <2>3. (resolved \o msg) \o Append(ch, m) = Append((resolved \o msg) \o ch, m)
    BY <1>2, SendLast
  <2>4. MessageAccounting'
    BY <1>2, <1>3, <2>3 DEF MessageAccounting
  <2> QED
    BY <1>1, <2>2, <2>4 DEF QueueInv
<1>4. CASE dropped' = dropped + 1 /\ errorTotal' = errorTotal + 1 /\ UNCHANGED <<ch, accepted>>
  <2>1. QueueOK'
    BY <1>2, <1>4 DEF QueueInv, QueueOK
  <2>2. accepted' = (resolved' \o msg') \o ch'
    BY <1>2, <1>4
  <2>3. sentTotal' + errorTotal' = Len(resolved') + dropped'
    <3>1. Len(resolved') = Len(resolved) /\ sentTotal' = sentTotal
      BY <1>2
    <3>2. Len(resolved) \in Nat /\ sentTotal + errorTotal = Len(resolved) + dropped
      BY <1>2
    <3>3. sentTotal \in Nat /\ errorTotal \in Nat /\ dropped \in Nat
      BY <1>2
    <3> QED
      BY <1>4, <3>1, <3>2, <3>3
  <2>4. MessageAccounting'
    BY <2>2, <2>3 DEF MessageAccounting
  <2> QED
    BY <1>1, <2>1, <2>4 DEF QueueInv
<1> QED
  BY <1>3, <1>4 DEF Put

\* A message that was in hand, or has just been taken, is resolved and counted.
LEMMA ResolveKeeps ==
  ASSUME QueueInv, NEW m \in Messages, NEW ok \in BOOLEAN, Resolve(m, ok),
         UNCHANGED <<accepted, dropped>>, ch' \in Seq(Messages), Len(ch') <= ChannelSize,
         accepted = resolved \o (<<m>> \o ch')
  PROVE  QueueInv'
<1>1. /\ resolved \in Seq(Messages) /\ accepted \in Seq(Messages)
      /\ sentTotal \in Nat /\ errorTotal \in Nat /\ dropped \in Nat
      /\ sentTotal + errorTotal = Len(resolved) + dropped
  BY DEF QueueInv, QueueOK, MessageAccounting
<1>2. /\ resolved' = Append(resolved, m) /\ msg' = <<>> /\ sender' = "select" /\ attempt' = 0
  BY DEF Resolve
<1>3. /\ resolved' \in Seq(Messages) /\ Len(resolved') = Len(resolved) + 1 /\ Len(resolved) \in Nat
  BY <1>1, <1>2, AppendProperties, LenProperties
<1>4. /\ sentTotal' \in Nat /\ errorTotal' \in Nat
      /\ sentTotal' + errorTotal' = sentTotal + errorTotal + 1
  BY <1>1 DEF Resolve
<1>5. QueueOK'
  BY <1>1, <1>3, <1>4 DEF QueueOK
<1>6. SenderOK' /\ InHand'
  <2>1. <<>> \in Seq(Messages) /\ Len(<<>>) = 0 /\ 0 \in 0..MaxRetries
    BY EmptySeq, NotifierAssumption
  <2> QED
    BY <1>2, <2>1 DEF SenderOK, InHand
<1>7. MessageAccounting'
  <2>1. Append(resolved, m) \o ch' = resolved \o (<<m>> \o ch')
    BY <1>1, MoveItem
  <2>2. resolved' \o msg' = resolved'
    BY <1>2, <1>3, ConcatEmptySeq
  <2>3. accepted' = (resolved' \o msg') \o ch'
    BY <1>2, <2>1, <2>2
  <2>4. sentTotal' + errorTotal' = Len(resolved') + dropped'
    <3>1. dropped' = dropped /\ dropped \in Nat
      BY <1>1
    <3>2. sentTotal + errorTotal = Len(resolved) + dropped
      BY <1>1
    <3>3. Len(resolved') = Len(resolved) + 1 /\ Len(resolved) \in Nat
      BY <1>3
    <3> QED
      BY <1>4, <3>1, <3>2, <3>3
  <2> QED
    BY <2>3, <2>4 DEF MessageAccounting
<1> QED
  BY <1>5, <1>6, <1>7 DEF QueueInv

\* The message in hand is resolved.
LEMMA InHandResolved ==
  ASSUME QueueInv, sender \in {"posting", "retrying"}, NEW ok \in BOOLEAN,
         Resolve(msg[1], ok), UNCHANGED <<ch, accepted, dropped>>
  PROVE  QueueInv'
<1>1. /\ resolved \in Seq(Messages) /\ ch \in Seq(Messages) /\ Len(ch) <= ChannelSize
      /\ msg \in Seq(Messages) /\ msg # <<>> /\ accepted = (resolved \o msg) \o ch
  BY DEF QueueInv, QueueOK, SenderOK, InHand, MessageAccounting
<1>2. msg[1] \in Messages /\ msg = <<msg[1]>>
  BY <1>1, InOrder DEF QueueInv
<1>3. accepted = resolved \o (msg \o ch)
  <2>1. resolved \in Seq(Messages) /\ msg \in Seq(Messages) /\ ch \in Seq(Messages)
    BY <1>1
  <2>2. (resolved \o msg) \o ch = resolved \o (msg \o ch)
    BY <2>1, ConcatAssociative
  <2> QED
    BY <1>1, <2>2
<1>4. accepted = resolved \o (<<msg[1]>> \o ch')
  BY <1>2, <1>3
<1> QED
  BY <1>1, <1>2, <1>4, ResolveKeeps

LEMMA InitQueue == Init => QueueInv
<1> SUFFICES ASSUME Init PROVE QueueInv
  OBVIOUS
<1>1. <<>> \in Seq(Messages) /\ Len(<<>>) = 0 /\ <<>> \o <<>> = <<>>
  BY EmptySeq, ConcatEmptySeq
<1>2. QueueOK
  BY <1>1, NotifierAssumption DEF Init, QueueOK
<1>3. SenderOK /\ InHand
  BY <1>1, NotifierAssumption DEF Init, SenderOK, InHand
<1>4. MessageAccounting
  BY <1>1 DEF Init, MessageAccounting
<1> QED
  BY <1>2, <1>3, <1>4 DEF QueueInv

\* The steps of the sender.
LEMMA SenderKeeps == QueueInv /\ SenderNext => QueueInv'
<1> SUFFICES ASSUME QueueInv, SenderNext PROVE QueueInv'
  OBVIOUS
<1>t. QueueOK /\ SenderOK /\ InHand /\ MessageAccounting
  BY DEF QueueInv
<1>1. CASE Take
  <2>1. /\ sender = "select" /\ msg = <<>> /\ ch # <<>> /\ ch' = Tail(ch)
        /\ UNCHANGED <<accepted, dropped>>
    BY <1>1, <1>t DEF Take, InHand
  <2>2. /\ Head(ch) \in Messages /\ ch' \in Seq(Messages) /\ ch = <<Head(ch)>> \o ch'
        /\ Len(ch') <= ChannelSize
    BY <1>t, <2>1, HeadThenTail, LenProperties, NotifierAssumption DEF QueueOK
  <2>3. accepted = resolved \o (<<Head(ch)>> \o ch')
    BY <1>t, <2>1, <2>2, InOrder DEF MessageAccounting
  <2>4. CASE Resolve(Head(ch), FALSE)
    <3>1. FALSE \in BOOLEAN
      OBVIOUS
    <3> QED
      BY <2>1, <2>2, <2>3, <2>4, <3>1, ResolveKeeps
  <2>5. CASE /\ sender' = "posting" /\ msg' = <<Head(ch)>> /\ attempt' = 0
             /\ UNCHANGED <<resolved, sentTotal, errorTotal>>
    <3> DEFINE m == Head(ch)
    <3>1. m \in Messages /\ msg' = <<m>> /\ accepted = resolved \o (<<m>> \o ch')
      BY <2>2, <2>3, <2>5
    <3>2. resolved \in Seq(Messages)
      BY <1>t DEF QueueOK
    <3> HIDE DEF m
    <3>3. <<m>> \in Seq(Messages) /\ Len(<<m>>) = 1 /\ <<m>> # <<>>
      BY <3>1
    <3>4. 0 \in 0..MaxRetries
      BY NotifierAssumption
    <3>5. QueueOK'
      BY <1>t, <2>1, <2>2, <2>5 DEF QueueOK
    <3>6. SenderOK' /\ InHand'
      BY <2>5, <3>1, <3>3, <3>4 DEF SenderOK, InHand
    <3>7. (resolved \o <<m>>) \o ch' = resolved \o (<<m>> \o ch')
      BY <2>2, <3>2, <3>3, ConcatAssociative
    <3>8. MessageAccounting'
      BY <1>t, <2>1, <2>5, <3>1, <3>7 DEF MessageAccounting
    <3> QED
      BY <3>5, <3>6, <3>8 DEF QueueInv
  <2> QED
    BY <1>1, <2>4, <2>5 DEF Take
<1>2. ASSUME sender \in {"posting", "retrying"}, Resolve(msg[1], TRUE) \/ Resolve(msg[1], FALSE),
             UNCHANGED <<ch, accepted, dropped>>
      PROVE  QueueInv'
  <2>1. TRUE \in BOOLEAN /\ FALSE \in BOOLEAN
    OBVIOUS
  <2> QED
    BY <1>2, <2>1, InHandResolved
<1>3. CASE PostOK \/ PostFails
  BY <1>2, <1>3 DEF PostOK, PostFails
<1>4. ASSUME UNCHANGED <<ch, accepted, dropped, msg, resolved, sentTotal, errorTotal>>,
             SenderOK', InHand'
      PROVE  QueueInv'
  BY <1>t, <1>4 DEF QueueInv, QueueOK, MessageAccounting
<1>5. CASE RateLimited
  <2>1. CASE Resolve(msg[1], FALSE)
    BY <1>2, <1>5, <2>1 DEF RateLimited
  <2>2. CASE ~Resolve(msg[1], FALSE)
    <3>1. SenderOK' /\ InHand'
      BY <1>t, <1>5, <2>2 DEF RateLimited, SenderOK, InHand
    <3> QED
      BY <1>4, <1>5, <2>2, <3>1 DEF RateLimited
  <2> QED
    BY <2>1, <2>2
<1>6. CASE RetryElapsed
  <2>1. CASE Resolve(msg[1], FALSE)
    BY <1>2, <1>6, <2>1 DEF RetryElapsed
  <2>2. CASE ~Resolve(msg[1], FALSE)
    <3>1. /\ sender = "retrying" /\ sender' = "posting" /\ attempt' = attempt + 1
          /\ UNCHANGED <<ch, accepted, dropped, msg, resolved, sentTotal, errorTotal>>
      BY <1>6, <2>2 DEF RetryElapsed
    <3>2. attempt' \in 0..MaxRetries
      BY <1>t, <3>1, NotifierAssumption DEF SenderOK, InHand
    <3>3. SenderOK' /\ InHand'
      BY <1>t, <3>1, <3>2 DEF SenderOK, InHand
    <3> QED
      BY <1>4, <3>1, <3>3
  <2> QED
    BY <2>1, <2>2
<1>7. CASE ContextDone \/ DrainEnds
  <2>1. SenderOK' /\ InHand'
    BY <1>t, <1>7 DEF ContextDone, DrainEnds, SenderOK, InHand
  <2> QED
    BY <1>4, <1>7, <2>1 DEF ContextDone, DrainEnds
<1>8. CASE StopReceived
  <2>1. SenderOK' /\ InHand'
    BY <1>t, <1>8 DEF StopReceived, SenderOK, InHand
  <2> QED
    BY <1>4, <1>8, <2>1 DEF StopReceived
<1> QED
  BY <1>1, <1>3, <1>5, <1>6, <1>7, <1>8 DEF SenderNext

\* The steps of everyone.
LEMMA NextQueue == JobsOK /\ QueueInv /\ [Next]_vars => QueueInv'
<1> SUFFICES ASSUME JobsOK, QueueInv, [Next]_vars PROVE QueueInv'
  OBVIOUS
<1>1. ASSUME UNCHANGED <<ch, accepted, dropped, sendVars, sentTotal, errorTotal>> PROVE QueueInv'
  BY <1>1 DEF QueueInv, QueueOK, SenderOK, InHand, MessageAccounting, sendVars
<1>2. ASSUME NEW h \in Blocks, EnqueueBlock(h) PROVE QueueInv'
  <2>1. jobs[h].todo \in Seq(Messages) /\ jobs[h].todo # <<>>
    BY <1>2 DEF JobsOK, Jobs, EnqueueBlock
  <2>2. Head(jobs[h].todo) \in Messages
    BY <2>1, HeadThenTail
  <2> QED
    BY <1>2, <2>2, PutKeeps DEF EnqueueBlock
<1>3. ASSUME NEW h \in Blocks, NEW kind \in Kinds, Summarize(h, kind) PROVE QueueInv'
  <2>1. jobs[h].asking \in Nat
    BY DEF JobsOK, Jobs
  <2>2. Message(kind, jobs[h].asking) \in Messages
    BY <2>1 DEF Message, Messages, Kinds
  <2> QED
    BY <1>3, <2>2, PutKeeps DEF Summarize
<1>4. ASSUME NEW h \in Blocks, Process(h) \/ NotifyReturns(h) PROVE QueueInv'
  BY <1>1, <1>4 DEF Process, NotifyReturns
<1>5. ASSUME NEW h \in Blocks, NEW kind \in Kinds, CheckBoundary(h, kind) \/ SummaryUnread(h, kind)
      PROVE  QueueInv'
  BY <1>1, <1>5 DEF CheckBoundary, SummaryUnread
<1>6. CASE Cancel \/ Stop \/ DrainExpires \/ UNCHANGED vars
  BY <1>1, <1>6 DEF Cancel, Stop, DrainExpires, vars
<1>7. CASE SenderNext
  BY <1>7, SenderKeeps
<1> QED
  BY <1>2, <1>3, <1>4, <1>5, <1>6, <1>7 DEF Next, NotifyNext, Stopped

LEMMA NextFlags == FlagsOK /\ [Next]_vars => FlagsOK'
<1> SUFFICES ASSUME FlagsOK, [Next]_vars PROVE FlagsOK'
  OBVIOUS
<1>1. ASSUME NEW h \in Blocks, Process(h) \/ NotifyNext(h) PROVE FlagsOK'
  BY <1>1 DEF FlagsOK, Process, NotifyNext, EnqueueBlock, NotifyReturns, CheckBoundary, Summarize,
              SummaryUnread, sendVars
<1>2. CASE Cancel \/ Stop \/ DrainExpires \/ UNCHANGED vars
  BY <1>2 DEF FlagsOK, Cancel, Stop, DrainExpires, vars, sendVars
<1>3. CASE SenderNext
  BY <1>3 DEF FlagsOK, SenderNext, Take, PostOK, PostFails, RateLimited, RetryElapsed, ContextDone,
              StopReceived, DrainEnds
<1> QED
  BY <1>1, <1>2, <1>3 DEF Next, Stopped

-----------------------------------------------------------------------------
(* The theorems.                                                           *)

LEMMA SpecInv == Spec => [](JobsOK /\ QueueInv /\ FlagsOK)
<1>1. Init => FlagsOK
  BY DEF Init, FlagsOK
<1> QED
  BY <1>1, InitJobs, InitQueue, NextJobs, NextQueue, NextFlags, PTL DEF Spec

\* Every variable keeps its type: enqueue keeps the channel within its capacity,
\* and sendWithRetry makes at most MaxRetries + 1 attempts.
THEOREM TypeCorrect == Spec => []TypeOK
<1>1. JobsOK /\ QueueInv /\ FlagsOK => TypeOK
  BY TypeParts DEF QueueInv
<1> QED
  BY <1>1, SpecInv, PTL

\* What enqueue put on the channel is, in order, sent or given up, being sent, or
\* queued, and the two metrics count each message resolved or dropped once.
THEOREM AccountingHolds == Spec => []MessageAccounting
<1>1. QueueInv => MessageAccounting
  BY DEF QueueInv
<1> QED
  BY <1>1, SpecInv, PTL

-----------------------------------------------------------------------------
(* The summaries, with one goroutine at a time and blocks in chain order.  *)

\* The messages apart, only one goroutine is active, the blocks are processed in
\* order, and the active one is at the highest.
InTurn ==
  /\ \A g, h \in Blocks : Active(g) /\ Active(h) => g = h
  /\ \A g, h \in Blocks : g < h /\ h \in Processed => g \in Processed
  /\ \A g, h \in Blocks : Active(h) /\ g \in Processed => g <= h

\* A goroutine that has asked for a summary asked for the period the tracker is at.
Asking ==
  \A h \in Blocks :
    /\ h \in QuietBlocks => jobs[h].pc \notin Kinds
    /\ jobs[h].asking # 0 =>
         /\ jobs[h].pc \in Kinds \cap Summaries
         /\ jobs[h].asking = last[jobs[h].pc] /\ jobs[h].asking # Period(jobs[h].pc, h)

\* The blocks whose boundary check of a kind is over.
Past(kind) == IF kind = "hour" THEN {"day", "enqueue", "done"} ELSE {"enqueue", "done"}
Checked(kind) == {h \in Blocks \ QuietBlocks : jobs[h].pc \in Past(kind)}

\* The tracker is at the latest period checked, and what could not be read is before.
Tracks(kind) ==
  /\ \A h \in Checked(kind) : Period(kind, h) <= last[kind]
  /\ last[kind] # 0 => \E h \in Checked(kind) : Period(kind, h) = last[kind]
  /\ \A p : <<kind, p>> \in unread => p < last[kind]

\* A summary has been made of each period the tracker has left.
Left(kind) ==
  {p \in {Period(kind, h) : h \in Checked(kind)} : p # last[kind] /\ <<kind, p>> \notin unread}
Elements(s) == {s[i] : i \in 1..Len(s)}
Listed(kind) == Elements(summarized[kind]) = Left(kind) /\ Increasing(summarized[kind])

Exact ==
  /\ early = {} /\ InTurn /\ Asking
  /\ \A kind \in Kinds : Tracks(kind)
  /\ \A kind \in Summaries : Listed(kind)

\* Periods follow one another as blocks do.
LEMMA PeriodsGrow ==
  ASSUME NEW kind \in Kinds, NEW g \in Blocks, NEW h \in Blocks
  PROVE  /\ Period(kind, g) \in Nat \ {0}
         /\ g <= h => Period(kind, g) <= Period(kind, h)
<1>1. g \in Nat /\ h \in Nat
  BY NotifierAssumption
<1>2. ASSUME NEW n \in Nat \ {0}
      PROVE  g \div n \in Nat /\ (g <= h => g \div n <= h \div n)
  <2> DEFINE x == g \div n
             y == h \div n
  <2>1. x \in Nat /\ y \in Nat /\ x * n <= g /\ h < y * n + n
    BY <1>1
  <2> HIDE DEF x, y
  <2>2. ASSUME g <= h PROVE x <= y
    <3>1. x * n < (y + 1) * n
      BY <1>1, <2>1, <2>2
    <3>2. CASE x >= y + 1
      <4>1. PICK d \in Nat : x = y + 1 + d
        BY <2>1, <3>2
      <4>2. x * n = (y + 1) * n + d * n /\ d * n \in Nat
        BY <2>1, <4>1
      <4> QED
        BY <2>1, <3>1, <4>2
    <3> QED
      BY <2>1, <3>2
  <2> QED
    BY <2>1, <2>2 DEF x, y
<1>3. BlocksPerHour \in Nat \ {0} /\ BlocksPerHour * HoursPerDay \in Nat \ {0}
  BY NotifierAssumption
<1>4. CASE kind = "hour"
  <2> DEFINE n == BlocksPerHour
  <2>1. Period(kind, g) = g \div n + 1 /\ Period(kind, h) = h \div n + 1
    BY <1>4 DEF Period, Hour
  <2>2. n \in Nat \ {0}
    BY <1>3
  <2> HIDE DEF n
  <2>3. /\ g \div n \in Nat /\ h \div n \in Nat
        /\ g <= h => g \div n <= h \div n
    BY <1>1, <1>2, <2>2
  <2> QED
    BY <2>1, <2>3
<1>5. CASE kind = "day"
  <2> DEFINE n == BlocksPerHour * HoursPerDay
  <2>1. Period(kind, g) = g \div n + 1 /\ Period(kind, h) = h \div n + 1
    BY <1>5 DEF Period, Day
  <2>2. n \in Nat \ {0}
    BY <1>3
  <2> HIDE DEF n
  <2>3. /\ g \div n \in Nat /\ h \div n \in Nat
        /\ g <= h => g \div n <= h \div n
    BY <1>1, <1>2, <2>2
  <2> QED
    BY <2>1, <2>3
<1> QED
  BY <1>4, <1>5 DEF Kinds

\* One more element.
LEMMA AppendElements ==
  ASSUME NEW s \in Seq(Nat), NEW x \in Nat
  PROVE  /\ Elements(Append(s, x)) = Elements(s) \cup {x}
         /\ Increasing(s) /\ (\A y \in Elements(s) : y < x) => Increasing(Append(s, x))
<1> DEFINE t == Append(s, x)
<1>1. Len(s) \in Nat /\ Len(t) = Len(s) + 1 /\ t[Len(s) + 1] = x
      /\ \A i \in 1..Len(s) : t[i] = s[i]
  BY AppendProperties, LenProperties
<1> HIDE DEF t
<1>2. Elements(t) = Elements(s) \cup {x}
  <2>1. 1..Len(t) = (1..Len(s)) \cup {Len(s) + 1}
    BY <1>1
  <2> QED
    BY <1>1, <2>1 DEF Elements
<1>3. ASSUME Increasing(s), \A y \in Elements(s) : y < x PROVE Increasing(t)
  <2> SUFFICES ASSUME NEW i \in 1..Len(t), NEW j \in 1..Len(t), i < j PROVE t[i] < t[j]
    BY DEF Increasing
  <2>1. i \in 1..Len(s) /\ t[i] = s[i] /\ s[i] \in Elements(s)
    BY <1>1 DEF Elements
  <2>2. CASE j \in 1..Len(s)
    BY <1>1, <1>3, <2>1, <2>2 DEF Increasing
  <2>3. CASE j = Len(s) + 1
    BY <1>1, <1>3, <2>1, <2>3
  <2> QED
    BY <1>1, <2>2, <2>3
<1> QED
  BY <1>2, <1>3 DEF t

\* If no goroutine may run but one, none was active when one was started.
LEMMA StartsAlone ==
  ASSUME MaxConcurrent = 1, InTurn, NEW h \in Blocks, Process(h)
  PROVE  \A g \in Blocks : ~Active(g)
<1> SUFFICES ASSUME NEW g \in Blocks, Active(g) PROVE FALSE
  OBVIOUS
<1>1. {x \in Blocks : Active(x)} = {g}
  BY DEF InTurn
<1>2. Cardinality({x \in Blocks : Active(x)}) < 1
  BY DEF Process
<1> QED
  BY <1>1, <1>2, FS_Singleton

\* A step that moves neither a tracker nor a goroutine past a check.
LEMMA ExactKept ==
  ASSUME Exact, InTurn', Asking', UNCHANGED <<last, summarized, early, unread>>,
         \A kind \in Kinds : Checked(kind)' = Checked(kind)
  PROVE  Exact'
<1>1. ASSUME NEW kind \in Kinds PROVE Tracks(kind)'
  BY <1>1 DEF Exact, Tracks
<1>2. ASSUME NEW kind \in Summaries PROVE Listed(kind)'
  <2>1. kind \in Kinds
    BY NotifierAssumption DEF Kinds
  <2> QED
    BY <1>2, <2>1 DEF Exact, Listed, Left, Elements, Increasing
<1> QED
  BY <1>1, <1>2 DEF Exact

LEMMA InitExact == Init => Exact
<1> SUFFICES ASSUME Init PROVE Exact
  OBVIOUS
<1>1. \A h \in Blocks : jobs[h].pc = "idle" /\ jobs[h].asking = 0
  BY DEF Init
<1>2. InTurn /\ Asking
  BY <1>1 DEF InTurn, Asking, Active, Processed, Kinds
<1>3. \A kind \in Kinds : Checked(kind) = {} /\ last[kind] = 0
  BY <1>1 DEF Init, Checked, Past
<1>4. \A kind \in Kinds : Tracks(kind)
  BY <1>3 DEF Init, Tracks
<1>5. ASSUME NEW kind \in Summaries PROVE Listed(kind)
  <2>1. kind \in Kinds
    BY NotifierAssumption DEF Kinds
  <2>2. summarized[kind] = <<>> /\ Len(<<>>) = 0 /\ Checked(kind) = {}
    BY <1>3, <2>1, EmptySeq DEF Init
  <2> QED
    BY <2>2 DEF Listed, Left, Elements, Increasing
<1> QED
  BY <1>2, <1>4, <1>5 DEF Init, Exact

\* A goroutine whose blocks below have all been processed starts.
LEMMA ProcessExact ==
  ASSUME MaxConcurrent = 1, ~CatchUp, JobsOK, Exact, NEW h \in Blocks, Process(h)
  PROVE  Exact'
<1>i. InTurn /\ Asking /\ \A g \in Blocks : g \in Nat
  BY NotifierAssumption DEF Exact
<1>1. /\ jobs[h].pc = "idle" /\ \A g \in Blocks : g < h => g \in Processed
      /\ UNCHANGED <<last, summarized, early, unread>>
  BY DEF Process
<1>2. /\ jobs'[h].pc = (IF h \in QuietBlocks THEN "enqueue" ELSE "hour")
      /\ jobs'[h].asking = jobs[h].asking
      /\ \A g \in Blocks : g # h => jobs'[g] = jobs[g]
  BY DEF Process, JobsOK, Jobs
<1>3. jobs[h].asking = 0
  BY <1>i, <1>1 DEF Asking, Kinds
<1>4. \A g \in Blocks : Active(g)' => g = h
  BY <1>i, <1>2, StartsAlone DEF Active
<1>5. \A g \in Blocks : g \in Processed' <=> g \in Processed \/ g = h
  BY <1>2 DEF Processed
<1>6. \A g \in Processed : g <= h
  BY <1>i, <1>1 DEF InTurn, Processed
<1>7. InTurn'
  <2>1. \A g, k \in Blocks : g < k /\ k \in Processed' => g \in Processed'
    BY <1>i, <1>1, <1>5 DEF InTurn
  <2>2. \A g, k \in Blocks : Active(k)' /\ g \in Processed' => g <= k
    BY <1>i, <1>4, <1>5, <1>6
  <2> QED
    BY <1>4, <2>1, <2>2 DEF InTurn
<1>8. Asking'
  BY <1>i, <1>1, <1>2, <1>3 DEF Asking, Kinds
<1>9. \A kind \in Kinds : Checked(kind)' = Checked(kind)
  BY <1>1, <1>2 DEF Checked, Past
<1> QED
  BY <1>1, <1>7, <1>8, <1>9, ExactKept

\* A boundary check is over and its tracker at the period of the block.
LEMMA CheckOver ==
  ASSUME JobsOK, Exact, NEW h \in Blocks, NEW kind \in Kinds, jobs[h].pc = kind,
         jobs' = Advanced(h, kind), last' = [last EXCEPT ![kind] = Period(kind, h)]
  PROVE  /\ InTurn' /\ Asking'
         /\ Checked(kind)' = Checked(kind) \cup {h}
         /\ last'[kind] = Period(kind, h) /\ last[kind] <= Period(kind, h)
         /\ \A g \in Checked(kind) : Period(kind, g) <= Period(kind, h)
         /\ \A k \in Kinds \ {kind} : Checked(k)' = Checked(k) /\ last'[k] = last[k]
<1>i. InTurn /\ Asking /\ Tracks(kind) /\ \A g \in Blocks : g \in Nat
  BY NotifierAssumption DEF Exact
<1>1. /\ jobs'[h].pc = (IF kind = "hour" THEN "day" ELSE "enqueue") /\ jobs'[h].asking = 0
      /\ \A g \in Blocks : g # h => jobs'[g] = jobs[g]
  BY DEF Advanced, JobsOK, Jobs
<1>2. last'[kind] = Period(kind, h) /\ \A k \in Kinds \ {kind} : last'[k] = last[k]
  BY DEF JobsOK
<1>3. Active(h) /\ Active(h)' /\ h \in Processed /\ h \notin QuietBlocks
  BY <1>i, <1>1 DEF Active, Processed, Kinds, Asking
<1>4. \A g \in Blocks : (Active(g)' <=> Active(g)) /\ (g \in Processed' <=> g \in Processed)
  BY <1>1, <1>3 DEF Active, Processed
<1>5. InTurn'
  BY <1>i, <1>4 DEF InTurn
<1>6. Asking'
  <2> SUFFICES ASSUME NEW g \in Blocks
               PROVE  /\ g \in QuietBlocks => jobs'[g].pc \notin Kinds
                      /\ jobs'[g].asking # 0 =>
                           /\ jobs'[g].pc \in Kinds \cap Summaries
                           /\ jobs'[g].asking = last'[jobs'[g].pc]
                           /\ jobs'[g].asking # Period(jobs'[g].pc, g)
    BY DEF Asking
  <2>1. CASE g = h
    BY <1>1, <1>3, <2>1
  <2>2. CASE g # h
    <3>1. ~Active(g)
      BY <1>i, <1>3, <2>2 DEF InTurn
    <3> QED
      BY <1>i, <1>1, <2>2, <3>1 DEF Asking, Active, Kinds
  <2> QED
    BY <2>1, <2>2
<1>7. /\ Checked(kind)' = Checked(kind) \cup {h}
      /\ \A k \in Kinds \ {kind} : Checked(k)' = Checked(k)
  BY <1>1, <1>3 DEF Checked, Past, Kinds
<1>8. \A g \in Checked(kind) : Period(kind, g) <= Period(kind, h)
  <2> SUFFICES ASSUME NEW g \in Checked(kind) PROVE Period(kind, g) <= Period(kind, h)
    OBVIOUS
  <2>1. g \in Blocks /\ g \in Processed
    BY DEF Checked, Past, Processed
  <2>2. g <= h
    BY <1>i, <1>3, <2>1 DEF InTurn
  <2> QED
    BY <2>1, <2>2, PeriodsGrow
<1>9. last[kind] <= Period(kind, h)
  <2>1. Period(kind, h) \in Nat
    BY PeriodType
  <2>2. CASE last[kind] = 0
    BY <2>1, <2>2
  <2>3. CASE last[kind] # 0
    BY <1>i, <1>8, <2>3 DEF Tracks
  <2> QED
    BY <2>2, <2>3
<1> QED
  BY <1>2, <1>5, <1>6, <1>7, <1>8, <1>9

\* What of a kind is left alone stays as it is.
LEMMA OtherKind ==
  ASSUME NEW k \in Kinds, Tracks(k), k \in Summaries => Listed(k), Checked(k)' = Checked(k),
         last'[k] = last[k], summarized'[k] = summarized[k],
         \A p : <<k, p>> \in unread' <=> <<k, p>> \in unread
  PROVE  Tracks(k)' /\ (k \in Summaries => Listed(k)')
<1>1. Tracks(k)'
  BY DEF Tracks
<1>2. Left(k)' = Left(k)
  BY DEF Left
<1>3. k \in Summaries => Listed(k)'
  BY <1>2 DEF Listed, Elements, Increasing
<1> QED
  BY <1>1, <1>3

\* What was before the tracker is before the period of the block, too.
LEMMA TracksOn ==
  ASSUME JobsOK, Exact, NEW h \in Blocks, NEW kind \in Kinds, jobs[h].pc = kind,
         jobs' = Advanced(h, kind), last' = [last EXCEPT ![kind] = Period(kind, h)],
         NEW q \in Nat, q < Period(kind, h),
         \A p : <<kind, p>> \in unread' => <<kind, p>> \in unread \/ p = q
  PROVE  Tracks(kind)'
<1>1. /\ Checked(kind)' = Checked(kind) \cup {h}
      /\ last'[kind] = Period(kind, h) /\ last[kind] <= Period(kind, h)
      /\ \A g \in Checked(kind) : Period(kind, g) <= Period(kind, h)
  BY CheckOver
<1>2. Period(kind, h) \in Nat /\ last[kind] \in Nat
  BY PeriodType DEF JobsOK
<1>3. \A p : <<kind, p>> \in unread => p < last[kind] /\ p \in Nat
  BY DEF Exact, Tracks, JobsOK
<1>4. \A p : <<kind, p>> \in unread' => p < Period(kind, h)
  BY <1>1, <1>2, <1>3
<1> QED
  BY <1>1, <1>2, <1>4 DEF Tracks

\* The block is of the period of the tracker, or the first, or nobody wants a summary.
LEMMA CheckExact ==
  ASSUME JobsOK, Exact, NEW h \in Blocks, NEW kind \in Kinds, CheckBoundary(h, kind)
  PROVE  Exact'
<1> DEFINE own == Period(kind, h)
           asks == last[kind] \notin {0, own} /\ kind \in Summaries
<1>i. InTurn /\ Asking
  BY DEF Exact
<1>0. jobs[h].pc = kind /\ jobs[h].asking = 0 /\ UNCHANGED <<summarized, early, unread>>
  BY DEF CheckBoundary
<1>1. CASE asks
  <2>1. last' = last /\ jobs' = [jobs EXCEPT ![h].asking = last[kind]]
    BY <1>1 DEF CheckBoundary
  <2>2. /\ \A g \in Blocks : jobs'[g].pc = jobs[g].pc
        /\ jobs'[h].asking = last[kind]
        /\ \A g \in Blocks : g # h => jobs'[g].asking = jobs[g].asking
    BY <2>1 DEF JobsOK, Jobs
  <2>3. InTurn'
    BY <1>i, <2>2 DEF InTurn, Active, Processed
  <2>4. Asking'
    <3> SUFFICES ASSUME NEW g \in Blocks
                 PROVE  /\ g \in QuietBlocks => jobs'[g].pc \notin Kinds
                        /\ jobs'[g].asking # 0 =>
                             /\ jobs'[g].pc \in Kinds \cap Summaries
                             /\ jobs'[g].asking = last'[jobs'[g].pc]
                             /\ jobs'[g].asking # Period(jobs'[g].pc, g)
      BY DEF Asking
    <3>1. CASE g = h
      <4>1. g \in QuietBlocks => jobs[g].pc \notin Kinds
        BY <1>i DEF Asking
      <4> QED
        BY <1>0, <1>1, <2>1, <2>2, <3>1, <4>1
    <3>2. CASE g # h
      BY <1>i, <2>1, <2>2, <3>2 DEF Asking
    <3> QED
      BY <3>1, <3>2
  <2>5. \A k \in Kinds : Checked(k)' = Checked(k)
    BY <2>2 DEF Checked
  <2> QED
    BY <1>0, <2>1, <2>3, <2>4, <2>5, ExactKept
<1>2. CASE ~asks
  <2>1. jobs' = Advanced(h, kind) /\ last' = [last EXCEPT ![kind] = own]
    BY <1>2 DEF CheckBoundary
  <2>2. /\ InTurn' /\ Asking'
        /\ Checked(kind)' = Checked(kind) \cup {h} /\ last'[kind] = own
        /\ \A k \in Kinds \ {kind} : Checked(k)' = Checked(k) /\ last'[k] = last[k]
    BY <1>0, <2>1, CheckOver
  <2>3. Tracks(kind)'
    <3>1. \A p : <<kind, p>> \in unread' => <<kind, p>> \in unread
      BY <1>0
    <3>2. PICK q \in Nat : q < own
      <4>1. 0 \in Nat /\ 0 < own
        BY PeriodsGrow
      <4> QED
        BY <4>1
    <3> QED
      BY <1>0, <2>1, <3>1, <3>2, TracksOn
  <2>4. kind \in Summaries => Listed(kind)'
    <3> SUFFICES ASSUME kind \in Summaries PROVE Listed(kind)'
      OBVIOUS
    <3>1. last[kind] \in {0, own}
      BY <1>2
    <3>2. Left(kind)' = Left(kind)
      <4>1. CASE last[kind] = own
        BY <1>0, <2>2, <4>1 DEF Left
      <4>2. CASE last[kind] = 0
        <5>1. ASSUME NEW g \in Checked(kind) PROVE FALSE
          <6>1. g \in Blocks /\ Period(kind, g) <= 0
            BY <4>2 DEF Exact, Tracks, Checked
          <6> QED
            BY <6>1, PeriodsGrow
        <5>2. Checked(kind) = {}
          BY <5>1
        <5> QED
          BY <2>2, <5>2 DEF Left
      <4> QED
        BY <3>1, <4>1, <4>2
    <3> QED
      BY <1>0, <3>2 DEF Exact, Listed, Elements, Increasing
  <2>5. ASSUME NEW k \in Kinds \ {kind} PROVE Tracks(k)' /\ (k \in Summaries => Listed(k)')
    <3>1. Tracks(k) /\ (k \in Summaries => Listed(k))
      BY DEF Exact
    <3> QED
      BY <1>0, <2>2, <3>1, OtherKind
  <2> QED
    BY <1>0, <2>2, <2>3, <2>4, <2>5, NotifierAssumption DEF Exact, Kinds
<1> QED
  BY <1>1, <1>2

\* What a goroutine has asked for is the period of the tracker, before its own.
LEMMA AskedBefore ==
  ASSUME JobsOK, Exact, NEW h \in Blocks, NEW kind \in Kinds, jobs[h].pc = kind,
         jobs[h].asking # 0, last[kind] <= Period(kind, h)
  PROVE  /\ jobs[h].asking = last[kind] /\ last[kind] < Period(kind, h) /\ kind \in Summaries
         /\ last[kind] \in Nat /\ last[kind] # 0
<1>1. /\ jobs[h].asking = last[kind] /\ last[kind] # Period(kind, h) /\ kind \in Summaries
  BY DEF Exact, Asking
<1>2. last[kind] \in Nat /\ Period(kind, h) \in Nat
  BY PeriodType DEF JobsOK
<1> QED
  BY <1>1, <1>2

LEMMA SummarizeExact ==
  ASSUME JobsOK, Exact, NEW h \in Blocks, NEW kind \in Kinds, Summarize(h, kind)
  PROVE  Exact'
<1> DEFINE own == Period(kind, h)
           was == last[kind]
<1>0. /\ jobs[h].pc = kind /\ jobs[h].asking # 0 /\ unread' = unread
      /\ jobs' = Advanced(h, kind) /\ last' = [last EXCEPT ![kind] = own]
      /\ summarized' = [summarized EXCEPT ![kind] = Append(summarized[kind], jobs[h].asking)]
      /\ early' = early \cup ({jobs[h].asking} \X Missing(kind, jobs[h].asking))
  BY DEF Summarize
<1>1. /\ InTurn' /\ Asking'
      /\ Checked(kind)' = Checked(kind) \cup {h} /\ last'[kind] = own /\ was <= own
      /\ \A k \in Kinds \ {kind} : Checked(k)' = Checked(k) /\ last'[k] = last[k]
  BY <1>0, CheckOver
<1>2. jobs[h].asking = was /\ was < own /\ kind \in Summaries /\ was \in Nat /\ was # 0
  BY <1>0, <1>1, AskedBefore
<1>3. Tracks(kind)'
  <2>1. \A p : <<kind, p>> \in unread' => <<kind, p>> \in unread \/ p = was
    BY <1>0
  <2> QED
    BY <1>0, <1>2, <2>1, TracksOn
<1>4. Listed(kind)'
  <2>1. Listed(kind) /\ Tracks(kind) /\ summarized[kind] \in Seq(Nat)
    BY <1>2 DEF Exact, JobsOK
  <2>2. summarized'[kind] = Append(summarized[kind], was)
    BY <1>0, <1>2 DEF JobsOK
  <2>3. \A y \in Elements(summarized[kind]) : y < was
    <3> SUFFICES ASSUME NEW y \in Left(kind) PROVE y < was
      BY <2>1 DEF Listed
    <3>1. PICK g \in Checked(kind) : y = Period(kind, g)
      BY DEF Left
    <3>2. y <= was /\ y # was
      BY <2>1, <3>1 DEF Tracks, Left
    <3>3. y \in Nat
      BY <3>1, PeriodType DEF Checked
    <3> QED
      BY <1>2, <3>2, <3>3
  <2>4. /\ Elements(summarized'[kind]) = Left(kind) \cup {was}
        /\ Increasing(summarized'[kind])
    BY <1>2, <2>1, <2>2, <2>3, AppendElements DEF Listed
  <2>5. Left(kind)' = Left(kind) \cup {was}
    <3>1. \A g \in Checked(kind) : Period(kind, g) # own
      <4>1. \A g \in Checked(kind) : Period(kind, g) <= was /\ Period(kind, g) \in Nat
        BY <2>1, PeriodType DEF Tracks, Checked
      <4>2. own \in Nat
        BY PeriodType
      <4> QED
        BY <1>2, <4>1, <4>2
    <3>2. \E g \in Checked(kind) : Period(kind, g) = was
      BY <1>2, <2>1 DEF Tracks
    <3>3. <<kind, was>> \notin unread
      BY <1>2, <2>1 DEF Tracks
    <3> QED
      BY <1>0, <1>1, <3>1, <3>2, <3>3 DEF Left
  <2> QED
    BY <2>4, <2>5 DEF Listed, Elements, Increasing
<1>5. early' = {}
  <2>1. ASSUME NEW g \in Missing(kind, was) PROVE FALSE
    <3>1. g \in Blocks /\ g \notin Processed /\ Period(kind, g) = was
      BY DEF Missing
    <3>2. h \in Processed /\ g # h
      BY <1>0, <3>1 DEF Processed, Kinds
    <3>3. ~(g < h) /\ g \in Nat /\ h \in Nat
      BY <3>1, <3>2, NotifierAssumption DEF Exact, InTurn
    <3>4. own <= Period(kind, g)
      BY <3>1, <3>3, PeriodsGrow
    <3> QED
      BY <1>2, <3>1, <3>4, PeriodType
  <2> QED
    BY <1>0, <1>2, <2>1 DEF Exact
<1>6. ASSUME NEW k \in Kinds \ {kind} PROVE Tracks(k)' /\ (k \in Summaries => Listed(k)')
  <2>1. Tracks(k) /\ (k \in Summaries => Listed(k))
    BY DEF Exact
  <2>2. summarized'[k] = summarized[k]
    BY <1>0 DEF JobsOK
  <2> QED
    BY <1>0, <1>1, <2>1, <2>2, OtherKind
<1> QED
  BY <1>1, <1>3, <1>4, <1>5, <1>6, NotifierAssumption DEF Exact, Kinds

LEMMA UnreadExact ==
  ASSUME JobsOK, Exact, NEW h \in Blocks, NEW kind \in Kinds, SummaryUnread(h, kind)
  PROVE  Exact'
<1> DEFINE own == Period(kind, h)
           was == last[kind]
<1>0. /\ jobs[h].pc = kind /\ jobs[h].asking # 0
      /\ unread' = unread \cup {<<kind, jobs[h].asking>>}
      /\ jobs' = Advanced(h, kind) /\ last' = [last EXCEPT ![kind] = own]
      /\ UNCHANGED <<summarized, early>>
  BY DEF SummaryUnread
<1>1. /\ InTurn' /\ Asking'
      /\ Checked(kind)' = Checked(kind) \cup {h} /\ last'[kind] = own /\ was <= own
      /\ \A k \in Kinds \ {kind} : Checked(k)' = Checked(k) /\ last'[k] = last[k]
  BY <1>0, CheckOver
<1>2. jobs[h].asking = was /\ was < own /\ kind \in Summaries /\ was \in Nat /\ was # 0
  BY <1>0, <1>1, AskedBefore
<1>3. Tracks(kind)'
  <2>1. \A p : <<kind, p>> \in unread' => <<kind, p>> \in unread \/ p = was
    BY <1>0, <1>2
  <2> QED
    BY <1>0, <1>2, <2>1, TracksOn
<1>4. Listed(kind)'
  <2>1. Listed(kind) /\ Tracks(kind)
    BY <1>2 DEF Exact
  <2>2. \A g \in Checked(kind) : Period(kind, g) # own
    <3>1. \A g \in Checked(kind) : Period(kind, g) <= was /\ Period(kind, g) \in Nat
      BY <2>1, PeriodType DEF Tracks, Checked
    <3>2. own \in Nat
      BY PeriodType
    <3> QED
      BY <1>2, <3>1, <3>2
  <2>3. \A p : <<kind, p>> \in unread' <=> <<kind, p>> \in unread \/ p = was
    BY <1>0, <1>2
  <2>4. Left(kind)' = Left(kind)
    BY <1>1, <2>2, <2>3 DEF Left
  <2> QED
    BY <1>0, <2>1, <2>4 DEF Listed, Elements, Increasing
<1>5. ASSUME NEW k \in Kinds \ {kind} PROVE Tracks(k)' /\ (k \in Summaries => Listed(k)')
  <2>1. Tracks(k) /\ (k \in Summaries => Listed(k))
    BY DEF Exact
  <2>2. \A p : <<k, p>> \in unread' <=> <<k, p>> \in unread
    BY <1>0
  <2> QED
    BY <1>0, <1>1, <2>1, <2>2, OtherKind
<1> QED
  BY <1>0, <1>1, <1>3, <1>4, <1>5, NotifierAssumption DEF Exact, Kinds

\* A goroutine queues the embeds of its block and returns.
LEMMA RestExact ==
  ASSUME JobsOK, Exact, NEW h \in Blocks, EnqueueBlock(h) \/ NotifyReturns(h)
  PROVE  Exact'
<1>i. InTurn /\ Asking
  BY DEF Exact
<1>0. jobs[h].pc = "enqueue" /\ UNCHANGED <<last, summarized, early, unread>>
  BY DEF EnqueueBlock, NotifyReturns
<1>1. /\ jobs'[h].pc \in {"enqueue", "done"} /\ jobs'[h].asking = jobs[h].asking
      /\ \A g \in Blocks : g # h => jobs'[g] = jobs[g]
  BY <1>0 DEF EnqueueBlock, NotifyReturns, JobsOK, Jobs
<1>2. \A g \in Blocks : (Active(g)' => Active(g)) /\ (g \in Processed' <=> g \in Processed)
  BY <1>0, <1>1 DEF Active, Processed
<1>3. InTurn'
  BY <1>i, <1>2 DEF InTurn
<1>4. Asking'
  BY <1>i, <1>0, <1>1 DEF Asking, Kinds
<1>5. \A kind \in Kinds : Checked(kind)' = Checked(kind)
  BY <1>0, <1>1 DEF Checked, Past
<1> QED
  BY <1>0, <1>3, <1>4, <1>5, ExactKept

LEMMA NextExact ==
  ASSUME MaxConcurrent = 1, ~CatchUp
  PROVE  JobsOK /\ Exact /\ [Next]_vars => Exact'
<1> SUFFICES ASSUME JobsOK, Exact, [Next]_vars PROVE Exact'
  OBVIOUS
<1>k. ASSUME UNCHANGED jobVars PROVE Exact'
  <2>1. InTurn' /\ Asking'
    BY <1>k DEF jobVars, Exact, InTurn, Asking, Active, Processed
  <2>2. \A kind \in Kinds : Checked(kind)' = Checked(kind)
    BY <1>k DEF jobVars, Checked
  <2> QED
    BY <1>k, <2>1, <2>2, ExactKept DEF jobVars
<1>1. ASSUME NEW h \in Blocks, Process(h) \/ NotifyNext(h) PROVE Exact'
  BY <1>1, ProcessExact, RestExact, CheckExact, SummarizeExact, UnreadExact DEF NotifyNext
<1>2. CASE Cancel \/ Stop \/ DrainExpires \/ UNCHANGED vars
  BY <1>2, <1>k DEF Cancel, Stop, DrainExpires, vars
<1>3. CASE SenderNext
  BY <1>3, <1>k DEF SenderNext, Take, PostOK, PostFails, RateLimited, RetryElapsed, ContextDone,
                    StopReceived, DrainEnds
<1> QED
  BY <1>1, <1>2, <1>3 DEF Next, Stopped

\* With one NotifyBlock goroutine at a time and blocks in chain order, checkSummaryBoundary
\* makes exactly one summary of each hour and day that has ended, in order and after its
\* last block, unless it could not be read: whatever the blocks, the silent ones among
\* them and the lengths of hour and day.
THEOREM SummariesHold == Spec => []SummariesExact
<1>1. CASE MaxConcurrent = 1 /\ ~CatchUp
  <2>1. Exact => SummariesExact
    <3> SUFFICES ASSUME Exact, NEW kind \in Summaries
                 PROVE  /\ early = {} /\ Increasing(summarized[kind])
                        /\ (\A h \in Blocks : jobs[h].pc \in {"idle", "enqueue", "done"}) =>
                             Elements(summarized[kind])
                             = {p \in {Period(kind, h) : h \in Processed \ QuietBlocks} :
                                  p # last[kind] /\ <<kind, p>> \notin unread}
      BY DEF SummariesExact, Elements, Exact
    <3>1. (\A h \in Blocks : jobs[h].pc \in {"idle", "enqueue", "done"}) =>
            Checked(kind) = Processed \ QuietBlocks
      BY DEF Checked, Past, Processed
    <3> QED
      BY <3>1 DEF Exact, Listed, Left
  <2>2. JobsOK /\ Exact /\ [Next]_vars => Exact'
    BY <1>1, NextExact
  <2> QED
    BY <2>1, <2>2, InitExact, InitJobs, NextJobs, PTL DEF Spec
<1>2. CASE ~(MaxConcurrent = 1 /\ ~CatchUp)
  <2>1. SummariesExact
    BY <1>2 DEF SummariesExact
  <2> QED
    BY <2>1, PTL
<1> QED
  BY <1>1, <1>2

=============================================================================
