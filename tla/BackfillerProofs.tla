-------------------------- MODULE BackfillerProofs ---------------------------
(***************************************************************************)
(* Proofs about the backfiller, for every chain, number of gaps and of     *)
(* retries, and every value of --from: its variables keep their types and  *)
(* its loops their ranges, a backfill that completes has stored its whole  *)
(* range, and the startup backfill closes the gap it found.                *)
(***************************************************************************)
EXTENDS Backfiller, SequenceTheorems, WellFoundedInduction, TLAPS

-----------------------------------------------------------------------------
(* Facts about the operators.                                              *)

\* What the provers need most often of the constants.
LEMMA Numbers == MaxHeight \in Nat /\ MaxHeight > 0 /\ Retries \in Nat
BY BackfillerAssumption

\* The natural numbers, as pairs in their order.
Below == {ss \in Nat \X Nat : ss[1] < ss[2]}

\* A nonempty set of heights has a greatest one.
LEMMA Greatest ==
  ASSUME NEW db \in SUBSET Heights, db # {}
  PROVE  \E m \in db : \A h \in db : h <= m
<1> USE Numbers DEF Heights
<1> DEFINE T == {MaxHeight - h : h \in db}
<1>1. T \subseteq Nat /\ T # {}
  <2>1. \A h \in db : MaxHeight - h \in Nat
    OBVIOUS
  <2> QED
    BY <2>1
<1>2. IsWellFoundedOn(Below, Nat)
  BY NatLessThanWellFounded DEF Below, OpToRel
<1>3. PICK x \in T : \A y \in T : ~(<<y, x>> \in Below)
  <2> HIDE DEF T
  <2> QED
    BY <1>1, <1>2, WFMin
<1>4. \A y \in T : ~(y < x)
  <2> SUFFICES ASSUME NEW y \in T, y < x PROVE FALSE
    OBVIOUS
  <2>1. y \in Nat /\ x \in Nat
    BY <1>1
  <2>2. <<y, x>> \in Nat \X Nat
    BY <2>1
  <2>3. <<y, x>> \in Below
    BY <2>2 DEF Below
  <2> QED
    BY <1>3, <2>3
<1>5. PICK m \in db : x = MaxHeight - m
  OBVIOUS
<1>6. \A h \in db : h <= m
  <2> SUFFICES ASSUME NEW h \in db PROVE h <= m
    OBVIOUS
  <2>1. MaxHeight - h \in T
    OBVIOUS
  <2>2. ~(MaxHeight - h < MaxHeight - m)
    BY <1>4, <1>5, <2>1
  <2>3. h \in Nat /\ m \in Nat /\ MaxHeight \in Nat
    OBVIOUS
  <2> QED
    BY <2>2, <2>3
<1> QED
  BY <1>6

\* The watermark is 0 or a height in the database.
LEMMA Watermark ==
  ASSUME NEW db \in SUBSET Heights
  PROVE  LastProcessedHeight(db) \in 0..MaxHeight
<1> USE Numbers DEF Heights
<1>1. CASE db = {}
  BY <1>1 DEF LastProcessedHeight
<1>2. CASE db # {}
  <2>1. PICK m \in db : \A h \in db : h <= m
    BY <1>2, Greatest
  <2>2. m \in db /\ \A h \in db : m >= h
    BY <2>1
  <2>3. \E x \in db : \A h \in db : x >= h
    BY <2>2
  <2>4. (CHOOSE x \in db : \A h \in db : x >= h) \in db
    <3> HIDE DEF Heights
    <3> QED
      BY <2>3, Zenon
  <2>5. Max(db) \in db
    BY <2>4 DEF Max
  <2>6. Max(db) \in 0..MaxHeight
    <3>1. db \subseteq 0..MaxHeight
      OBVIOUS
    <3> HIDE DEF Heights
    <3> QED
      BY <2>5, <3>1, Zenon
  <2> QED
    BY <1>2, <2>6 DEF LastProcessedHeight
<1> QED
  BY <1>1, <1>2

\* The startup backfill begins at a height, or right above the whole chain.
LEMMA Start ==
  ASSUME NEW last \in 0..MaxHeight, NEW requested \in RequestedFroms
  PROVE  FromHeight(last, requested) \in 1..MaxHeight + 1
BY BackfillerAssumption DEF FromHeight

\* One goroutine changes; the others, and their number, stay.
LEMMA OneTask ==
  ASSUME NEW ts \in Seq(Task), NEW i \in 1..Len(ts), NEW t \in Task
  PROVE  /\ [ts EXCEPT ![i] = t] \in Seq(Task)
         /\ Len([ts EXCEPT ![i] = t]) = Len(ts)
         /\ [ts EXCEPT ![i] = t][i] = t
         /\ \A j \in 1..Len(ts) : j # i => [ts EXCEPT ![i] = t][j] = ts[j]
BY ExceptSeq

\* The bounds of a goroutine's range, and of where it is.
LEMMA TaskFields ==
  ASSUME NEW t \in Task
  PROVE  /\ t.from \in Heights /\ t.to \in Heights /\ t.next \in 1..MaxHeight + 1
         /\ t.from \in Int /\ 1 <= t.from /\ t.to \in Int /\ t.to <= MaxHeight
         /\ t.next \in Int /\ 1 <= t.next /\ t.attempt \in 0..Retries
<1>1. /\ t.from \in Heights /\ t.to \in Heights
      /\ t.next \in 1..MaxHeight + 1 /\ t.attempt \in 0..Retries
  BY DEF Task
<1> QED
  BY <1>1, Numbers DEF Heights

-----------------------------------------------------------------------------
(* The inductive invariant.                                                *)

\* The startup backfill has stored what is behind it, began where it should, and
\* has looked for nothing yet before it decides.
StartupProgress ==
  /\ startup.phase \in {"begin", "status"} => startup.to = 0
  /\ startup.phase = "done" => startup.next > startup.to
  /\ startup.to > 0 => startup.from = FromHeight(startup.last, startup.requested)
  /\ \A h \in Heights : startup.from <= h /\ h < startup.next => h \in stored

\* So has every gap recovery.
TaskProgress ==
  \A i \in 1..Len(tasks) :
    /\ tasks[i].status = "done" => tasks[i].next > tasks[i].to
    /\ \A h \in Heights : tasks[i].from <= h /\ h < tasks[i].next => h \in stored

\* A reported gap is a range.
GapRanges == \A i \in 1..Len(gaps) : gaps[i].from <= gaps[i].to

IInv == TypeOK /\ StartupProgress /\ TaskProgress /\ GapRanges

StartupType ==
  [phase : StartupPhases, requested : RequestedFroms, last : 0..MaxHeight,
   from : 1..MaxHeight + 1, to : 0..MaxHeight, next : 1..MaxHeight + 1, attempt : 0..Retries]

\* What a process begins with, on whatever chain and database it finds.
Fresh ==
  /\ chain \in Heights /\ stored \subseteq Heights
  /\ gaps = <<>> /\ tasks = <<>> /\ canceled = FALSE /\ remaining = 0
  /\ liveCounted = [h \in Heights |-> 0]
  /\ \E r \in RequestedFroms :
       startup = [phase |-> "begin", requested |-> r, last |-> 0, from |-> 1,
                  to |-> 0, next |-> 1, attempt |-> 0]

\* It has nothing behind it.
LEMMA FreshIInv == Fresh => IInv
<1> SUFFICES ASSUME Fresh PROVE IInv
  OBVIOUS
<1>1. TypeOK
  <2>1. /\ gaps \in Seq([from : Heights, to : Heights]) /\ tasks \in Seq(Task)
        /\ Len(tasks) <= Len(gaps)
    BY EmptySeq DEF Fresh
  <2>2. startup \in StartupType
    <3>1. /\ "begin" \in StartupPhases /\ 0 \in 0..MaxHeight /\ 1 \in 1..MaxHeight + 1
          /\ 0 \in 0..Retries
      BY Numbers DEF StartupPhases
    <3> QED
      BY <3>1 DEF Fresh, StartupType
  <2>3. liveCounted \in [Heights -> Nat]
    BY DEF Fresh
  <2>4. canceled \in BOOLEAN
    BY Zenon DEF Fresh
  <2>5. remaining \in 0..MaxHeight
    BY Numbers DEF Fresh
  <2> QED
    BY <2>1, <2>2, <2>3, <2>4, <2>5 DEF Fresh, TypeOK, StartupType
<1>2. StartupProgress
  BY Numbers DEF Fresh, StartupProgress, Heights
<1>3. TaskProgress /\ GapRanges
  BY EmptySeq DEF Fresh, TaskProgress, GapRanges
<1> QED
  BY <1>1, <1>2, <1>3 DEF IInv

LEMMA InitIInv == Init => IInv
<1> SUFFICES ASSUME Init PROVE Fresh
  BY FreshIInv
<1>1. chain \in Heights /\ stored \subseteq Heights
  BY Numbers DEF Init, Heights
<1>2. PICK r \in RequestedFroms :
        startup = [phase |-> "begin", requested |-> r, last |-> 0, from |-> 1,
                   to |-> 0, next |-> 1, attempt |-> 0]
  BY DEF Init
<1> QED
  BY <1>1, <1>2 DEF Init, Fresh

\* What an action that leaves the gaps and their goroutines alone has to keep.
LEMMA StartupStep ==
  ASSUME IInv, UNCHANGED <<gaps, tasks>>, chain' \in Heights, canceled' \in BOOLEAN,
         liveCounted' \in [Heights -> Nat], remaining' \in 0..MaxHeight,
         stored' \subseteq Heights, stored \subseteq stored',
         startup' \in StartupType, StartupProgress'
  PROVE  IInv'
<1>1. TypeOK'
  BY DEF IInv, TypeOK, StartupType
<1>2. TaskProgress' /\ GapRanges'
  BY DEF IInv, TaskProgress, GapRanges
<1> QED
  BY <1>1, <1>2 DEF IInv

\* What goroutine i has to keep when it goes on as t.
LEMMA TaskStep ==
  ASSUME IInv, UNCHANGED <<chain, gaps, canceled, startup>>,
         liveCounted' \in [Heights -> Nat], remaining' \in 0..MaxHeight,
         stored' \subseteq Heights, stored \subseteq stored',
         NEW i \in 1..Len(tasks), NEW t \in Task, tasks' = [tasks EXCEPT ![i] = t],
         t.status = "done" => t.next > t.to,
         \A h \in Heights : t.from <= h /\ h < t.next => h \in stored'
  PROVE  IInv'
<1>1. /\ tasks' \in Seq(Task) /\ Len(tasks') = Len(tasks) /\ tasks'[i] = t
      /\ \A j \in 1..Len(tasks) : j # i => tasks'[j] = tasks[j]
  BY OneTask DEF IInv, TypeOK
<1>2. TypeOK'
  BY <1>1 DEF IInv, TypeOK
<1>3. StartupProgress'
  BY DEF IInv, StartupProgress
<1>4. TaskProgress'
  BY <1>1 DEF IInv, TaskProgress
<1>5. GapRanges'
  BY DEF IInv, GapRanges
<1> QED
  BY <1>2, <1>3, <1>4, <1>5 DEF IInv

\* ProcessBlock adds a height and counts it at most once.
LEMMA Processed ==
  ASSUME TypeOK, NEW h \in Heights, NEW isLive \in BOOLEAN, Process(h, isLive)
  PROVE  /\ stored' = stored \cup {h} /\ stored' \subseteq Heights
         /\ liveCounted' \in [Heights -> Nat]
<1>1. liveCounted[h] + (IF isLive THEN 1 ELSE 0) \in Nat
  BY DEF TypeOK
<1> QED
  BY <1>1 DEF TypeOK, Process

-----------------------------------------------------------------------------
(* The steps.                                                              *)

\* RunIfNeeded keeps the invariant.
LEMMA StartupKeeps == IInv /\ StartupNext => IInv'
<1> SUFFICES ASSUME IInv, StartupNext PROVE IInv'
  OBVIOUS
<1>t. /\ TypeOK /\ startup \in StartupType /\ chain \in Heights /\ canceled \in BOOLEAN
      /\ liveCounted \in [Heights -> Nat] /\ remaining \in 0..MaxHeight /\ stored \subseteq Heights
  BY DEF IInv, TypeOK, StartupType
<1>p. StartupProgress
  BY DEF IInv
<1>1. ASSUME StartupError PROVE IInv'
  <2>1. startup' \in StartupType
    BY <1>t, <1>1 DEF StartupError, StartupType, StartupPhases
  <2>2. StartupProgress'
    BY <1>t, <1>p, <1>1 DEF StartupError, StartupType, StartupProgress
  <2> QED
    BY <1>t, <1>1, <2>1, <2>2, StartupStep DEF StartupError
<1>2. CASE StartupReadLast
  <2>1. LastProcessedHeight(stored) \in 0..MaxHeight
    BY <1>t, Watermark
  <2>2. startup' \in StartupType
    BY <1>t, <1>2, <2>1 DEF StartupReadLast, StartupType, StartupPhases
  <2>3. StartupProgress'
    BY <1>t, <1>p, <1>2 DEF StartupReadLast, StartupType, StartupProgress
  <2> QED
    BY <1>t, <1>2, <2>2, <2>3, StartupStep DEF StartupReadLast
<1>3. CASE StartupDecide
  <2> DEFINE from == FromHeight(startup.last, startup.requested)
  <2>1. from \in 1..MaxHeight + 1
    BY <1>t, Start DEF StartupType
  <2>2. CASE FirstRun(startup.last, startup.requested)
    <3>1. startup' \in StartupType /\ StartupProgress'
      BY <1>t, <1>p, <1>3, <2>2, Numbers
         DEF StartupDecide, StartupType, StartupPhases, StartupProgress
    <3> QED
      BY <1>t, <1>3, <2>2, <3>1, StartupStep DEF StartupDecide
  <2>3. CASE ~FirstRun(startup.last, startup.requested)
    <3> DEFINE phase == IF from <= chain THEN "running" ELSE "done"
    <3>1. /\ startup' = [startup EXCEPT !.from = from, !.to = chain, !.next = from, !.phase = phase]
          /\ remaining' = IF from <= chain THEN chain - from + 1 ELSE remaining
      BY <1>3, <2>3 DEF StartupDecide
    <3>2. phase \in StartupPhases
      BY DEF StartupPhases
    <3> HIDE DEF from
    <3>3. remaining' \in 0..MaxHeight
      BY <1>t, <2>1, <3>1, Numbers DEF Heights
    <3>4. chain \in 0..MaxHeight
      BY <1>t, Numbers DEF Heights
    <3>5. startup' \in StartupType
      <4> HIDE DEF phase
      <4> QED
        BY <1>t, <2>1, <3>1, <3>2, <3>4 DEF StartupType
    <3>6. /\ startup'.phase = phase /\ startup'.from = from /\ startup'.to = chain
          /\ startup'.next = from /\ startup'.last = startup.last
          /\ startup'.requested = startup.requested
      <4> HIDE DEF phase
      <4> QED
        BY <1>t, <3>1 DEF StartupType
    <3>7. StartupProgress'
      <4>1. startup'.phase \notin {"begin", "status"} /\ (startup'.phase = "done" => from > chain)
        BY <2>1, <3>4, <3>6, Numbers
      <4>2. startup'.from = FromHeight(startup'.last, startup'.requested)
        BY <3>6 DEF from
      <4>3. \A h \in Heights : ~(startup'.from <= h /\ h < startup'.next)
        BY <2>1, <3>6, Numbers DEF Heights
      <4> QED
        BY <3>6, <4>1, <4>2, <4>3 DEF StartupProgress
    <3> QED
      BY <1>t, <1>3, <3>3, <3>5, <3>7, StartupStep DEF StartupDecide
  <2> QED
    BY <2>2, <2>3
<1>4. CASE StartupFetchFails
  <2>1. CASE StartupError
    BY <1>1, <2>1
  <2>2. CASE ~StartupError
    <3>1. startup' \in StartupType /\ StartupProgress'
      BY <1>t, <1>p, <1>4, <2>2, Numbers
         DEF StartupFetchFails, StartupType, StartupProgress
    <3> QED
      BY <1>t, <1>4, <2>2, <3>1, StartupStep DEF StartupFetchFails
  <2> QED
    BY <2>1, <2>2
<1>5. CASE StartupBlock
  <2>1. startup.next \in Heights /\ startup.next <= startup.to
    BY <1>t, <1>5, Numbers DEF StartupBlock, StartupType, Heights
  <2>2. /\ stored' = stored \cup {startup.next} /\ stored' \subseteq Heights
        /\ liveCounted' \in [Heights -> Nat]
    BY <1>t, <1>5, <2>1, Processed DEF StartupBlock
  <2>3. startup' = [startup EXCEPT !.next = startup.next + 1, !.attempt = 0]
    BY <1>5 DEF StartupBlock
  <2>4. startup' \in StartupType
    <3>1. startup.next + 1 \in 1..MaxHeight + 1 /\ 0 \in 0..Retries
      BY <2>1, Numbers DEF Heights
    <3> QED
      BY <1>t, <2>3, <3>1 DEF StartupType
  <2>5. StartupProgress'
    BY <1>t, <1>p, <1>5, <2>1, <2>2, <2>3, Numbers
       DEF StartupBlock, StartupType, StartupProgress, Heights
  <2>6. remaining' \in 0..MaxHeight
    BY <1>t, <1>5, <2>1, Numbers DEF StartupBlock, StartupType, Heights
  <2> QED
    BY <1>t, <1>5, <2>2, <2>4, <2>5, <2>6, StartupStep DEF StartupBlock
<1>6. CASE StartupCanceled
  <2>1. startup' \in StartupType /\ StartupProgress'
    BY <1>t, <1>p, <1>6 DEF StartupCanceled, StartupType, StartupPhases, StartupProgress
  <2> QED
    BY <1>t, <1>6, <2>1, StartupStep DEF StartupCanceled
<1>7. CASE StartupDone
  <2>1. startup' \in StartupType /\ StartupProgress'
    BY <1>t, <1>p, <1>7 DEF StartupDone, StartupType, StartupPhases, StartupProgress
  <2>2. remaining' \in 0..MaxHeight
    BY <1>7, Numbers DEF StartupDone
  <2> QED
    BY <1>t, <1>7, <2>1, <2>2, StartupStep DEF StartupDone
<1> QED
  BY <1>1, <1>2, <1>3, <1>4, <1>5, <1>6, <1>7
     DEF StartupNext, StartupFails, StartupProcessFails

\* BackfillRange keeps the invariant.
LEMMA RangeKeeps ==
  ASSUME IInv, NEW i \in 1..Len(tasks), RangeNext(i)
  PROVE  IInv'
<1>s. /\ TypeOK /\ tasks \in Seq(Task)
      /\ liveCounted \in [Heights -> Nat] /\ remaining \in 0..MaxHeight /\ stored \subseteq Heights
  BY DEF IInv, TypeOK
<1>t. /\ TypeOK /\ tasks[i] \in Task /\ tasks \in Seq(Task)
      /\ liveCounted \in [Heights -> Nat] /\ remaining \in 0..MaxHeight /\ stored \subseteq Heights
  BY <1>s, ElementOfSeq
<1>f. /\ tasks[i].from \in Int /\ 1 <= tasks[i].from /\ tasks[i].to \in Int
      /\ tasks[i].to <= MaxHeight /\ tasks[i].next \in Int /\ 1 <= tasks[i].next
      /\ tasks[i].attempt \in 0..Retries
  BY <1>t, TaskFields
<1>p. /\ tasks[i].status = "done" => tasks[i].next > tasks[i].to
      /\ \A h \in Heights : tasks[i].from <= h /\ h < tasks[i].next => h \in stored
  BY DEF IInv, TaskProgress
<1>1. ASSUME RangeAbandon(i) PROVE IInv'
  <2> DEFINE t == [tasks[i] EXCEPT !.status = "abandoned"]
  <2>1. tasks' = [tasks EXCEPT ![i] = t]
    BY <1>1 DEF RangeAbandon
  <2>2. t \in Task /\ t.status # "done" /\ t.from = tasks[i].from /\ t.next = tasks[i].next
    BY <1>t DEF Task
  <2>3. remaining' \in 0..MaxHeight
    BY <1>1, Numbers DEF RangeAbandon
  <2> HIDE DEF t
  <2> QED
    BY <1>t, <1>p, <1>1, <2>1, <2>2, <2>3, TaskStep DEF RangeAbandon
<1>2. CASE RangeFetchFails(i)
  <2>1. CASE RangeAbandon(i)
    BY <1>1, <2>1
  <2>2. CASE ~RangeAbandon(i)
    <3> DEFINE t == [tasks[i] EXCEPT !.attempt = tasks[i].attempt + 1]
    <3>1. tasks' = [tasks EXCEPT ![i] = t] /\ tasks[i].attempt < Retries
      BY <1>2, <2>2 DEF RangeFetchFails
    <3>2. /\ t \in Task /\ t.status = tasks[i].status /\ t.from = tasks[i].from
          /\ t.to = tasks[i].to /\ t.next = tasks[i].next
      <4>1. tasks[i].attempt + 1 \in 0..Retries
        BY <1>f, <3>1, Numbers
      <4> QED
        BY <1>t, <4>1 DEF Task
    <3> HIDE DEF t
    <3> QED
      BY <1>t, <1>p, <1>2, <2>2, <3>1, <3>2, TaskStep DEF RangeFetchFails
  <2> QED
    BY <2>1, <2>2
<1>3. CASE RangeBlock(i)
  <2> DEFINE t == [tasks[i] EXCEPT !.next = tasks[i].next + 1, !.attempt = 0]
  <2>1. tasks[i].next \in Heights /\ tasks[i].next <= tasks[i].to /\ tasks[i].status = "running"
    BY <1>f, <1>3, Numbers DEF RangeBlock, Running, Heights
  <2>2. PICK isLive \in BOOLEAN : Process(tasks[i].next, isLive)
    BY <1>3, BackfillerAssumption DEF RangeBlock
  <2>3. /\ stored' = stored \cup {tasks[i].next} /\ stored' \subseteq Heights
        /\ liveCounted' \in [Heights -> Nat]
    BY <1>t, <2>1, <2>2, Processed
  <2>4. tasks' = [tasks EXCEPT ![i] = t]
    BY <1>3 DEF RangeBlock
  <2>5. /\ t \in Task /\ t.status = "running" /\ t.from = tasks[i].from
        /\ t.next = tasks[i].next + 1
    <3>1. tasks[i].next + 1 \in 1..MaxHeight + 1 /\ 0 \in 0..Retries
      BY <2>1, Numbers DEF Heights
    <3> QED
      BY <1>t, <2>1, <3>1 DEF Task
  <2>6. \A h \in Heights : t.from <= h /\ h < t.next => h \in stored'
    <3> HIDE DEF t
    <3> SUFFICES ASSUME NEW h \in Heights, t.from <= h, h < t.next PROVE h \in stored'
      OBVIOUS
    <3>1. tasks[i].from <= h /\ h < tasks[i].next + 1 /\ h \in Int
      BY <2>5, Numbers DEF Heights
    <3>2. CASE h = tasks[i].next
      BY <2>3, <3>2
    <3>3. CASE h # tasks[i].next
      <4>1. h < tasks[i].next
        BY <1>f, <3>1, <3>3
      <4> QED
        BY <1>p, <2>3, <3>1, <4>1
    <3> QED
      BY <3>2, <3>3
  <2>7. remaining' \in 0..MaxHeight
    BY <1>f, <1>3, <2>1, Numbers DEF RangeBlock, Heights
  <2> HIDE DEF t
  <2> QED
    BY <1>3, <2>3, <2>4, <2>5, <2>6, <2>7, TaskStep DEF RangeBlock
<1>4. CASE RangeDone(i)
  <2> DEFINE t == [tasks[i] EXCEPT !.status = "done"]
  <2>1. tasks' = [tasks EXCEPT ![i] = t] /\ tasks[i].next > tasks[i].to
    BY <1>4 DEF RangeDone
  <2>2. /\ t \in Task /\ t.from = tasks[i].from /\ t.to = tasks[i].to
        /\ t.next = tasks[i].next
    BY <1>t DEF Task
  <2>3. remaining' \in 0..MaxHeight
    BY <1>4, Numbers DEF RangeDone
  <2> HIDE DEF t
  <2> QED
    BY <1>t, <1>p, <1>4, <2>1, <2>2, <2>3, TaskStep DEF RangeDone
<1> QED
  BY <1>1, <1>2, <1>3, <1>4 DEF RangeNext, RangeNoClient, RangeProcessFails

\* A new goroutine has nothing behind it.
LEMMA RangeStartKeeps == IInv /\ RangeStart => IInv'
<1> SUFFICES ASSUME IInv, RangeStart PROVE IInv'
  OBVIOUS
<1> DEFINE g == gaps[Len(tasks) + 1]
<1> DEFINE t == [from |-> g.from, to |-> g.to, next |-> g.from, attempt |-> 0,
                 status |-> "running"]
<1>1. /\ gaps \in Seq([from : Heights, to : Heights]) /\ tasks \in Seq(Task)
      /\ Len(tasks) < Len(gaps)
  BY DEF IInv, TypeOK, RangeStart
<1>2. Len(tasks) + 1 \in 1..Len(gaps)
  BY <1>1
<1>3. g \in [from : Heights, to : Heights] /\ g.from <= g.to
  <2>1. g \in [from : Heights, to : Heights]
    BY <1>1, <1>2, ElementOfSeq
  <2>2. \A j \in 1..Len(gaps) : gaps[j].from <= gaps[j].to
    BY DEF IInv, GapRanges
  <2> QED
    BY <1>2, <2>1, <2>2
<1>4. tasks' = Append(tasks, t) /\ remaining' = g.to - g.from + 1
  BY DEF RangeStart
<1>5. t \in Task
  <2> HIDE DEF g
  <2> QED
    BY <1>3, Numbers DEF Task, Heights
<1>6. remaining' \in 0..MaxHeight
  <2> HIDE DEF g
  <2> QED
    BY <1>3, <1>4, Numbers DEF Heights
<1>7. t.status = "running" /\ t.next = t.from
  OBVIOUS
<1> HIDE DEF t, g
<1>8. /\ tasks' \in Seq(Task) /\ Len(tasks') = Len(tasks) + 1 /\ tasks'[Len(tasks) + 1] = t
      /\ \A j \in 1..Len(tasks) : tasks'[j] = tasks[j]
  BY <1>1, <1>4, <1>5
<1>9. TypeOK'
  BY <1>1, <1>6, <1>8 DEF IInv, TypeOK, RangeStart
<1>10. StartupProgress' /\ GapRanges'
  BY DEF IInv, StartupProgress, GapRanges, RangeStart
<1>11. TaskProgress'
  <2> SUFFICES ASSUME NEW j \in 1..Len(tasks')
               PROVE  /\ tasks'[j].status = "done" => tasks'[j].next > tasks'[j].to
                      /\ \A h \in Heights :
                              tasks'[j].from <= h /\ h < tasks'[j].next => h \in stored'
    BY DEF TaskProgress
  <2>1. CASE j = Len(tasks) + 1
    BY <1>5, <1>7, <1>8, <2>1, Numbers DEF Task, Heights
  <2>2. CASE j # Len(tasks) + 1
    <3>1. j \in 1..Len(tasks) /\ tasks'[j] = tasks[j]
      BY <1>1, <1>8, <2>2
    <3> QED
      BY <3>1 DEF IInv, TaskProgress, RangeStart
  <2> QED
    BY <2>1, <2>2
<1> QED
  BY <1>9, <1>10, <1>11 DEF IInv

\* So do the chain, the subscriber and the signal handler.
LEMMA OthersKeep ==
  /\ IInv
  /\ Commit \/ Cancel \/ UNCHANGED vars \/ \E from, to \in Heights : ReportGap(from, to)
  => IInv'
<1> SUFFICES ASSUME IInv, \/ Commit \/ Cancel \/ UNCHANGED vars
                          \/ \E from, to \in Heights : ReportGap(from, to)
             PROVE  IInv'
  OBVIOUS
<1>t. /\ TypeOK /\ startup \in StartupType /\ chain \in Heights /\ canceled \in BOOLEAN
      /\ liveCounted \in [Heights -> Nat] /\ remaining \in 0..MaxHeight /\ stored \subseteq Heights
  BY DEF IInv, TypeOK, StartupType
<1>1. ASSUME UNCHANGED <<stored, startup>> PROVE StartupProgress'
  BY <1>1 DEF IInv, StartupProgress
<1>2. CASE Commit
  <2>1. chain' \in Heights
    BY <1>t, <1>2, Numbers DEF Commit, Heights
  <2> QED
    BY <1>t, <1>1, <1>2, <2>1, StartupStep DEF Commit
<1>3. CASE Cancel
  BY <1>t, <1>1, <1>3, StartupStep DEF Cancel
<1>4. CASE UNCHANGED vars
  BY <1>t, <1>1, <1>4, StartupStep DEF vars
<1>5. ASSUME NEW from \in Heights, NEW to \in Heights, ReportGap(from, to)
      PROVE  IInv'
  <2> DEFINE g == [from |-> from, to |-> to]
  <2>1. gaps' = Append(gaps, g) /\ from <= to
    BY <1>5 DEF ReportGap
  <2>2. g \in [from : Heights, to : Heights] /\ g.from = from /\ g.to = to
    OBVIOUS
  <2> HIDE DEF g
  <2>3. /\ gaps' \in Seq([from : Heights, to : Heights]) /\ Len(gaps') = Len(gaps) + 1
        /\ gaps'[Len(gaps) + 1] = g /\ \A j \in 1..Len(gaps) : gaps'[j] = gaps[j]
    BY <2>1, <2>2 DEF IInv, TypeOK
  <2>4. TypeOK'
    BY <1>5, <2>3 DEF IInv, TypeOK, ReportGap
  <2>5. TaskProgress' /\ StartupProgress'
    BY <1>5 DEF IInv, TaskProgress, StartupProgress, ReportGap
  <2>6. GapRanges'
    <3> SUFFICES ASSUME NEW j \in 1..Len(gaps') PROVE gaps'[j].from <= gaps'[j].to
      BY DEF GapRanges
    <3>1. CASE j = Len(gaps) + 1
      BY <2>1, <2>2, <2>3, <3>1
    <3>2. CASE j # Len(gaps) + 1
      <4>1. j \in 1..Len(gaps)
        BY <2>3, <3>2 DEF IInv, TypeOK
      <4> QED
        BY <2>3, <4>1 DEF IInv, GapRanges
    <3> QED
      BY <3>1, <3>2
  <2> QED
    BY <2>4, <2>5, <2>6 DEF IInv
<1> QED
  BY <1>2, <1>3, <1>4, <1>5

LEMMA NextIInv == IInv /\ [Next]_vars => IInv'
BY StartupKeeps, RangeKeeps, RangeStartKeeps, OthersKeep DEF Next, BackfillNext, Idle

LEMMA SpecIInv == Spec => []IInv
BY InitIInv, NextIInv, PTL DEF Spec

-----------------------------------------------------------------------------
(* The theorems.                                                           *)

\* Every variable keeps its type: RunIfNeeded and BackfillRange (backfiller.go)
\* never fetch a height outside their range or more than Retries + 1 times.
THEOREM TypeCorrect == Spec => []TypeOK
BY SpecIInv, PTL DEF IInv

\* RunIfNeeded and BackfillRange return without an error only with every height of
\* their range in the database.
THEOREM CompleteHolds == Spec => []CompleteMeansStored
<1>1. IInv => CompleteMeansStored
  <2> SUFFICES ASSUME IInv PROVE CompleteMeansStored
    OBVIOUS
  <2>1. ASSUME startup.phase = "done", NEW h \in (startup.from)..(startup.to)
        PROVE  h \in stored
    <3>1. startup \in StartupType /\ StartupProgress
      BY DEF IInv, TypeOK, StartupType
    <3>2. h \in Heights /\ startup.from <= h /\ h < startup.next
      BY <2>1, <3>1, Numbers DEF StartupType, StartupProgress, Heights
    <3> QED
      BY <3>1, <3>2 DEF StartupProgress
  <2>2. ASSUME NEW i \in 1..Len(tasks), tasks[i].status = "done",
               NEW h \in (tasks[i].from)..(tasks[i].to)
        PROVE  h \in stored
    <3>1. tasks[i] \in Task
      BY <2>2, ElementOfSeq DEF IInv, TypeOK
    <3>2. tasks[i].next > tasks[i].to
      BY <2>2 DEF IInv, TaskProgress
    <3>3. h \in Heights /\ tasks[i].from <= h /\ h < tasks[i].next
      BY <2>2, <3>1, <3>2, TaskFields, Numbers DEF Heights
    <3> QED
      BY <2>2, <3>3 DEF IInv, TaskProgress
  <2> QED
    BY <2>1, <2>2 DEF CompleteMeansStored
<1> QED
  BY <1>1, SpecIInv, PTL

\* A startup backfill that ends has closed the gap between the database and the
\* node, whatever --from says and whatever is stored beside it.
THEOREM StartupClosesHolds == Spec => []StartupClosesGap
<1>1. IInv => StartupClosesGap
  <2> SUFFICES ASSUME IInv, startup.phase = "done", startup.to > 0,
                      NEW h \in (startup.last + 1)..(startup.to),
                      startup.last > 0 \/ h >= startup.requested
               PROVE  h \in stored
    BY DEF StartupClosesGap
  <2>1. startup \in StartupType /\ StartupProgress
    BY DEF IInv, TypeOK, StartupType
  <2>2. startup.from = FromHeight(startup.last, startup.requested) /\ startup.next > startup.to
    BY <2>1 DEF StartupProgress
  <2>3. startup.from <= h
    BY <2>1, <2>2, BackfillerAssumption DEF StartupType, FromHeight
  <2>4. h \in Heights /\ h < startup.next
    BY <2>1, <2>2, Numbers DEF StartupType, Heights
  <2> QED
    BY <2>1, <2>3, <2>4 DEF StartupProgress
<1> QED
  BY <1>1, SpecIInv, PTL

=============================================================================
