------------------------ MODULE BackfillCommandProofs ------------------------
(***************************************************************************)
(* Proofs about the two things the backfill command rests on.  Of the      *)
(* height resolver, for every chain: the binary search for --from and --to *)
(* stays within the chain and finds the first block at or after its        *)
(* target, while the node prunes blocks and commits new ones.  Of the      *)
(* retention cleanup, for every retention period, length of the day and    *)
(* time zone, unless one is named: what it leaves in the raw tables and in *)
(* the summaries, while the command goes through old blocks.               *)
(***************************************************************************)
EXTENDS HeightResolver, Retention, FiniteSetTheorems, TLAPS

-----------------------------------------------------------------------------
(* The height resolver.                                                    *)

\* The loop invariant of findFirstBlockAtOrAfter: all blocks below low are too
\* early or pruned, and high, once it has moved, is late enough.
LoopInv ==
  pc = "search" =>
    /\ \A g \in Heights : g < low => times[g] < Target \/ g < lowest
    /\ high < latest => times[high] >= Target
    /\ earliest \in Nat

ResolverInv == TypeOK /\ LoopInv /\ SearchCorrect

-----------------------------------------------------------------------------
\* The middle of a range is in it, and below its upper end.
LEMMA MidRange ==
  ASSUME NEW a \in Nat, NEW b \in Nat, a < b
  PROVE  /\ (a + b) \div 2 \in Nat
         /\ a <= (a + b) \div 2 /\ (a + b) \div 2 < b
  OBVIOUS

\* The program starts in a state of its types.
LEMMA InitResolver == ResolverInit => TypeOK
  BY HeightResolverAssumption DEF ResolverInit, TypeOK, Heights

\* The block times and the request never change.
LEMMA SameRequest == [ResolverNext]_resolverVars => UNCHANGED <<times, request>>
  BY DEF ResolverNext, ResolverStep, Returned, Commit, Prune, Parse, Return, Fail, Status,
         StartSearch, Probe, QueryFails, Halve, SkipPruned, Found, resolverVars

\* Every step keeps the types.
LEMMA NextResolver == TypeOK /\ [ResolverNext]_resolverVars => TypeOK'
  <1> SUFFICES ASSUME TypeOK, [ResolverNext]_resolverVars PROVE TypeOK'
    OBVIOUS
  <1> DEFINE Inputs == /\ times \in [Heights -> 0..MaxTime] /\ Ascending(times)
                       /\ request \in Requests
             Bounds == /\ chain \in Heights /\ lowest \in 1..chain
                       /\ pc \in {"parse", "status", "probe", "search", "done", "failed"}
                       /\ earliest \in 0..MaxHeight /\ latest \in 0..chain /\ result \in Nat
                       /\ low \in 0..MaxHeight /\ high \in 0..latest
                       /\ pc = "probe" => latest >= 1
                       /\ pc = "search" => low >= 1 /\ high >= 1
  <1>a. Inputs'
    BY SameRequest DEF TypeOK, Ascending
  <1>b. Bounds /\ request.value \in Nat
    BY HeightResolverAssumption DEF TypeOK, Requests
  <1>c. Bounds'
    <2> USE <1>b, HeightResolverAssumption DEF Heights
    <2>1. CASE Commit
      BY <2>1 DEF Commit
    <2>2. CASE Prune
      BY <2>2 DEF Prune
    <2>3. CASE Parse
      BY <2>3 DEF Parse, Return, Fail
    <2>4. CASE Status
      BY <2>4 DEF Status, StartSearch
    <2>5. CASE Probe
      BY <2>5 DEF Probe, StartSearch
    <2>6. CASE QueryFails
      BY <2>6 DEF QueryFails, Fail
    <2>7. CASE Halve
      <3>1. /\ Mid \in Nat /\ low <= Mid /\ Mid < high
        BY <2>7, MidRange DEF Halve, Mid
      <3> QED
        BY <2>7, <3>1 DEF Halve
    <2>8. CASE SkipPruned
      BY <2>8 DEF SkipPruned
    <2>9. CASE Found
      BY <2>9 DEF Found, Return, Fail
    <2>10. CASE UNCHANGED resolverVars
      BY <2>10 DEF resolverVars
    <2> QED
      BY <2>1, <2>2, <2>3, <2>4, <2>5, <2>6, <2>7, <2>8, <2>9, <2>10
         DEF ResolverNext, ResolverStep, Returned
  <1> QED
    BY <1>a, <1>c DEF TypeOK

\* In every reachable state, of every chain, the variables have their types and
\* findFirstBlockAtOrAfter asks only for heights between 1 and the head.
THEOREM ResolverTypes == ResolverSpec => []TypeOK
  BY InitResolver, NextResolver, PTL DEF ResolverSpec

-----------------------------------------------------------------------------
\* Every step keeps the loop invariant.
LEMMA NextLoopInv == TypeOK /\ LoopInv /\ [ResolverNext]_resolverVars => LoopInv'
  <1> SUFFICES ASSUME TypeOK, LoopInv, [ResolverNext]_resolverVars, pc' = "search"
               PROVE  /\ \A g \in Heights : g < low' => times'[g] < Target' \/ g < lowest'
                      /\ high' < latest' => times'[high'] >= Target'
                      /\ earliest' \in Nat
    BY DEF LoopInv
  <1>0. request' = request /\ times' = times /\ Target' = Target
    BY DEF ResolverNext, ResolverStep, Returned, Commit, Prune, Parse, Return, Fail, Status,
           StartSearch, Probe, QueryFails, Halve, SkipPruned, Found, resolverVars, Target, WholeDay
  <1>00. times \in [Heights -> 0..MaxTime] /\ MaxTime \in Nat /\ Target \in Nat
    BY HeightResolverAssumption DEF TypeOK, Target, Requests, WholeDay
  <1> USE HeightResolverAssumption DEF TypeOK, Heights
  <1>1. CASE Commit
    BY <1>0, <1>1 DEF Commit, LoopInv
  <1>2. CASE Prune
    BY <1>0, <1>00, <1>2 DEF Prune, LoopInv
  <1>3. CASE Parse
    BY <1>3 DEF Parse, Return, Fail
  <1>4. CASE Status
    BY <1>0, <1>4 DEF Status, StartSearch
  <1>5. CASE Probe
    BY <1>0, <1>5 DEF Probe, StartSearch
  <1>6. CASE QueryFails
    BY <1>6 DEF QueryFails, Fail
  <1>7. CASE Halve
    <2>1. /\ Mid \in Nat /\ low <= Mid /\ Mid < high /\ Mid \in Heights
      BY <1>7, MidRange DEF Halve, Mid
    <2>2. CASE times[Mid] < Target
      <3>1. low' = Mid + 1 /\ high' = high /\ latest' = latest /\ lowest' = lowest
            /\ earliest' = earliest
        BY <1>7, <2>2 DEF Halve
      <3>2. \A g \in Heights : g < Mid + 1 => times[g] < Target
        BY <1>00, <2>1, <2>2 DEF Ascending
      <3> QED
        BY <1>0, <1>00, <1>7, <3>1, <3>2 DEF LoopInv, Halve
    <2>3. CASE ~(times[Mid] < Target)
      BY <1>0, <1>00, <1>7, <2>1, <2>3 DEF Halve, LoopInv
    <2> QED
      BY <2>2, <2>3
  <1>8. CASE SkipPruned
    BY <1>0, <1>8 DEF SkipPruned, LoopInv
  <1>9. CASE Found
    BY <1>9 DEF Found, Return, Fail
  <1>10. CASE UNCHANGED resolverVars
    BY <1>0, <1>10 DEF resolverVars, LoopInv
  <1> QED
    BY <1>1, <1>2, <1>3, <1>4, <1>5, <1>6, <1>7, <1>8, <1>9, <1>10
       DEF ResolverNext, ResolverStep, Returned

\* A block that has been found stays the first one: the node only prunes.
LEMMA NextSearchCorrect ==
  TypeOK /\ LoopInv /\ SearchCorrect /\ [ResolverNext]_resolverVars => SearchCorrect'
  <1> SUFFICES ASSUME TypeOK, LoopInv, SearchCorrect, [ResolverNext]_resolverVars,
                      pc' = "done", request'.kind \in {"time", "date"}
               PROVE  IsFirst(IF WholeDay THEN result + 1 ELSE result)'
    BY DEF SearchCorrect
  <1>0. request' = request /\ times' = times /\ Target' = Target /\ WholeDay' = WholeDay
    BY DEF ResolverNext, ResolverStep, Returned, Commit, Prune, Parse, Return, Fail, Status,
           StartSearch, Probe, QueryFails, Halve, SkipPruned, Found, resolverVars, Target, WholeDay
  <1>00. times \in [Heights -> 0..MaxTime] /\ MaxTime \in Nat /\ Target \in Nat
    BY HeightResolverAssumption DEF TypeOK, Target, Requests, WholeDay
  <1> USE HeightResolverAssumption DEF TypeOK, Heights
  <1>1. CASE pc = "done"
    <2>1. IsFirst(IF WholeDay THEN result + 1 ELSE result)
      BY <1>0, <1>1 DEF SearchCorrect
    <2>2. result' = result /\ latest' = latest /\ lowest' \in Nat /\ lowest' >= lowest
      BY <1>1 DEF ResolverNext, ResolverStep, Returned, Commit, Prune, Parse, Status, Probe,
                  QueryFails, Halve, SkipPruned, Found, resolverVars
    <2> QED
      BY <1>0, <1>00, <2>1, <2>2 DEF IsFirst
  <1>2. CASE pc # "done"
    <2>1. Found
      BY <1>0, <1>2 DEF ResolverNext, ResolverStep, Returned, Commit, Prune, Parse, Return,
                  Fail, Status, StartSearch, Probe, QueryFails, Halve, SkipPruned, Found,
    resolverVars <2>2. /\ low >= high /\ latest' = latest /\ lowest' = lowest /\ pc = "search"
          /\ (IF WholeDay THEN result' + 1 ELSE result') = low
      BY <2>1 DEF Found, Return, Fail
    <2>3. ASSUME low < latest PROVE times[low] >= Target
      <3>1. high \in Heights /\ low \in Heights /\ high < latest /\ high <= low
        BY <2>2, <2>3
      <3>2. times[high] >= Target /\ times[high] \in Nat /\ times[low] \in Nat
        BY <1>00, <2>2, <3>1 DEF LoopInv
      <3>3. high < low => times[high] < times[low]
        BY <3>1 DEF Ascending
      <3> QED
        BY <1>00, <3>1, <3>2, <3>3
    <2>4. \A g \in Heights : g < low => times[g] < Target \/ g < lowest
      BY <2>2 DEF LoopInv
    <2>5. (IF WholeDay' THEN result' + 1 ELSE result') = low
      BY <1>0, <2>2
    <2> QED
      BY <1>0, <2>2, <2>3, <2>4, <2>5 DEF IsFirst
  <1> QED
    BY <1>1, <1>2

\* For every chain, every target and every interleaving of the search with pruning
\* and new blocks, resolveFromHeight and resolveToHeight return the first block at
\* or after the target (the one before, for a whole day) among those below the head.
THEOREM SearchHolds == ResolverSpec => []SearchCorrect
  <1>1. ResolverInit => ResolverInv
    BY InitResolver DEF ResolverInit, ResolverInv, LoopInv, SearchCorrect
  <1>2. ResolverInv /\ [ResolverNext]_resolverVars => ResolverInv'
    BY NextResolver, NextLoopInv, NextSearchCorrect DEF ResolverInv
  <1>3. ResolverInv => SearchCorrect
    BY DEF ResolverInv
  <1> QED
    BY <1>1, <1>2, <1>3, PTL DEF ResolverSpec

-----------------------------------------------------------------------------
(* The retention cleanup.  Facts about hours and days.                     *)

\* What the provers need of the constants.
LEMMA Numbers ==
  MaxNow \in Nat /\ Keep \in Nat /\ HoursPerDay \in Nat /\ HoursPerDay > 0 /\ ZoneOffset \in Int
BY RetentionAssumption

\* An hour lies in its day.
LEMMA InItsDay ==
  ASSUME NEW h \in Hours
  PROVE  /\ Day(h) \in Days /\ Day(h) \in Int /\ DayStart(Day(h)) \in Int
         /\ DayStart(Day(h)) <= h /\ h < DayStart(Day(h)) + HoursPerDay
<1>1. h \in Int
  BY Numbers DEF Hours
<1>2. /\ h \div HoursPerDay \in Int
      /\ (h \div HoursPerDay) * HoursPerDay <= h
      /\ h < (h \div HoursPerDay) * HoursPerDay + HoursPerDay
  BY <1>1, Numbers
<1> QED
  BY <1>1, <1>2, Numbers DEF Day, Days, DayStart

\* Days begin at whole hours.
LEMMA DaysAreIntegers == \A d \in Days : DayStart(d) \in Int
BY InItsDay DEF Days

-----------------------------------------------------------------------------
(* Types, and that nothing comes from the future.                          *)

Job ==
  [phase : {"none", "running", "done"}, from : Hours, to : Hours, next : 0..MaxNow + 1]

Types ==
  /\ now \in Hours /\ raw \subseteq ever /\ ever \subseteq Hours
  /\ hourly \in [Hours -> Nat] /\ daily \in [Days -> Nat]
  /\ job \in Job
  /\ cleaned \in Int /\ -1 <= cleaned /\ cleaned <= now

\* Storing a block keeps the types.
LEMMA StoredTypes ==
  ASSUME Types, NEW h \in Hours, StoreBlock(h)
  PROVE  /\ raw' \subseteq ever' /\ ever' \subseteq Hours
         /\ hourly' \in [Hours -> Nat] /\ daily' \in [Days -> Nat]
         /\ hourly'[h] = hourly[h] + 1 /\ daily'[Day(h)] = daily[Day(h)] + 1
         /\ \A i \in Hours \ {h} : hourly'[i] = hourly[i]
         /\ \A d \in Days \ {Day(h)} : daily'[d] = daily[d]
         /\ \A i \in Hours : hourly'[i] >= hourly[i]
         /\ \A d \in Days : daily'[d] >= daily[d]
<1>1. Day(h) \in Days
  BY InItsDay
<1>2. raw' \subseteq ever' /\ ever' \subseteq Hours
  BY DEF Types, StoreBlock
<1>3. /\ hourly' \in [Hours -> Nat] /\ hourly'[h] = hourly[h] + 1
      /\ \A i \in Hours \ {h} : hourly'[i] = hourly[i]
      /\ \A i \in Hours : hourly'[i] >= hourly[i]
  BY DEF Types, StoreBlock
<1>4. /\ daily' \in [Days -> Nat] /\ daily'[Day(h)] = daily[Day(h)] + 1
      /\ \A d \in Days \ {Day(h)} : daily'[d] = daily[d]
      /\ \A d \in Days : daily'[d] >= daily[d]
  BY <1>1 DEF Types, StoreBlock
<1> QED
  BY <1>2, <1>3, <1>4

\* A backfill's next block is one of its range.
LEMMA NextBlock ==
  ASSUME Types, BackfillBlock
  PROVE  job.next \in Hours /\ job.next + 1 \in 0..MaxNow + 1
BY Numbers DEF Types, Job, BackfillBlock, Hours

\* The blocks a recalculation finds are finitely many.
LEMMA FiniteHours ==
  ASSUME NEW S \in SUBSET Hours
  PROVE  IsFiniteSet(S) /\ Cardinality(S) \in Nat /\ (S # {} => Cardinality(S) > 0)
<1>1. IsFiniteSet(Hours)
  BY Numbers, FS_Interval DEF Hours
<1>2. IsFiniteSet(S)
  BY <1>1, FS_Subset
<1>3. Cardinality(S) \in Nat /\ (Cardinality(S) = 0 <=> S = {})
  BY <1>2, FS_CardinalityType, FS_EmptySet
<1> QED
  BY <1>2, <1>3

LEMMA InitTypes == Init => Types
<1> SUFFICES ASSUME Init PROVE Types
  OBVIOUS
<1>1. now \in Hours /\ raw \subseteq ever /\ ever \subseteq Hours
  BY Numbers DEF Init, Hours
<1>2. hourly \in [Hours -> Nat] /\ daily \in [Days -> Nat]
  BY DEF Init
<1>3. job \in Job
  <2>1. 0 \in Hours /\ 0 \in 0..MaxNow + 1
    BY Numbers DEF Hours
  <2> QED
    BY <2>1 DEF Init, NoJob, Job
<1>4. cleaned \in Int /\ -1 <= cleaned /\ cleaned <= now
  BY DEF Init
<1> QED
  BY <1>1, <1>2, <1>3, <1>4 DEF Types

LEMMA NextTypes == Types /\ [Next]_vars => Types'
<1> SUFFICES ASSUME Types, [Next]_vars PROVE Types'
  OBVIOUS
<1>n. now \in Hours /\ now \in Int /\ cleaned \in Int /\ -1 <= cleaned /\ cleaned <= now
  BY Numbers DEF Types, Hours
<1>1. CASE Tick
  BY <1>1, <1>n, Numbers DEF Types, Tick, Hours
<1>2. CASE Live
  BY <1>2, StoredTypes DEF Live, Types
<1>3. CASE RunRetentionCleanup
  <2>1. hourly' \in [Hours -> Nat] /\ daily' \in [Days -> Nat]
    BY <1>3 DEF Types, RunRetentionCleanup
  <2>2. raw' \subseteq ever' /\ ever' \subseteq Hours
    BY <1>3 DEF Types, RunRetentionCleanup
  <2>3. cleaned' \in Int /\ -1 <= cleaned' /\ cleaned' <= now' /\ UNCHANGED <<now, job>>
    BY <1>3, <1>n DEF RunRetentionCleanup
  <2> QED
    BY <2>1, <2>2, <2>3 DEF Types
<1>4. ASSUME NEW from \in Hours, NEW to \in Hours, BackfillStart(from, to) PROVE Types'
  <2>1. from \in 0..MaxNow + 1
    BY Numbers DEF Hours
  <2>2. job' \in Job
    BY <1>4, <2>1 DEF BackfillStart, Job
  <2> QED
    BY <1>4, <2>2 DEF Types, BackfillStart
<1>5. CASE BackfillBlock
  <2>1. job.next \in Hours /\ job.next + 1 \in 0..MaxNow + 1
    BY <1>5, NextBlock
  <2>2. job' \in Job
    BY <1>5, <2>1 DEF Types, Job, BackfillBlock
  <2> QED
    BY <1>5, <2>1, <2>2, StoredTypes DEF BackfillBlock, Types
<1>6. CASE Recalculate
  <2> DEFINE found == {h \in raw : Day(job.from) <= Day(h) /\ Day(h) <= Day(job.to)}
             InDay(d) == {h \in found : Day(h) = d}
  <2>1. hourly' = [h \in Hours |-> IF h \in found THEN 1 ELSE hourly[h]]
    BY <1>6 DEF Recalculate
  <2>2. daily' = [d \in Days |-> IF InDay(d) # {} THEN Cardinality(InDay(d)) ELSE daily[d]]
    BY <1>6 DEF Recalculate
  <2>3. \A d \in Days : Cardinality(InDay(d)) \in Nat
    <3> SUFFICES ASSUME NEW d \in Days PROVE Cardinality(InDay(d)) \in Nat
      OBVIOUS
    <3>1. InDay(d) \subseteq Hours
      BY DEF Types
    <3> HIDE DEF InDay
    <3> QED
      BY <3>1, FiniteHours
  <2>4. hourly' \in [Hours -> Nat]
    <3> HIDE DEF found
    <3> QED
      BY <2>1 DEF Types
  <2>5. daily' \in [Days -> Nat]
    <3> HIDE DEF InDay
    <3> QED
      BY <2>2, <2>3 DEF Types
  <2>6. job' \in Job
    BY <1>6 DEF Types, Job, Recalculate
  <2> QED
    BY <1>6, <2>4, <2>5, <2>6 DEF Types, Recalculate
<1>7. CASE UNCHANGED vars
  BY <1>7 DEF Types, vars
<1> QED
  BY <1>1, <1>2, <1>3, <1>4, <1>5, <1>6, <1>7 DEF Next, Over

LEMMA SpecTypes == Spec => []Types
BY InitTypes, NextTypes, PTL DEF Spec

-----------------------------------------------------------------------------
(* The raw tables.                                                         *)

\* The cutoff of a cleanup in the monitor's own past is as old as it should be.
LEMMA CleanupKeeps ==
  ASSUME Types, ZoneOffset <= 0, RunRetentionCleanup, NEW since \in Int, NEW periods \in Nat,
         Kept(since, periods)'
  PROVE  Kept(since, periods) /\ since >= Cutoff(periods)
<1>1. /\ now \in Int /\ cleaned \in Int /\ -1 <= cleaned /\ cleaned < now /\ cleaned' = now
      /\ Keep > 0
  BY Numbers DEF Types, Hours, RunRetentionCleanup
<1>2. periods * Keep \in Nat
  BY Numbers
<1>3. since >= now - periods * Keep
  BY <1>1, Numbers DEF Kept
<1> QED
  BY <1>1, <1>2, <1>3, Numbers DEF Kept, Cutoff

LEMMA NextWindow ==
  ASSUME ZoneOffset <= 0
  PROVE  Types /\ KeepsWindow /\ [Next]_vars => KeepsWindow'
<1> SUFFICES ASSUME Types, KeepsWindow, [Next]_vars PROVE KeepsWindow'
  OBVIOUS
<1>1. CASE RunRetentionCleanup
  <2> SUFFICES ASSUME NEW h \in ever, Kept(h, 1)' PROVE h \in raw'
    BY <1>1 DEF KeepsWindow, RunRetentionCleanup
  <2>1. h \in Int
    BY Numbers DEF Types, Hours
  <2>2. Kept(h, 1) /\ h >= Cutoff(1)
    BY <1>1, <2>1, CleanupKeeps
  <2> QED
    BY <1>1, <2>2 DEF KeepsWindow, RunRetentionCleanup
<1>2. ASSUME NEW b, StoreBlock(b), UNCHANGED cleaned PROVE KeepsWindow'
  BY <1>2 DEF KeepsWindow, Kept, StoreBlock
<1>3. CASE Live
  BY <1>2, <1>3 DEF Live
<1>4. CASE BackfillBlock
  BY <1>2, <1>4 DEF BackfillBlock
<1>5. ASSUME UNCHANGED <<raw, ever, cleaned>> PROVE KeepsWindow'
  BY <1>5 DEF KeepsWindow, Kept
<1> QED
  BY <1>1, <1>3, <1>4, <1>5
     DEF Next, Tick, Over, BackfillStart, Recalculate, vars

\* "Older than the retention window": where the local time is UTC or behind it,
\* RunRetentionCleanup deletes no raw row of a block younger than the period.
THEOREM WindowHolds ==
  ASSUME ZoneOffset <= 0
  PROVE  Spec => []KeepsWindow
<1>1. Init => KeepsWindow
  BY DEF Init, KeepsWindow
<1>2. Types /\ KeepsWindow /\ [Next]_vars => KeepsWindow'
  BY NextWindow
<1> QED
  BY <1>1, <1>2, SpecTypes, PTL DEF Spec

-----------------------------------------------------------------------------
(* Raw rows and their summaries.                                           *)

\* A later hour is in no earlier day.
LEMMA DaysInOrder ==
  ASSUME NEW g \in Hours, NEW h \in Hours, g <= h
  PROVE  Day(g) <= Day(h)
<1> DEFINE n == HoursPerDay
           x == Day(g)
           y == Day(h)
<1>1. /\ x \in Int /\ y \in Int /\ n \in Int /\ n > 0
      /\ x * n <= g /\ h < y * n + n /\ g \in Int /\ h \in Int
  BY InItsDay, Numbers DEF DayStart, Hours
<1> HIDE DEF n, x, y
<1>2. x * n < (y + 1) * n
  <2>1. (y + 1) * n = y * n + n /\ x * n \in Int /\ y * n \in Int
    BY <1>1
  <2> QED
    BY <1>1, <2>1
<1>3. ASSUME x > y PROVE FALSE
  <2>1. x - (y + 1) \in Nat
    BY <1>1, <1>3
  <2>2. (x - (y + 1)) * n \in Nat
    BY <1>1, <2>1
  <2>3. (x - (y + 1)) * n = x * n - (y + 1) * n /\ x * n \in Int /\ (y + 1) * n \in Int
    BY <1>1
  <2> QED
    BY <1>2, <2>2, <2>3
<1> QED
  BY <1>1, <1>3 DEF x, y

\* A backfill is at or behind a block of its range, which lies in no spared day.
Progress == job.phase # "none" => job.from <= job.next

LEMMA NextProgress == Types /\ Progress /\ [Next]_vars => Progress'
<1> SUFFICES ASSUME Types, Progress, [Next]_vars PROVE Progress'
  OBVIOUS
<1>t. job \in Job
  BY DEF Types
<1>1. ASSUME NEW from \in Hours, NEW to \in Hours, BackfillStart(from, to) PROVE Progress'
  BY <1>1, Numbers DEF BackfillStart, Progress, Hours
<1>2. CASE BackfillBlock
  BY <1>t, <1>2, Numbers DEF BackfillBlock, Progress, Job, Hours
<1>3. CASE Recalculate
  BY <1>t, <1>3 DEF Recalculate, Progress, Job
<1>4. CASE UNCHANGED job
  BY <1>4 DEF Progress
<1> QED
  BY <1>1, <1>2, <1>3, <1>4 DEF Next, Tick, Live, RunRetentionCleanup, Over, vars

LEMMA BlockTouched ==
  ASSUME Types, Progress, BackfillBlock
  PROVE  job.next \in Hours /\ ~Spared(Day(job.next))
<1>1. /\ job.next \in Hours /\ job.from \in Hours /\ job.to \in Hours
      /\ job.from <= job.next /\ job.next <= job.to /\ job.phase = "running"
  BY NextBlock DEF Types, Job, Progress, BackfillBlock
<1>2. Day(job.from) <= Day(job.next) /\ Day(job.next) <= Day(job.to)
  BY <1>1, DaysInOrder
<1> QED
  BY <1>1, <1>2, InItsDay DEF Spared

\* What is not stored is not counted.
Uncounted == \A h \in Hours \ ever : hourly[h] = 0

LEMMA NextUncounted == Types /\ Uncounted /\ [Next]_vars => Uncounted'
<1> SUFFICES ASSUME Types, Uncounted, [Next]_vars PROVE Uncounted'
  OBVIOUS
<1>1. ASSUME NEW b \in Hours, StoreBlock(b) PROVE Uncounted'
  <2>1. ever' = ever \cup {b}
    BY <1>1 DEF StoreBlock
  <2>2. \A h \in Hours \ {b} : hourly'[h] = hourly[h]
    BY <1>1, StoredTypes
  <2> QED
    BY <2>1, <2>2 DEF Uncounted
<1>2. CASE Live
  BY <1>1, <1>2 DEF Live, Types
<1>3. CASE BackfillBlock
  BY <1>1, <1>3, NextBlock DEF BackfillBlock
<1>4. CASE RunRetentionCleanup
  BY <1>4 DEF RunRetentionCleanup, Uncounted
<1>5. CASE Recalculate
  BY <1>5 DEF Recalculate, Uncounted, Types
<1>6. CASE UNCHANGED <<hourly, ever>>
  BY <1>6 DEF Uncounted
<1> QED
  BY <1>2, <1>3, <1>4, <1>5, <1>6 DEF Next, Tick, Over, BackfillStart, vars

\* Each day counts what is left of it; an hour that has raw rows has a summary, and
\* one that counts its block once but in the days of a backfill under way.
Covers ==
  /\ \A d \in Days : daily[d] >= Cardinality(RawIn(d))
  /\ \A h \in raw : hourly[h] > 0 /\ (hourly[h] = 1 \/ (job.phase = "running" /\ ~Spared(Day(h))))

CoverInv == 5 * Keep >= HoursPerDay => Covers

\* A cleanup that leaves a raw row leaves the summaries of its hour and day.
LEMMA CleanupCovers ==
  ASSUME Types, Covers, RunRetentionCleanup, 5 * Keep >= HoursPerDay
  PROVE  Covers'
<1>0. raw \subseteq Hours /\ hourly \in [Hours -> Nat] /\ daily \in [Days -> Nat]
  BY DEF Types
<1>1. ASSUME NEW h \in raw' PROVE ~(h < Cutoff(3)) /\ ~(DayStart(Day(h)) < Cutoff(6))
  <2>1. h \in raw /\ h \in Hours /\ h >= Cutoff(1)
    BY <1>0 DEF RunRetentionCleanup
  <2>2. DayStart(Day(h)) \in Int /\ h < DayStart(Day(h)) + HoursPerDay
    BY <2>1, InItsDay
  <2>3. now \in Int /\ h \in Int
    BY <2>1, Numbers DEF Types, Hours
  <2>4. h >= Cutoff(3) /\ DayStart(Day(h)) >= Cutoff(6)
    BY <2>1, <2>2, <2>3, Numbers DEF Cutoff
  <2>5. Cutoff(3) \in Int /\ Cutoff(6) \in Int
    BY <2>3, Numbers DEF Cutoff
  <2> QED
    BY <2>2, <2>3, <2>4, <2>5
<1>2. ASSUME NEW d \in Days PROVE daily'[d] >= Cardinality(RawIn(d)')
  <2>1. RawIn(d)' \in SUBSET RawIn(d) /\ RawIn(d) \in SUBSET Hours
    BY <1>0 DEF RawIn, RunRetentionCleanup
  <2>2. /\ Cardinality(RawIn(d)') \in Nat /\ Cardinality(RawIn(d)) \in Nat
        /\ Cardinality(RawIn(d)') <= Cardinality(RawIn(d))
    BY <2>1, FiniteHours, FS_Subset
  <2>3. CASE RawIn(d)' = {}
    <3>1. Cardinality(RawIn(d)') = 0
      BY <2>3, FS_EmptySet
    <3>2. daily'[d] \in Nat
      BY <1>0 DEF RunRetentionCleanup
    <3> QED
      BY <3>1, <3>2
  <2>4. CASE RawIn(d)' # {}
    <3>1. PICK h \in raw' : Day(h) = d
      BY <2>4 DEF RawIn
    <3>2. daily'[d] = daily[d]
      BY <1>1, <3>1 DEF RunRetentionCleanup
    <3> QED
      BY <1>0, <2>2, <3>2 DEF Covers
  <2> QED
    BY <2>3, <2>4
<1>3. ASSUME NEW h \in raw'
      PROVE  hourly'[h] > 0 /\ (hourly'[h] = 1 \/ (job'.phase = "running" /\ ~Spared(Day(h))'))
  <2>1. h \in raw /\ hourly'[h] = hourly[h] /\ UNCHANGED job
    BY <1>0, <1>1 DEF RunRetentionCleanup
  <2> QED
    BY <2>1 DEF Covers, Spared
<1> QED
  BY <1>2, <1>3 DEF Covers

\* A block that is stored is counted in its hour and its day.
LEMMA StoreCovers ==
  ASSUME Types, Uncounted, Covers, NEW b \in Hours, StoreBlock(b),
         b \notin ever \/ (job.phase = "running" /\ ~Spared(Day(b))),
         UNCHANGED <<job.phase, job.from, job.to>>
  PROVE  Covers'
<1>0. /\ raw \subseteq ever /\ raw \subseteq Hours
      /\ hourly \in [Hours -> Nat] /\ daily \in [Days -> Nat]
  BY DEF Types
<1>1. raw' = raw \cup {b} /\ hourly'[b] = hourly[b] + 1
      /\ \A i \in Hours \ {b} : hourly'[i] = hourly[i]
  BY StoredTypes DEF StoreBlock
<1>2. ASSUME NEW d \in Days PROVE daily'[d] >= Cardinality(RawIn(d)')
  <2>1. RawIn(d) \in SUBSET Hours
    BY <1>0 DEF RawIn
  <2>2. IsFiniteSet(RawIn(d)) /\ Cardinality(RawIn(d)) \in Nat
    BY <2>1, FiniteHours
  <2>3. daily[d] >= Cardinality(RawIn(d)) /\ daily[d] \in Nat
    BY <1>0 DEF Covers
  <2>4. CASE d = Day(b) /\ b \notin raw
    <3>1. RawIn(d)' = RawIn(d) \cup {b} /\ b \notin RawIn(d)
      BY <1>1, <2>4 DEF RawIn
    <3>2. Cardinality(RawIn(d)') = Cardinality(RawIn(d)) + 1
      BY <2>2, <3>1, FS_AddElement
    <3>3. daily'[d] = daily[d] + 1
      BY <2>4, StoredTypes
    <3> QED
      BY <2>2, <2>3, <3>2, <3>3
  <2>5. CASE ~(d = Day(b) /\ b \notin raw)
    <3>1. RawIn(d)' = RawIn(d)
      BY <1>1, <2>5 DEF RawIn
    <3>2. daily'[d] >= daily[d] /\ daily'[d] \in Nat
      BY StoredTypes
    <3> QED
      BY <2>2, <2>3, <3>1, <3>2
  <2> QED
    BY <2>4, <2>5
<1>3. ASSUME NEW h \in raw'
      PROVE  hourly'[h] > 0 /\ (hourly'[h] = 1 \/ (job'.phase = "running" /\ ~Spared(Day(h))'))
  <2>1. Spared(Day(h))' <=> Spared(Day(h))
    BY DEF Spared
  <2>2. CASE h # b
    <3>1. h \in raw /\ hourly'[h] = hourly[h]
      BY <1>0, <1>1, <2>2
    <3> QED
      BY <2>1, <3>1 DEF Covers
  <2>3. CASE h = b /\ b \notin ever
    <3>1. hourly'[h] = 1
      BY <1>1, <2>3 DEF Uncounted
    <3> QED
      BY <3>1
  <2>4. CASE h = b /\ job.phase = "running" /\ ~Spared(Day(b))
    <3>1. hourly'[h] > 0
      BY <1>0, <1>1, <2>4
    <3> QED
      BY <2>1, <2>4, <3>1
  <2> QED
    BY <2>2, <2>3, <2>4
<1> QED
  BY <1>2, <1>3 DEF Covers

\* A recalculation takes all that is left of each day it finds.
LEMMA RecalculateCovers ==
  ASSUME Types, Covers, Recalculate
  PROVE  Covers'
<1> DEFINE found == {h \in raw : Day(job.from) <= Day(h) /\ Day(h) <= Day(job.to)}
           InDay(d) == {h \in found : Day(h) = d}
<1>0. raw \subseteq Hours /\ job \in Job /\ \A h \in Hours : Day(h) \in Int
  BY InItsDay DEF Types
<1>1. /\ hourly' = [h \in Hours |-> IF h \in found THEN 1 ELSE hourly[h]]
      /\ daily' = [d \in Days |-> IF InDay(d) # {} THEN Cardinality(InDay(d)) ELSE daily[d]]
      /\ raw' = raw /\ job.phase = "running" /\ job'.phase = "done"
  BY <1>0 DEF Recalculate, Job
<1>2. ASSUME NEW d \in Days PROVE daily'[d] >= Cardinality(RawIn(d)')
  <2>1. RawIn(d)' = RawIn(d) /\ Cardinality(RawIn(d)) \in Nat
    <3>1. RawIn(d) \in SUBSET Hours
      BY <1>0 DEF RawIn
    <3> QED
      BY <1>1, <3>1, FiniteHours DEF RawIn
  <2>2. InDay(d) # {} => InDay(d) = RawIn(d)
    BY DEF RawIn
  <2>3. daily'[d] = IF InDay(d) # {} THEN Cardinality(InDay(d)) ELSE daily[d]
    BY <1>1
  <2> HIDE DEF InDay, found
  <2>4. CASE InDay(d) # {}
    BY <2>1, <2>2, <2>3, <2>4
  <2>5. CASE InDay(d) = {}
    BY <2>1, <2>3, <2>5 DEF Covers
  <2> QED
    BY <2>4, <2>5
<1>3. ASSUME NEW h \in raw' PROVE hourly'[h] = 1
  <2>1. h \in raw /\ h \in Hours /\ Day(h) \in Int
    BY <1>0, <1>1
  <2>2. CASE h \in found
    BY <1>1, <2>1, <2>2
  <2>3. CASE h \notin found
    <3>1. Spared(Day(h))
      <4>1. ~(Day(job.from) <= Day(h) /\ Day(h) <= Day(job.to))
        BY <2>1, <2>3
      <4>2. Day(job.from) \in Int /\ Day(job.to) \in Int
        BY <1>0 DEF Job
      <4> QED
        BY <2>1, <4>1, <4>2 DEF Spared
    <3>2. hourly'[h] = hourly[h] /\ hourly[h] = 1
      BY <1>1, <2>1, <2>3, <3>1 DEF Covers
    <3> QED
      BY <3>2
  <2> QED
    BY <2>2, <2>3
<1> QED
  BY <1>2, <1>3 DEF Covers

LEMMA NextCovers ==
  Types /\ Progress /\ Uncounted /\ CoverInv /\ [Next]_vars => CoverInv'
<1> SUFFICES ASSUME Types, Progress, Uncounted, [Next]_vars, 5 * Keep >= HoursPerDay, Covers
             PROVE  Covers'
  BY DEF CoverInv
<1>t. job \in Job /\ now \in Hours
  BY DEF Types
<1>1. CASE RunRetentionCleanup
  BY <1>1, CleanupCovers
<1>2. CASE Live
  BY <1>2, <1>t, StoreCovers DEF Live
<1>3. CASE BackfillBlock
  <2>1. StoreBlock(job.next) /\ job.phase = "running"
        /\ UNCHANGED <<job.phase, job.from, job.to>>
    BY <1>t, <1>3 DEF BackfillBlock, Job
  <2> QED
    BY <1>3, <2>1, BlockTouched, StoreCovers
<1>4. CASE Recalculate
  BY <1>4, RecalculateCovers
<1>5. ASSUME NEW from \in Hours, NEW to \in Hours, BackfillStart(from, to) PROVE Covers'
  BY <1>5 DEF BackfillStart, Covers, RawIn
<1>6. CASE UNCHANGED <<raw, hourly, daily, job>>
  BY <1>6 DEF Covers, RawIn, Spared
<1> QED
  BY <1>1, <1>2, <1>3, <1>4, <1>5, <1>6 DEF Next, Tick, Over, vars

LEMMA SpecProgress == Spec => [](Progress /\ Uncounted)
<1>1. Init => Progress /\ Uncounted
  BY DEF Init, NoJob, Progress, Uncounted
<1> QED
  BY <1>1, NextProgress, NextUncounted, SpecTypes, PTL DEF Spec

\* Raw rows never outlive the summary rows that count them, in any time zone and
\* wherever a cleanup falls in a backfill: a daily row counts what is left of its day
\* or more, and an hourly row its block once, except while a backfill may have stored
\* the block again and not yet recalculated.
THEOREM CoveredHolds == Spec => []SummariesCoverRaw
<1>1. Init => CoverInv
  <2> SUFFICES ASSUME Init PROVE Covers
    BY DEF CoverInv
  <2>1. Cardinality({}) = 0
    BY FS_EmptySet
  <2>2. \A d \in Days : daily[d] = 0 /\ RawIn(d) = {}
    BY DEF Init, RawIn
  <2> QED
    BY <2>1, <2>2 DEF Init, Covers
<1>2. Types /\ CoverInv => SummariesCoverRaw
  <2> SUFFICES ASSUME Types, Covers, NEW h \in raw
               PROVE  /\ hourly[h] > 0 /\ daily[Day(h)] >= Cardinality(RawIn(Day(h)))
                      /\ job.phase # "running" => hourly[h] = 1
    BY DEF CoverInv, SummariesCoverRaw
  <2>1. Day(h) \in Days
    BY InItsDay DEF Types
  <2> QED
    BY <2>1 DEF Covers
<1> QED
  BY <1>1, <1>2, NextCovers, SpecProgress, SpecTypes, PTL DEF Spec

-----------------------------------------------------------------------------
(* The summaries of the days that no backfill touches.                     *)

\* A new block is one more block of its day, and none of any other.
LEMMA OneMore ==
  ASSUME Types, NEW b \in Hours, b \notin ever, ever' = ever \cup {b}, NEW d \in Days
  PROVE  Cardinality(StoredIn(d)') =
           IF d = Day(b) THEN Cardinality(StoredIn(d)) + 1 ELSE Cardinality(StoredIn(d))
<1>1. IsFiniteSet(StoredIn(d))
  BY FiniteHours DEF Types, StoredIn
<1>2. CASE d = Day(b)
  <2>1. StoredIn(d)' = StoredIn(d) \cup {b} /\ b \notin StoredIn(d)
    BY <1>2 DEF StoredIn
  <2> QED
    BY <1>1, <1>2, <2>1, FS_AddElement
<1>3. CASE d # Day(b)
  <2>1. StoredIn(d)' = StoredIn(d)
    BY <1>3 DEF StoredIn
  <2> QED
    BY <1>3, <2>1
<1> QED
  BY <1>2, <1>3

LEMMA NextSummaries ==
  ASSUME ZoneOffset <= 0
  PROVE  Types /\ Progress /\ Uncounted /\ SummariesKept /\ [Next]_vars => SummariesKept'
<1> SUFFICES ASSUME Types, Progress, Uncounted, SummariesKept, [Next]_vars
             PROVE  SummariesKept'
  OBVIOUS
<1>t. /\ hourly \in [Hours -> Nat] /\ daily \in [Days -> Nat]
      /\ raw \subseteq Hours /\ ever \subseteq Hours /\ job \in Job
  BY DEF Types
<1>h. \A h \in ever : Kept(h, 3) /\ Spared(Day(h)) => hourly[h] = 1
  BY DEF SummariesKept
<1>d. \A d \in Days : Kept(DayStart(d), 6) /\ Spared(d) => daily[d] = Cardinality(StoredIn(d))
  BY DEF SummariesKept
<1>1. CASE RunRetentionCleanup
  <2>1. ASSUME NEW h \in ever, Kept(h, 3)', Spared(Day(h)) PROVE hourly'[h] = 1
    <3>1. h \in Int /\ h \in Hours
      BY <1>t, Numbers DEF Hours
    <3>2. Kept(h, 3) /\ h >= Cutoff(3) /\ Cutoff(3) \in Int
      BY <1>1, <2>1, <3>1, CleanupKeeps, Numbers DEF Types, Hours, Cutoff
    <3>3. ~(h < Cutoff(3))
      BY <3>1, <3>2
    <3> QED
      BY <1>1, <1>h, <2>1, <3>1, <3>2, <3>3 DEF RunRetentionCleanup
  <2>2. ASSUME NEW d \in Days, Kept(DayStart(d), 6)', Spared(d)
        PROVE  daily'[d] = Cardinality(StoredIn(d))
    <3>1. DayStart(d) \in Int
      BY DaysAreIntegers
    <3>2. Kept(DayStart(d), 6) /\ DayStart(d) >= Cutoff(6) /\ Cutoff(6) \in Int
      BY <1>1, <2>2, <3>1, CleanupKeeps, Numbers DEF Types, Hours, Cutoff
    <3>3. ~(DayStart(d) < Cutoff(6))
      BY <3>1, <3>2
    <3> QED
      BY <1>1, <1>d, <2>2, <3>2, <3>3 DEF RunRetentionCleanup
  <2>3. UNCHANGED <<ever, job>>
    BY <1>1 DEF RunRetentionCleanup
  <2> QED
    BY <2>1, <2>2, <2>3 DEF SummariesKept, Spared, StoredIn
<1>2. CASE Live
  <2>1. now \in Hours /\ now \notin ever /\ StoreBlock(now) /\ UNCHANGED <<cleaned, job>>
    BY <1>2 DEF Types, Live
  <2>2. ever' = ever \cup {now}
    BY <2>1 DEF StoreBlock
  <2>3. hourly'[now] = 1 /\ \A i \in Hours \ {now} : hourly'[i] = hourly[i]
    BY <2>1, StoredTypes DEF Uncounted
  <2>4. ASSUME NEW h \in ever', Kept(h, 3)', Spared(Day(h)) PROVE hourly'[h] = 1
    BY <1>h, <1>t, <2>1, <2>2, <2>3, <2>4 DEF Kept
  <2>5. ASSUME NEW d \in Days, Kept(DayStart(d), 6)', Spared(d)
        PROVE  daily'[d] = Cardinality(StoredIn(d)')
    <3>1. daily[d] = Cardinality(StoredIn(d))
      BY <1>d, <2>1, <2>5 DEF Kept
    <3>2. daily'[d] = IF d = Day(now) THEN daily[d] + 1 ELSE daily[d]
      BY <2>1, StoredTypes
    <3> QED
      BY <2>1, <2>2, <3>1, <3>2, OneMore
  <2> QED
    BY <2>1, <2>4, <2>5 DEF SummariesKept, Spared
<1>3. CASE BackfillBlock
  <2> DEFINE b == job.next
  <2>1. b \in Hours /\ ~Spared(Day(b))
    BY <1>3, BlockTouched
  <2>2. StoreBlock(b) /\ UNCHANGED <<cleaned, job.phase, job.from, job.to>>
    BY <1>t, <1>3 DEF BackfillBlock, Job
  <2> HIDE DEF b
  <2>3. ever' = ever \cup {b}
    BY <2>2 DEF StoreBlock
  <2>4. /\ \A i \in Hours \ {b} : hourly'[i] = hourly[i]
        /\ \A d \in Days \ {Day(b)} : daily'[d] = daily[d]
    BY <2>1, <2>2, StoredTypes
  <2>5. ASSUME NEW h \in ever', Kept(h, 3)', Spared(Day(h)) PROVE hourly'[h] = 1
    <3>1. h \in ever /\ h # b /\ Kept(h, 3)
      BY <2>1, <2>2, <2>3, <2>5 DEF Kept
    <3> QED
      BY <1>h, <1>t, <2>4, <2>5, <3>1
  <2>6. ASSUME NEW d \in Days, Kept(DayStart(d), 6)', Spared(d)
        PROVE  daily'[d] = Cardinality(StoredIn(d)')
    <3>1. d # Day(b) /\ Kept(DayStart(d), 6)
      BY <2>1, <2>2, <2>6 DEF Kept
    <3>2. StoredIn(d)' = StoredIn(d)
      BY <2>3, <3>1 DEF StoredIn
    <3> QED
      BY <1>d, <2>4, <2>6, <3>1, <3>2
  <2> QED
    BY <2>2, <2>5, <2>6 DEF SummariesKept, Spared
<1>4. CASE Recalculate
  <2> DEFINE found == {h \in raw : Day(job.from) <= Day(h) /\ Day(h) <= Day(job.to)}
             InDay(d) == {h \in found : Day(h) = d}
  <2>1. /\ hourly' = [h \in Hours |-> IF h \in found THEN 1 ELSE hourly[h]]
        /\ daily' = [d \in Days |-> IF InDay(d) # {} THEN Cardinality(InDay(d)) ELSE daily[d]]
        /\ UNCHANGED <<cleaned, ever>> /\ job.phase = "running"
    BY <1>4 DEF Recalculate
  <2>2. /\ job'.phase = "done" /\ job'.from = job.from /\ job'.to = job.to
        /\ Day(job.from) \in Int /\ Day(job.to) \in Int
    BY <1>t, <1>4, InItsDay DEF Recalculate, Job
  <2>3. ASSUME NEW d, Spared(d) PROVE d < Day(job.from) \/ Day(job.to) < d
    BY <2>1, <2>3 DEF Spared
  <2>4. ASSUME NEW h \in ever, Spared(Day(h)) PROVE hourly'[h] = hourly[h]
    <3>1. Day(h) \in Int /\ h \in Hours
      BY <1>t, InItsDay
    <3>2. h \notin found
      BY <2>2, <2>3, <2>4, <3>1
    <3> HIDE DEF found
    <3> QED
      BY <2>1, <3>1, <3>2
  <2>5. ASSUME NEW d \in Days, Spared(d) PROVE daily'[d] = daily[d]
    <3>1. d \in Int
      BY InItsDay DEF Days, Day
    <3>2. InDay(d) = {}
      BY <2>2, <2>3, <2>5, <3>1
    <3> HIDE DEF InDay
    <3> QED
      BY <2>1, <3>2
  <2>6. \A d : Spared(d)' <=> d < Day(job.from) \/ Day(job.to) < d
    BY <2>2 DEF Spared
  <2>7. ASSUME NEW h \in ever, Kept(h, 3)', Spared(Day(h))' PROVE hourly'[h] = 1
    <3>1. Spared(Day(h)) /\ Kept(h, 3)
      BY <2>1, <2>6, <2>7 DEF Spared, Kept
    <3> QED
      BY <1>h, <2>4, <3>1
  <2>8. ASSUME NEW d \in Days, Kept(DayStart(d), 6)', Spared(d)'
        PROVE  daily'[d] = Cardinality(StoredIn(d))
    <3>1. Spared(d) /\ Kept(DayStart(d), 6)
      BY <2>1, <2>6, <2>8 DEF Spared, Kept
    <3> QED
      BY <1>d, <2>5, <3>1
  <2> QED
    BY <2>1, <2>7, <2>8 DEF SummariesKept, StoredIn
<1>5. ASSUME NEW from \in Hours, NEW to \in Hours, BackfillStart(from, to) PROVE SummariesKept'
  <2>1. \A d : Spared(d)
    BY <1>5 DEF BackfillStart, Spared
  <2>2. UNCHANGED <<ever, hourly, daily, cleaned>>
    BY <1>5 DEF BackfillStart
  <2> QED
    BY <1>h, <1>d, <2>1, <2>2 DEF SummariesKept, StoredIn, Kept
<1>6. CASE UNCHANGED <<ever, hourly, daily, cleaned, job>>
  BY <1>h, <1>d, <1>6 DEF SummariesKept, StoredIn, Kept, Spared
<1> QED
  BY <1>1, <1>2, <1>3, <1>4, <1>5, <1>6 DEF Next, Tick, Over, vars

\* "Kept 3-6x longer than raw events": where the local time is UTC or behind it,
\* the hourly and daily rows of three and six retention periods count every block
\* ever stored, although the raw rows they were made from are gone, in every day that
\* no backfill touches.
THEOREM SummariesHold ==
  ASSUME ZoneOffset <= 0
  PROVE  Spec => []SummariesKept
<1>1. Init => SummariesKept
  <2> SUFFICES ASSUME Init PROVE SummariesKept
    OBVIOUS
  <2>1. Cardinality({}) = 0
    BY FS_EmptySet
  <2>2. \A d \in Days : daily[d] = 0 /\ StoredIn(d) = {}
    BY DEF Init, StoredIn
  <2> QED
    BY <2>1, <2>2 DEF Init, SummariesKept
<1>2. Types /\ Progress /\ Uncounted /\ SummariesKept /\ [Next]_vars => SummariesKept'
  BY NextSummaries
<1> QED
  BY <1>1, <1>2, SpecProgress, SpecTypes, PTL DEF Spec

=============================================================================
