----------------------------- MODULE Backfiller -----------------------------
(***************************************************************************)
(* The backfiller (cmd/backfiller.go), the part of the monitor that reads  *)
(* blocks over RPC instead of the WebSocket:                               *)
(*                                                                         *)
(*   - RunIfNeeded, once per process, in the errgroup: from the highest    *)
(*     processed height, or --from, to the height the node reports;        *)
(*   - BackfillRange, one goroutine per gap the subscriber reports, outside *)
(*     the errgroup and under context.Background().                        *)
(*                                                                         *)
(* Both take one height after the other, retry a fetch with a delay and    *)
(* give up for good after the last retry; both end by recalculating the    *)
(* summaries of the range, which is Reporter's matter.  A block is its     *)
(* height, the database the set of heights in processed_blocks.            *)
(***************************************************************************)
EXTENDS Integers, Sequences, FiniteSets, FiniteSetsExt

CONSTANTS
  MaxHeight,        \* bound: the chain stops growing here
  MaxGaps,          \* bound: gaps the subscriber reports
  Retries,          \* retries of a fetch, 10 in the code
  RequestedFroms,   \* values of the --from flag as a height, 0 if not set
  LiveCatchup       \* liveCatchupThreshold > 0

ASSUME BackfillerAssumption ==
  /\ MaxHeight \in Nat \ {0} /\ MaxGaps \in Nat /\ Retries \in Nat
  /\ RequestedFroms \subseteq 0..MaxHeight /\ LiveCatchup \in BOOLEAN

VARIABLES
  chain,            \* latest height of the chain
  gaps,             \* ranges the subscriber has passed to onGap, in order
  canceled,         \* ctx.Done() of the errgroup
  stored,           \* heights in processed_blocks
  liveCounted,      \* how often counters and notifications fired for a height
  startup,          \* RunIfNeeded
  tasks,            \* the BackfillRange goroutines, one per gap
  remaining         \* psm_backfill_blocks_remaining

vars == <<chain, gaps, canceled, stored, liveCounted, startup, tasks, remaining>>

Heights == 1..MaxHeight

\* LastProcessedHeight: MAX(height), 0 for an empty database
LastProcessedHeight(db) == IF db = {} THEN 0 ELSE Max(db)

\* where RunIfNeeded starts, given what the database and the flag say
FromHeightFlagWins(last, requested) ==  \* mutant: --from is used whenever it is set
  IF requested > 0 THEN requested ELSE last + 1
FromHeight(last, requested) ==
  IF requested > 0 /\ (last = 0 \/ requested < last) THEN requested ELSE last + 1

\* a fresh database without --from is not backfilled at all
FirstRun(last, requested) == last = 0 /\ requested = 0

-----------------------------------------------------------------------------
\* A process that starts finds a database with any heights of the chain in it.
Init ==
  /\ chain \in Heights
  /\ stored \in SUBSET (1..chain)
  /\ gaps = <<>> /\ canceled = FALSE
  /\ liveCounted = [h \in Heights |-> 0]
  /\ startup \in [phase : {"begin"}, requested : RequestedFroms, last : {0}, from : {1},
                  to : {0}, next : {1}, attempt : {0}]
  /\ tasks = <<>>
  /\ remaining = 0

(* The chain, the subscriber and the signal handler.                       *)

Commit ==
  /\ chain < MaxHeight
  /\ chain' = chain + 1
  /\ UNCHANGED <<gaps, canceled, stored, liveCounted, startup, tasks, remaining>>

\* the subscriber reports a gap above the ones before it
ReportGap(from, to) ==
  /\ ~canceled /\ Len(gaps) < MaxGaps
  /\ \A i \in 1..Len(gaps) : gaps[i].to < from
  /\ from <= to /\ to < chain
  /\ gaps' = Append(gaps, [from |-> from, to |-> to])
  /\ UNCHANGED <<chain, canceled, stored, liveCounted, startup, tasks, remaining>>

Cancel ==
  /\ ~canceled
  /\ canceled' = TRUE
  /\ UNCHANGED <<chain, gaps, stored, liveCounted, startup, tasks, remaining>>

-----------------------------------------------------------------------------
(* ProcessBlock, as the backfiller calls it: the block is stored, and live *)
(* blocks are counted.                                                     *)
Process(h, isLive) ==
  /\ stored' = stored \cup {h}
  /\ liveCounted' = [liveCounted EXCEPT ![h] = @ + (IF isLive THEN 1 ELSE 0)]

(* RunIfNeeded.                                                            *)

\* it returns an error, so the errgroup cancels everything
StartupError ==
  /\ startup.phase \in {"begin", "status", "running"}
  /\ startup' = [startup EXCEPT !.phase = "failed"]
  /\ canceled' = TRUE
  /\ UNCHANGED <<chain, gaps, stored, liveCounted, tasks, remaining>>

\* the client, the database, the node's status or --from cannot be had
StartupFails == startup.phase \in {"begin", "status"} /\ StartupError

\* LastProcessedHeight
StartupReadLast ==
  /\ startup.phase = "begin" /\ ~canceled
  /\ startup' = [startup EXCEPT !.phase = "status", !.last = LastProcessedHeight(stored)]
  /\ UNCHANGED <<chain, gaps, canceled, stored, liveCounted, tasks, remaining>>

\* Status, --from and the decision: no backfill on a first run or without a gap
StartupDecide ==
  /\ startup.phase = "status" /\ ~canceled
  /\ LET from == FromHeight(startup.last, startup.requested)
     IN  IF FirstRun(startup.last, startup.requested)
         THEN startup' = [startup EXCEPT !.phase = "done"] /\ UNCHANGED remaining
         ELSE /\ startup' = [startup EXCEPT !.from = from, !.to = chain, !.next = from,
                               !.phase = IF from <= chain THEN "running" ELSE "done"]
              /\ remaining' = IF from <= chain THEN chain - from + 1 ELSE remaining
  /\ UNCHANGED <<chain, gaps, canceled, stored, liveCounted, tasks>>

StartupFetchFailsForever ==             \* mutant: the attempts are not counted
  /\ startup.phase = "running" /\ startup.next <= startup.to
  /\ startup' = [startup EXCEPT !.attempt = 1 - @]
  /\ UNCHANGED <<chain, gaps, canceled, stored, liveCounted, tasks, remaining>>

\* a fetch fails: wait and try again, or give up after the last retry
StartupFetchFails ==
  /\ startup.phase = "running" /\ startup.next <= startup.to
  /\ \/ /\ startup.attempt < Retries
        /\ startup' = [startup EXCEPT !.attempt = @ + 1]
        /\ UNCHANGED <<chain, gaps, canceled, stored, liveCounted, tasks, remaining>>
     \/ startup.attempt = Retries /\ StartupError

\* the next block is fetched, decoded and processed, never as live
StartupBlock ==
  /\ startup.phase = "running" /\ startup.next <= startup.to /\ ~canceled
  /\ Process(startup.next, FALSE)
  /\ startup' = [startup EXCEPT !.next = @ + 1, !.attempt = 0]
  /\ remaining' = startup.to - startup.next
  /\ UNCHANGED <<chain, gaps, canceled, tasks>>

StartupProcessFailsSkips ==             \* mutant: the error is logged, and on to the next
  /\ startup.phase = "running" /\ startup.next <= startup.to
  /\ startup' = [startup EXCEPT !.next = @ + 1, !.attempt = 0]
  /\ UNCHANGED <<chain, gaps, canceled, stored, liveCounted, tasks, remaining>>
\* ProcessBlock fails
StartupProcessFails ==
  /\ startup.phase = "running" /\ startup.next <= startup.to
  /\ StartupError

\* ctx.Done between two blocks or during a delay, the one after the last included
StartupCanceled ==
  /\ startup.phase = "running" /\ canceled
  /\ startup' = [startup EXCEPT !.phase = "failed"]
  /\ UNCHANGED <<chain, gaps, canceled, stored, liveCounted, tasks, remaining>>

\* the loop is over; the summaries of the range are recalculated
StartupDone ==
  /\ startup.phase = "running" /\ startup.next > startup.to
  /\ startup' = [startup EXCEPT !.phase = "done"]
  /\ remaining' = 0
  /\ UNCHANGED <<chain, gaps, canceled, stored, liveCounted, tasks>>

(* BackfillRange, goroutine i.                                             *)

\* the goroutine of the next gap reported begins
RangeStart ==
  /\ Len(tasks) < Len(gaps)
  /\ LET g == gaps[Len(tasks) + 1]
     IN  /\ tasks' = Append(tasks, [from |-> g.from, to |-> g.to, next |-> g.from,
                                    attempt |-> 0, status |-> "running"])
         /\ remaining' = g.to - g.from + 1
  /\ UNCHANGED <<chain, gaps, canceled, stored, liveCounted, startup>>

Running(i) == tasks[i].status = "running" /\ tasks[i].next <= tasks[i].to

\* no client, retries exhausted or a block that cannot be processed: the error is
\* logged, the gauge reset and the rest of the range given up
RangeAbandon(i) ==
  /\ tasks' = [tasks EXCEPT ![i].status = "abandoned"]
  /\ remaining' = 0
  /\ UNCHANGED <<chain, gaps, canceled, stored, liveCounted, startup>>

RangeNoClient(i) ==
  /\ Running(i) /\ tasks[i].next = tasks[i].from /\ tasks[i].attempt = 0
  /\ RangeAbandon(i)

RangeFetchFailsSkips(i) ==              \* mutant: after the last retry, the next height
  /\ Running(i)
  /\ tasks' = [tasks EXCEPT ![i].next = @ + 1, ![i].attempt = 0]
  /\ UNCHANGED <<chain, gaps, canceled, stored, liveCounted, startup, remaining>>
RangeFetchFailsForever(i) ==            \* mutant: the attempts are not counted
  /\ Running(i)
  /\ tasks' = [tasks EXCEPT ![i].attempt = 1 - @]
  /\ UNCHANGED <<chain, gaps, canceled, stored, liveCounted, startup, remaining>>
RangeFetchFails(i) ==
  /\ Running(i)
  /\ \/ /\ tasks[i].attempt < Retries
        /\ tasks' = [tasks EXCEPT ![i].attempt = @ + 1]
        /\ UNCHANGED <<chain, gaps, canceled, stored, liveCounted, startup, remaining>>
     \/ tasks[i].attempt = Retries /\ RangeAbandon(i)

\* The next block is fetched and processed, as live if it is recent enough.
RangeBlock(i) ==
  /\ Running(i)
  /\ \E isLive \in {FALSE, LiveCatchup} : Process(tasks[i].next, isLive)
  /\ tasks' = [tasks EXCEPT ![i].next = @ + 1, ![i].attempt = 0]
  /\ remaining' = tasks[i].to - tasks[i].next
  /\ UNCHANGED <<chain, gaps, canceled, startup>>

RangeProcessFails(i) == Running(i) /\ RangeAbandon(i)

RangeDone(i) ==
  /\ tasks[i].status = "running" /\ tasks[i].next > tasks[i].to
  /\ tasks' = [tasks EXCEPT ![i].status = "done"]
  /\ remaining' = 0
  /\ UNCHANGED <<chain, gaps, canceled, stored, liveCounted, startup>>

-----------------------------------------------------------------------------
StartupNext ==
  \/ StartupFails \/ StartupReadLast \/ StartupDecide \/ StartupFetchFails
  \/ StartupBlock \/ StartupProcessFails \/ StartupCanceled \/ StartupDone

RangeNext(i) ==
  \/ RangeNoClient(i) \/ RangeFetchFails(i) \/ RangeBlock(i)
  \/ RangeProcessFails(i) \/ RangeDone(i)

BackfillNext == StartupNext \/ RangeStart \/ \E i \in 1..Len(tasks) : RangeNext(i)

\* every backfill has ended
Idle ==
  /\ startup.phase \in {"done", "failed"} /\ Len(tasks) = Len(gaps)
  /\ \A i \in 1..Len(tasks) : tasks[i].status # "running"
  /\ UNCHANGED vars

Next ==
  \/ Commit \/ Cancel \/ Idle
  \/ \E from, to \in Heights : ReportGap(from, to)
  \/ BackfillNext

Spec == Init /\ [][Next]_vars

\* Goroutines run, RPC calls return or fail, delays elapse.
FairSpec ==
  /\ Spec
  /\ WF_vars(StartupNext) /\ WF_vars(RangeStart)
  /\ \A i \in 1..MaxGaps : WF_vars(i <= Len(tasks) /\ RangeNext(i))

-----------------------------------------------------------------------------
StartupPhases == {"begin", "status", "running", "done", "failed"}

Task == [from : Heights, to : Heights, next : 1..MaxHeight + 1, attempt : 0..Retries,
         status : {"running", "done", "abandoned"}]

\* Every variable has its type; the loops stay within their ranges and a fetch is
\* tried at most Retries + 1 times.
TypeOK ==
  /\ chain \in Heights /\ stored \subseteq Heights
  /\ gaps \in Seq([from : Heights, to : Heights])
  /\ canceled \in BOOLEAN
  /\ liveCounted \in [Heights -> Nat]
  /\ startup \in [phase : StartupPhases, requested : RequestedFroms,
                   last : 0..MaxHeight, from : 1..MaxHeight + 1,
                  to : 0..MaxHeight, next : 1..MaxHeight + 1, attempt : 0..Retries]
  /\ tasks \in Seq(Task) /\ Len(tasks) <= Len(gaps)
  /\ remaining \in 0..MaxHeight

\* A backfill that says it is complete is: RunIfNeeded and BackfillRange finish
\* only with every height of their range in the database, however fetches fail.
CompleteMeansStored ==
  /\ startup.phase = "done" => (startup.from)..(startup.to) \subseteq stored
  /\ \A i \in 1..Len(tasks) : tasks[i].status = "done" =>
       (tasks[i].from)..(tasks[i].to) \subseteq stored

\* After a startup backfill, nothing is missing between what the database held
\* when RunIfNeeded read it and the height the node reported, with --from or
\* without, as the behaviour matrix of gap-recovery.md says.
StartupClosesGap ==
  startup.phase = "done" /\ startup.to > 0 =>
    \A h \in (startup.last + 1)..(startup.to) :
      startup.last > 0 \/ h >= startup.requested => h \in stored

\* A gap is never left half worked on: its goroutine completes or gives up.
RangesEnd ==
  \A i \in 1..MaxGaps : Len(gaps) >= i ~> i <= Len(tasks) /\ tasks[i].status # "running"

\* The startup backfill ends, and when it fails the monitor is stopped.
StartupEnds == <>(startup.phase = "done" \/ (startup.phase = "failed" /\ canceled))

\* "Prometheus counters increment ONLY from the live WebSocket path, NEVER from
\* backfill."
CountersOnlyLive == \A h \in Heights : liveCounted[h] = 0

\* psm_backfill_blocks_remaining is "0 when caught up".
ZeroMeansCaughtUp ==
  remaining = 0 =>
    \A i \in 1..Len(tasks) : (tasks[i].from)..(tasks[i].to) \subseteq stored

=============================================================================
