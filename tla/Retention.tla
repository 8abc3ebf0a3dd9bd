----------------------------- MODULE Retention ------------------------------
(***************************************************************************)
(* Retention (store/sqlite.go): a goroutine that every hour deletes, in    *)
(* one transaction, raw rows, hourly summaries and daily summaries older   *)
(* than one, three and six times the retention period, while blocks are    *)
(* stored and a backfill goes through old ones and recalculates summaries. *)
(*                                                                         *)
(* Time is counted in hours.  A block stands for the claims of one hour,   *)
(* and is that hour, the time of its header, stored in UTC; a summary row  *)
(* is the number of blocks it counts, 0 if there is no row.  How two       *)
(* writers of one row interleave, and rows with a wall clock, are matters  *)
(* of Processor: here a block is stored and reported in one step.          *)
(***************************************************************************)
EXTENDS Integers, FiniteSets

CONSTANTS
  MaxNow,           \* bound: the last hour
  Keep,             \* the retention period in hours, 0 for ever
  HoursPerDay,
  ZoneOffset,       \* hours the local time zone is ahead of UTC
  Backfills         \* TRUE if a backfill may run

ASSUME RetentionAssumption ==
  /\ MaxNow \in Nat /\ Keep \in Nat /\ HoursPerDay \in Nat \ {0}
  /\ ZoneOffset \in Int /\ Backfills \in BOOLEAN

VARIABLES
  now,              \* the hour
  raw,              \* blocks in the raw tables and in processed_blocks
  hourly, daily,    \* the summary tables
  job,              \* the backfill: its range and how far it is
  cleaned,          \* history: when the last cleanup ran, -1 if none has
  ever              \* history: the blocks ever stored

vars == <<now, raw, hourly, daily, job, cleaned, ever>>

Hours == 0..MaxNow
Day(h) == h \div HoursPerDay
Days == {Day(h) : h \in Hours}
DayStart(d) == d * HoursPerDay
NoJob == [phase |-> "none", from |-> 0, to |-> 0, next |-> 0]

Init ==
  /\ now = 0 /\ raw = {} /\ ever = {} /\ cleaned = -1
  /\ hourly = [h \in Hours |-> 0] /\ daily = [d \in Days |-> 0]
  /\ job = NoJob

Tick ==
  /\ now < MaxNow /\ now' = now + 1
  /\ UNCHANGED <<raw, hourly, daily, job, cleaned, ever>>

\* InsertBlockEvents and ReportBlock: a block already there is ignored by the
\* first, but accumulated by the second
StoreBlock(h) ==
  /\ raw' = raw \cup {h} /\ ever' = ever \cup {h}
  /\ hourly' = [hourly EXCEPT ![h] = @ + 1]
  /\ daily' = [daily EXCEPT ![Day(h)] = @ + 1]

\* the collector stores the block of this hour
Live ==
  /\ now \notin ever
  /\ StoreBlock(now)
  /\ UNCHANGED <<now, job, cleaned>>

-----------------------------------------------------------------------------
(* The cleanup.                                                            *)

\* The cutoff is formatted in the local zone and compared, as a string, with
\* times formatted in UTC.
CutoffLate(periods) == now + ZoneOffset - periods * Keep + 1        \* mutant: off by one
CutoffSame(periods) == now + ZoneOffset - Keep                    \* mutant: no multiples
Cutoff(periods) == now + ZoneOffset - periods * Keep

RunRetentionCleanup ==
  /\ Keep > 0 /\ cleaned < now
  /\ raw' = {h \in raw : h >= Cutoff(1)}
  /\ hourly' = [h \in Hours |-> IF h < Cutoff(3) THEN 0 ELSE hourly[h]]
  /\ daily' = [d \in Days |-> IF DayStart(d) < Cutoff(6) THEN 0 ELSE daily[d]]
  /\ cleaned' = now
  /\ UNCHANGED <<now, job, ever>>

-----------------------------------------------------------------------------
(* A backfill, in the monitor or by the backfill command.                  *)

BackfillStart(from, to) ==
  /\ Backfills /\ job.phase = "none" /\ from <= to /\ to < now
  /\ job' = [phase |-> "running", from |-> from, to |-> to, next |-> from]
  /\ UNCHANGED <<now, raw, hourly, daily, cleaned, ever>>

BackfillBlock ==
  /\ job.phase = "running" /\ job.next <= job.to
  /\ StoreBlock(job.next)
  /\ job' = [job EXCEPT !.next = @ + 1]
  /\ UNCHANGED <<now, cleaned>>

\* mutant: the range is not expanded to whole days
RecalculateRange ==
  LET found == {h \in raw : job.from <= h /\ h <= job.to}
      InDay(d) == {h \in found : Day(h) = d}
  IN  /\ job.phase = "running" /\ job.next > job.to
      /\ hourly' = [h \in Hours |-> IF h \in found THEN 1 ELSE hourly[h]]
      /\ daily' = [d \in Days |-> IF InDay(d) # {} THEN Cardinality(InDay(d)) ELSE daily[d]]
      /\ job' = [job EXCEPT !.phase = "done"]
      /\ UNCHANGED <<now, raw, cleaned, ever>>

\* RecalculateSummariesForRange: rows with raw blocks are replaced, others left
Recalculate ==
  LET found == {h \in raw : Day(job.from) <= Day(h) /\ Day(h) <= Day(job.to)}
      InDay(d) == {h \in found : Day(h) = d}
  IN  /\ job.phase = "running" /\ job.next > job.to
      /\ hourly' = [h \in Hours |-> IF h \in found THEN 1 ELSE hourly[h]]
      /\ daily' = [d \in Days |-> IF InDay(d) # {} THEN Cardinality(InDay(d)) ELSE daily[d]]
      /\ job' = [job EXCEPT !.phase = "done"]
      /\ UNCHANGED <<now, raw, cleaned, ever>>

-----------------------------------------------------------------------------
Over == now = MaxNow /\ UNCHANGED vars

Next ==
  \/ Tick \/ Live \/ RunRetentionCleanup \/ Over
  \/ \E from, to \in Hours : BackfillStart(from, to)
  \/ BackfillBlock \/ Recalculate

Spec == Init /\ [][Next]_vars

-----------------------------------------------------------------------------
\* the last cleanup left what is not older than so many retention periods
Kept(since, periods) == Keep = 0 \/ cleaned = -1 \/ since >= cleaned - periods * Keep

\* A cleanup deletes only rows "older than the retention window": every block
\* stored since it, or younger, is in the raw tables.
KeepsWindow == \A h \in ever : Kept(h, 1) => h \in raw

\* a day the backfill, if there is one, leaves alone
Spared(d) == job.phase = "none" \/ d < Day(job.from) \/ Day(job.to) < d

\* the blocks stored in, and the raw rows left of, a day
StoredIn(d) == {h \in ever : Day(h) = d}
RawIn(d) == {h \in raw : Day(h) = d}

\* Summaries "are kept 3-6x longer than raw events": three and six periods long,
\* the hourly and daily rows count every block stored, also when its raw rows are
\* gone, in all the days a backfill does not touch.
SummariesKept ==
  /\ \A h \in ever : Kept(h, 3) /\ Spared(Day(h)) => hourly[h] = 1
  /\ \A d \in Days : Kept(DayStart(d), 6) /\ Spared(d) => daily[d] = Cardinality(StoredIn(d))

\* Not a property of the code: the same, of all days, once a backfill has recalculated
\* the summaries of its range.
SummariesKeptByBackfill ==
  job.phase # "running" =>
    /\ \A h \in ever : Kept(h, 3) => hourly[h] = 1
    /\ \A d \in Days : Kept(DayStart(d), 6) => daily[d] = Cardinality(StoredIn(d))

\* If five retention periods span a day, the raw rows of a block never outlive its
\* summaries: whenever a cleanup falls among the blocks and the recalculation of a
\* backfill, a daily row counts at least what is left of its day; and but for a
\* backfill under way, that may count a block again, an hourly row is right.
SummariesCoverRaw ==
  5 * Keep >= HoursPerDay =>
    \A h \in raw :
      /\ hourly[h] > 0 /\ daily[Day(h)] >= Cardinality(RawIn(Day(h)))
      /\ job.phase # "running" => hourly[h] = 1

=============================================================================
