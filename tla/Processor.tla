----------------------------- MODULE Processor ------------------------------
(***************************************************************************)
(* ProcessBlock and the summaries (processor/processor.go, reporter.go, and *)
(* the tables of store/sqlite.go they use): how one or more goroutines put *)
(* blocks into the raw tables and keep the hourly and daily summaries.     *)
(*                                                                         *)
(* A goroutine that processes blocks is a writer: the collector (live), or *)
(* a backfill, which rebuilds the summaries of its days when it is through. *)
(* Its steps are the statements it sends to the database, which has one    *)
(* connection and runs one statement, or one transaction, at a time.  A    *)
(* block holds one settled claim, and a summary row the number of claims   *)
(* it has counted; the other columns are accumulated alike, but for the    *)
(* count of active suppliers, which is made anew each time and left out.   *)
(*                                                                         *)
(* Hours, days and services follow from the height; but a live block whose *)
(* header query failed has the wall clock for its time, and is put an hour *)
(* later.  A row stores its time as text: the time of a header in UTC, the *)
(* wall clock in the zone of the host.  Queries compare the text with      *)
(* bounds in UTC; whoever reads a row knows the true time.  A block is     *)
(* taken to lie past the first second of its hour.                         *)
(***************************************************************************)
EXTENDS Integers, Sequences, FiniteSets

CONSTANTS
  LiveBlocks,       \* heights the collector processes, in ascending order
  BackfillBlocks,   \* heights a backfill processes, in ascending order
  InitialRaw,       \* heights in the raw tables at the start, some of them unreported
  BlocksPerHour, HoursPerDay, Services,
  Delayed,          \* heights whose header query fails when they are live
  ZoneOffset,       \* how many hours the zone of the host is ahead of UTC
  MayFail           \* TRUE if a statement may fail

ASSUME ProcessorAssumption ==
  /\ LiveBlocks \subseteq Nat \ {0} /\ BackfillBlocks \subseteq Nat \ {0}
  /\ InitialRaw \subseteq Nat \ {0}
  /\ IsFiniteSet(LiveBlocks) /\ IsFiniteSet(BackfillBlocks) /\ IsFiniteSet(InitialRaw)
  /\ BlocksPerHour \in Nat \ {0} /\ HoursPerDay \in Nat \ {0} /\ Services \in Nat \ {0}
  /\ Delayed \subseteq Nat /\ ZoneOffset \in Int /\ MayFail \in BOOLEAN

VARIABLES
  raw,          \* the raw event tables
  rows,         \* the four summary tables
  known,        \* Reporter.knownServiceIDs, one map for all goroutines
  counters,     \* how often dispatchMetrics counted a height
  writers,      \* the goroutines
  missed        \* history: heights whose ReportBlock has, or may have, failed

vars == <<raw, rows, known, counters, writers, missed>>

Blocks == LiveBlocks \cup BackfillBlocks \cup InitialRaw
Hour(b) == b \div BlocksPerHour
Day(hour) == hour \div HoursPerDay
Service(b) == b % Services
Network == Services          \* the key of the network-wide tables

\* the time a writer has for a block, here its hour: that of the header, or the wall
\* clock
BlockHour(b, live) == IF live /\ b \in Delayed THEN Hour(b) + 1 ELSE Hour(b)

\* What a block puts into the raw tables: its time is in one hour, and the text stored
\* for it names another if it is a wall clock that is not in UTC.
Row(b, live) ==
  LET hour == BlockHour(b, live)
  IN  [block |-> b, hour |-> hour,
       written |-> hour + (IF live /\ b \in Delayed THEN ZoneOffset ELSE 0)]

Period(kind, hour) == IF kind = "hour" THEN hour ELSE Day(hour)
Keys == {[kind |-> k, period |-> Period(k, BlockHour(b, live)), service |-> s] :
           k \in {"hour", "day"}, b \in Blocks, live \in BOOLEAN, s \in 0..Network}

\* the claims of the raw rows es that belong to a summary row
InRow(key, e) ==
  Period(key.kind, e.hour) = key.period /\ key.service \in {Service(e.block), Network}
Aggregate(key, es) == Cardinality({e \in es : InRow(key, e)})

\* the rows ReportBlock visits for one kind of period: every known service, then
\* the network
RowsOfNextPeriod(kind, hour, services) ==     \* mutant: the end of the period
  {[kind |-> kind, period |-> Period(kind, hour) + 1, service |-> s] :
     s \in services \cup {Network}}
RowsOf(kind, hour, services) ==
  {[kind |-> kind, period |-> Period(kind, hour), service |-> s] :
     s \in services \cup {Network}}
NextRows(todo) ==
  LET ofServices == {k \in todo : k.service # Network}
  IN  IF ofServices = {} THEN todo ELSE ofServices

\* Query...ForPeriod: the raw events whose text lies between the start of one day and
\* the end of another
ForPeriod(from, to) == {e \in raw : from <= Day(e.written) /\ Day(e.written) <= to}

\* The raw events a recalculation for the blocks bs finds: those of whole days, from
\* the header of the first block to that of the last.
AffectedHours(bs) == {e \in raw : \E b \in bs : e.written = Hour(b)}  \* mutant: not expanded
Affected(bs) == UNION {ForPeriod(Day(Hour(b)), Day(Hour(c))) : b, c \in bs}

DistinctServiceIDs(es) == {Service(e.block) : e \in es}

InitialRows == {Row(b, TRUE) : b \in InitialRaw}

Least(S) == CHOOSE b \in S : \A c \in S : b <= c

Writer(blocks, live) ==
  [pc |-> "idle", left |-> blocks, live |-> live, block |-> 0, todo |-> {}, at |-> {},
   got |-> 0, found |-> {}]

-----------------------------------------------------------------------------
\* how far ReportBlock comes before it writes a row: hours before days, services
\* before the network
Turn(key) == (IF key.kind = "hour" THEN 1 ELSE 3) + (IF key.service = Network THEN 1 ELSE 0)

\* A process finds raw rows, and summary rows in which the report of each of these
\* blocks, that may have failed, has counted it up to some row.
Init ==
  /\ raw = InitialRows /\ missed = InitialRaw
  /\ \E reported \in [InitialRaw -> 0..4] :
       rows = [k \in Keys |-> Aggregate(k, {e \in InitialRows : Turn(k) <= reported[e.block]})]
  /\ known = DistinctServiceIDs(InitialRows)
  /\ counters = [b \in Blocks |-> 0]
  /\ writers = <<Writer(LiveBlocks, TRUE), Writer(BackfillBlocks, FALSE)>>

Set(w, r) == writers' = [writers EXCEPT ![w] = r]

\* InsertBlockEvents: one transaction, a row that exists is ignored, whatever its time
Insert(w) ==
  LET r == writers[w]
      b == Least(r.left) IN
  /\ r.pc = "idle" /\ r.left # {}
  /\ raw' = IF \E e \in raw : e.block = b THEN raw ELSE raw \cup {Row(b, r.live)}
  /\ Set(w, [r EXCEPT !.pc = "inserted", !.block = b, !.left = @ \ {b}])
  /\ UNCHANGED <<rows, known, counters, missed>>

\* it fails: the collector returns, a backfill gives up
InsertFails(w) ==
  /\ MayFail /\ writers[w].pc = "idle" /\ writers[w].left # {}
  /\ Set(w, [writers[w] EXCEPT !.pc = "failed"])
  /\ UNCHANGED <<raw, rows, known, counters, missed>>

\* the counters of a block, if it is live
DispatchMetrics(r) == counters' = [counters EXCEPT ![r.block] = @ + (IF r.live THEN 1 ELSE 0)]

\* dispatchMetrics, and the beginning of ReportBlock, which notes the service
Report(w) ==
  LET r == writers[w]
      services == known \cup {Service(r.block)} IN
  /\ r.pc = "inserted"
  /\ DispatchMetrics(r)
  /\ known' = services
  /\ Set(w, [r EXCEPT !.pc = "hour", !.todo = RowsOf("hour", BlockHour(r.block, r.live), services)])
  /\ UNCHANGED <<raw, rows, missed>>

\* Get...Summary...
ReadRow(w, key) ==
  LET r == writers[w] IN
  /\ r.pc \in {"hour", "day"} /\ key \in NextRows(r.todo)
  /\ Set(w, [r EXCEPT !.pc = IF r.pc = "hour" THEN "hourRead" ELSE "dayRead",
                      !.todo = @ \ {key}, !.got = rows[key], !.at = {key}])
  /\ UNCHANGED <<raw, rows, known, counters, missed>>

\* what Upsert...Summary... writes, e being the block at the time its writer has
AccumulateAgain(got, key, e) == got + 2 * Aggregate(key, {e})   \* mutant: counted twice
Accumulate(got, key, e) == got + Aggregate(key, {e})

\* where the writer goes next: another row, the daily tables, or the next block
AfterRow(r) ==
  LET hour == r.pc = "hourRead"
      done == [r EXCEPT !.at = {}, !.got = 0]
  IN  CASE r.todo # {} -> [done EXCEPT !.pc = IF hour THEN "hour" ELSE "day"]
        [] r.todo = {} /\ hour ->
             [done EXCEPT !.pc = "day",
                          !.todo = RowsOf("day", BlockHour(r.block, r.live), known)]
        [] OTHER -> [done EXCEPT !.pc = "idle"]

WriteRow(w) ==
  LET r == writers[w] IN
  /\ r.pc \in {"hourRead", "dayRead"}
  /\ \E key \in r.at :
       /\ rows' = [rows EXCEPT ![key] = Accumulate(r.got, key, Row(r.block, r.live))]
       /\ Set(w, AfterRow(r))
  /\ UNCHANGED <<raw, known, counters, missed>>

\* a read or a write fails: ProcessBlock logs it and goes on, the rest is missing
ReportFails(w) ==
  /\ MayFail /\ writers[w].pc \in {"hour", "hourRead", "day", "dayRead"}
  /\ Set(w, [writers[w] EXCEPT !.pc = "idle", !.todo = {}, !.at = {}, !.got = 0])
  /\ missed' = missed \cup {writers[w].block}
  /\ UNCHANGED <<raw, rows, known, counters>>

\* RecalculateSummariesForRange, once a backfill has done its blocks: the raw
\* events of every day it touched ...
Recalculate(w) ==
  LET r == writers[w]
      found == Affected(BackfillBlocks)
      services == known \cup DistinctServiceIDs(found)
      todo == UNION {RowsOf(k, e.hour, services) : k \in {"hour", "day"}, e \in found} IN
  /\ ~r.live /\ r.pc = "idle" /\ r.left = {} /\ r.block # 0
  /\ known' = services
  /\ Set(w, [r EXCEPT !.pc = IF todo = {} THEN "done" ELSE "recalc",
               !.found = found, !.todo = todo])
  /\ UNCHANGED <<raw, rows, counters, missed>>

\* ... replace each row with what was found
ReplaceRow(w, key) ==
  LET r == writers[w] IN
  /\ r.pc = "recalc" /\ key \in r.todo
  /\ rows' = [rows EXCEPT ![key] = Aggregate(key, r.found)]
  /\ Set(w, IF r.todo = {key} THEN [r EXCEPT !.pc = "done", !.todo = {}]
                              ELSE [r EXCEPT !.todo = @ \ {key}])
  /\ UNCHANGED <<raw, known, counters, missed>>

RecalculateFails(w) ==
  /\ MayFail /\ writers[w].pc = "recalc"
  /\ Set(w, [writers[w] EXCEPT !.pc = "failed", !.todo = {}, !.found = {}])
  /\ UNCHANGED <<raw, rows, known, counters, missed>>

-----------------------------------------------------------------------------
Finished(w) ==
  \/ writers[w].pc \in {"done", "failed"}
  \/ writers[w].pc = "idle" /\ writers[w].left = {} /\ (writers[w].live \/ writers[w].block = 0)

AllFinished == (\A w \in DOMAIN writers : Finished(w)) /\ UNCHANGED vars

Step(w) ==
  \/ Insert(w) \/ InsertFails(w) \/ Report(w) \/ WriteRow(w) \/ ReportFails(w)
  \/ Recalculate(w) \/ RecalculateFails(w)
  \/ \E key \in writers[w].todo : ReadRow(w, key) \/ ReplaceRow(w, key)

Next == (\E w \in DOMAIN writers : Step(w)) \/ AllFinished

Spec == Init /\ [][Next]_vars

-----------------------------------------------------------------------------
\* Every variable has its type, and no row outside the periods of the blocks is
\* ever visited.
TypeOK ==
  /\ raw \subseteq {Row(b, live) : b \in Blocks, live \in BOOLEAN} /\ missed \subseteq Blocks
  /\ known \subseteq 0..Services - 1
  /\ DOMAIN rows = Keys /\ \A k \in Keys : rows[k] \in Nat
  /\ DOMAIN counters = Blocks /\ \A b \in Blocks : counters[b] \in Nat
  /\ \A w \in 1..2 : writers[w].pc \in {"idle", "inserted", "hour", "hourRead", "day", "dayRead",
                                          "recalc", "done", "failed"}
                    /\ writers[w].todo \cup writers[w].at \subseteq Keys
                    /\ writers[w].left \subseteq Blocks /\ writers[w].found \subseteq raw

Alone(w) == \A v \in DOMAIN writers \ {w} : writers[v].block = 0

\* The collector alone keeps the summaries: between two blocks every hourly and
\* daily row holds exactly the claims of the blocks in the database, except that
\* blocks whose ReportBlock failed on the way may be missing from some rows.
\* Nothing is ever counted twice, and no row has more than the raw tables, also with
\* blocks that have the wall clock for their time.
LiveSummaries ==
  Alone(1) /\ writers[1].pc = "idle" =>
    \A k \in Keys : /\ rows[k] <= Aggregate(k, raw)
                    /\ rows[k] >= Aggregate(k, {e \in raw : e.block \notin missed})

\* the text of every raw row that belongs to a summary row names the day it is in
WrittenInDay(key) == \A e \in raw : InRow(key, e) => Day(e.written) = Day(e.hour)

\* the raw tables have an event for the row that a backfill's recalculation finds
Found(key) == \E e \in Affected(BackfillBlocks) : InRow(key, e)

\* A completed recalculation repairs the summaries: whatever the rows held, and
\* though blocks already in the database were processed and accumulated again, some
\* at another time than their row has, each row of a period of the days touched that
\* has raw events is what the raw tables say, unless one of these events has a wall
\* clock for its time which the zone of the host puts into another day.
RecalculationRepairs ==
  Alone(2) /\ writers[2].pc = "done" =>
    \A k \in Keys : Found(k) /\ WrittenInDay(k) => rows[k] = Aggregate(k, raw)

\* Not a property of the code where the host is not in UTC: a recalculation is made
\* from all the events of each day it replaces.  The query misses a row whose text is
\* of another day, or finds it among those of that day and replaces a row of its own
\* day with it alone.
RecalculationExact ==
  Alone(2) /\ writers[2].pc = "done" =>
    \A k \in Keys : Found(k) => rows[k] = Aggregate(k, raw)

\* Not a property of the code: after a recalculation no row counts more than the raw
\* tables.  A block stored with the wall clock is accumulated at the hour of its
\* header when it is backfilled, and a row without raw events is not replaced.
NoPhantomRows ==
  Alone(2) /\ writers[2].pc = "done" => \A k \in Keys : rows[k] <= Aggregate(k, raw)

\* "This makes concurrent live + backfill safe without locks": when a live writer
\* and a backfill have both finished, the summaries are those of the raw tables.
ConcurrentSummaries ==
  (\A w \in DOMAIN writers : Finished(w)) => \A k \in Keys : rows[k] = Aggregate(k, raw)

\* w is in a loop over knownServiceIDs
Iterating(w) ==
  \/ writers[w].pc = "recalc"
  \/ \E k \in writers[w].todo \cup writers[w].at : k.service # Network

\* The same sentence, of the map: no goroutine adds a service to knownServiceIDs
\* while another is in a loop over it, which the Go runtime would abort.
MapIsSafe ==
  \A v, w \in DOMAIN writers :
    v # w /\ Iterating(v) => writers[w].pc # "inserted"

=============================================================================
