-------------------------- MODULE ProcessorProofs ---------------------------
(***************************************************************************)
(* Proofs about ProcessBlock and the summaries, for any blocks, lengths of *)
(* hour and day and number of services, and whatever statements fail: the  *)
(* types, what the collector alone leaves in the summary rows, and what a  *)
(* recalculation of a backfill that runs alone puts there.                 *)
(***************************************************************************)
EXTENDS Processor, FiniteSetTheorems, WellFoundedInduction, TLAPS

-----------------------------------------------------------------------------
(* Facts about blocks, rows and aggregates.                                *)

\* What the provers need of the constants.
LEMMA Numbers ==
  /\ Blocks \subseteq Nat \ {0} /\ IsFiniteSet(Blocks)
  /\ BlocksPerHour \in Nat /\ BlocksPerHour > 0 /\ HoursPerDay \in Nat /\ HoursPerDay > 0
  /\ Services \in Nat /\ Services > 0 /\ MayFail \in BOOLEAN
<1>1. IsFiniteSet(LiveBlocks \cup BackfillBlocks)
  BY ProcessorAssumption, FS_Union
<1>2. IsFiniteSet(Blocks)
  BY <1>1, ProcessorAssumption, FS_Union DEF Blocks
<1> QED
  BY <1>2, ProcessorAssumption DEF Blocks

\* The natural numbers, as pairs in their order.
Below == {ss \in Nat \X Nat : ss[1] < ss[2]}

\* A set of blocks has a least one.
LEMMA LeastBlock ==
  ASSUME NEW bs \in SUBSET Blocks, bs # {}
  PROVE  Least(bs) \in bs
<1>1. bs \subseteq Nat
  BY Numbers
<1>2. IsWellFoundedOn(Below, Nat)
  BY NatLessThanWellFounded DEF Below, OpToRel
<1>3. PICK b \in bs : \A c \in bs : ~(<<c, b>> \in Below)
  BY <1>1, <1>2, WFMin
<1>4. \A c \in bs : b <= c
  <2> SUFFICES ASSUME NEW c \in bs PROVE b <= c
    OBVIOUS
  <2>1. <<c, b>> \in Nat \X Nat /\ ~(<<c, b>> \in Below)
    BY <1>1, <1>3
  <2>2. ~(c < b)
    BY <2>1 DEF Below
  <2> QED
    BY <1>1, <2>2
<1> QED
  BY <1>4 DEF Least

\* The number of a service.
LEMMA ServiceOf ==
  ASSUME NEW b \in Blocks
  PROVE  Service(b) \in 0..Services - 1 /\ Service(b) # Network
<1>1. b \in Nat /\ Services \in Nat /\ Services > 0
  BY Numbers
<1>2. b % Services \in 0..Services - 1
  BY <1>1
<1> QED
  BY <1>1, <1>2 DEF Service, Network

\* Whatever a block may put into the raw tables.
AllRows == {Row(b, live) : b \in Blocks, live \in BOOLEAN}

LEMMA RowsFinite == IsFiniteSet(AllRows)
<1>1. ASSUME NEW live \in BOOLEAN PROVE IsFiniteSet({Row(b, live) : b \in Blocks})
  <2> DEFINE T == {Row(b, live) : b \in Blocks}
  <2> DEFINE f == [b \in Blocks |-> Row(b, live)]
  <2>1. f \in [Blocks -> T] /\ \A t \in T : \E b \in Blocks : f[b] = t
    OBVIOUS
  <2>2. f \in Surjection(Blocks, T)
    BY <2>1 DEF Surjection
  <2> HIDE DEF f, T
  <2>3. IsFiniteSet(T)
    BY <2>2, Numbers, FS_Surjection
  <2> QED
    BY <2>3 DEF T
<1>2. AllRows \subseteq {Row(b, TRUE) : b \in Blocks} \cup {Row(b, FALSE) : b \in Blocks}
  <2> SUFFICES ASSUME NEW e \in AllRows
               PROVE  e \in {Row(b, TRUE) : b \in Blocks} \cup {Row(b, FALSE) : b \in Blocks}
    OBVIOUS
  <2>1. PICK b \in Blocks, live \in BOOLEAN : e = Row(b, live)
    BY DEF AllRows
  <2>2. CASE live = TRUE
    BY <2>1, <2>2
  <2>3. CASE live = FALSE
    BY <2>1, <2>3
  <2> QED
    BY <2>2, <2>3
<1>3. IsFiniteSet({Row(b, TRUE) : b \in Blocks}) /\ IsFiniteSet({Row(b, FALSE) : b \in Blocks})
  BY <1>1
<1> QED
  BY <1>2, <1>3, FS_Union, FS_Subset

\* A row has the time its writer had for it.
LEMMA RowOf ==
  ASSUME NEW e \in AllRows
  PROVE  /\ e.block \in Blocks
         /\ \E live \in BOOLEAN : e = Row(e.block, live) /\ e.hour = BlockHour(e.block, live)
<1>1. PICK b \in Blocks, live \in BOOLEAN : e = Row(b, live)
  BY DEF AllRows
<1> QED
  BY <1>1 DEF Row

\* An aggregate is a number, greater for more rows.
LEMMA Aggregates ==
  ASSUME NEW key, NEW es \in SUBSET AllRows
  PROVE  /\ Aggregate(key, es) \in Nat
         /\ \A fs \in SUBSET es : /\ Aggregate(key, fs) \in Nat
                                  /\ Aggregate(key, fs) <= Aggregate(key, es)
<1>1. ASSUME NEW fs \in SUBSET AllRows
      PROVE  /\ IsFiniteSet({e \in fs : InRow(key, e)}) /\ Aggregate(key, fs) \in Nat
  <2>1. {e \in fs : InRow(key, e)} \in SUBSET AllRows
    OBVIOUS
  <2>2. IsFiniteSet({e \in fs : InRow(key, e)})
    BY <2>1, RowsFinite, FS_Subset
  <2> QED
    BY <2>2, FS_CardinalityType DEF Aggregate
<1>2. ASSUME NEW fs \in SUBSET es PROVE Aggregate(key, fs) <= Aggregate(key, es)
  <2>1. {e \in fs : InRow(key, e)} \in SUBSET {e \in es : InRow(key, e)}
    OBVIOUS
  <2>2. IsFiniteSet({e \in es : InRow(key, e)})
    BY <1>1
  <2> QED
    BY <2>1, <2>2, FS_Subset DEF Aggregate
<1> QED
  BY <1>1, <1>2

\* A row counts in the aggregates it belongs to, once.
Counts(key, e) == IF InRow(key, e) THEN 1 ELSE 0

LEMMA AggregateOne ==
  ASSUME NEW key, NEW e \in AllRows
  PROVE  Aggregate(key, {e}) = Counts(key, e)
<1>1. CASE InRow(key, e)
  <2>1. {x \in {e} : InRow(key, x)} = {e}
    BY <1>1
  <2> QED
    BY <1>1, <2>1, FS_Singleton DEF Aggregate, Counts
<1>2. CASE ~InRow(key, e)
  <2>1. {x \in {e} : InRow(key, x)} = {}
    BY <1>2
  <2> QED
    BY <1>2, <2>1, FS_EmptySet DEF Aggregate, Counts
<1> QED
  BY <1>1, <1>2

LEMMA AggregateMore ==
  ASSUME NEW key, NEW es \in SUBSET AllRows, NEW e \in AllRows, e \notin es
  PROVE  Aggregate(key, es \cup {e}) = Aggregate(key, es) + Counts(key, e)
<1> DEFINE T == {x \in es : InRow(key, x)}
<1>1. IsFiniteSet(T) /\ e \notin T
  <2>1. T \in SUBSET AllRows
    OBVIOUS
  <2> QED
    BY <2>1, RowsFinite, FS_Subset
<1>2. CASE InRow(key, e)
  <2>1. {x \in es \cup {e} : InRow(key, x)} = T \cup {e}
    BY <1>2
  <2>2. Cardinality(T \cup {e}) = Cardinality(T) + 1
    <3> HIDE DEF T
    <3> QED
      BY <1>1, FS_AddElement
  <2> QED
    BY <1>2, <2>1, <2>2 DEF Aggregate, Counts
<1>3. CASE ~InRow(key, e)
  <2>1. {x \in es \cup {e} : InRow(key, x)} = T
    BY <1>3
  <2>2. Aggregate(key, es) \in Nat
    BY Aggregates
  <2> QED
    BY <1>3, <2>1, <2>2 DEF Aggregate, Counts
<1> QED
  BY <1>2, <1>3

\* Two sets of raw rows that agree on a summary row.
LEMMA AggregateSame ==
  ASSUME NEW key, NEW es, NEW fs, \A e : InRow(key, e) => (e \in es <=> e \in fs)
  PROVE  Aggregate(key, es) = Aggregate(key, fs)
<1>1. {e \in es : InRow(key, e)} = {e \in fs : InRow(key, e)}
  OBVIOUS
<1> QED
  BY <1>1 DEF Aggregate

-----------------------------------------------------------------------------
(* The summary rows a report or a recalculation visits.                    *)

\* They are rows of the summary tables.
LEMMA RowsAreKeys ==
  ASSUME NEW kind \in {"hour", "day"}, NEW b \in Blocks, NEW live \in BOOLEAN,
         NEW services \in SUBSET (0..Services - 1)
  PROVE  RowsOf(kind, BlockHour(b, live), services) \subseteq Keys
<1> SUFFICES ASSUME NEW s \in services \cup {Network}
             PROVE  [kind |-> kind, period |-> Period(kind, BlockHour(b, live)), service |-> s]
                      \in Keys
  BY DEF RowsOf
<1>1. s \in 0..Network
  BY Numbers DEF Network
<1> QED
  BY <1>1 DEF Keys

\* What a key is made of.
LEMMA KeyOf ==
  ASSUME NEW key \in Keys
  PROVE  /\ key = [kind |-> key.kind, period |-> key.period, service |-> key.service]
         /\ key.kind \in {"hour", "day"} /\ key.service \in 0..Network
<1>1. PICK k \in {"hour", "day"}, b \in Blocks, live \in BOOLEAN, s \in 0..Network :
             key = [kind |-> k, period |-> Period(k, BlockHour(b, live)), service |-> s]
  BY DEF Keys
<1> QED
  BY <1>1

\* Every row that counts a claim is visited when its service is known.
LEMMA RowVisited ==
  ASSUME NEW key \in Keys, NEW e, InRow(key, e), NEW services, Service(e.block) \in services
  PROVE  key \in RowsOf(key.kind, e.hour, services)
<1>1. key = [kind |-> key.kind, period |-> Period(key.kind, e.hour), service |-> key.service]
  BY KeyOf DEF InRow
<1>2. key.service \in services \cup {Network}
  BY DEF InRow
<1> QED
  BY <1>1, <1>2 DEF RowsOf

\* Only rows of its kind are visited.
LEMMA KindVisited ==
  ASSUME NEW kind, NEW hour, NEW services, NEW key \in RowsOf(kind, hour, services)
  PROVE  key.kind = kind
BY DEF RowsOf

-----------------------------------------------------------------------------
(* Types.                                                                  *)

Phases ==
  {"idle", "inserted", "hour", "hourRead", "day", "dayRead", "recalc", "done", "failed"}

WriterType ==
  [pc : Phases, left : SUBSET Blocks, live : BOOLEAN, block : Blocks \cup {0},
   todo : SUBSET Keys, at : SUBSET Keys, got : Nat, found : SUBSET AllRows]

\* A writer that has begun no block has done nothing, one between two tables holds
\* no row, and only a backfill recalculates.
Shape(w) ==
  LET r == writers[w] IN
  /\ r.block = 0 => r.pc \in {"idle", "failed"}
  /\ r.pc \in {"idle", "inserted", "done", "failed"} => r.todo = {}
  /\ r.at # {} => r.pc \in {"hourRead", "dayRead"}
  /\ r.pc \in {"hourRead", "dayRead"} => \E key \in Keys : r.at = {key}
  /\ r.found \subseteq raw
  /\ w = 1 => r.live = TRUE /\ r.pc \notin {"recalc", "done"}
  /\ w = 2 => r.live = FALSE

Types ==
  /\ raw \subseteq AllRows /\ missed \subseteq Blocks /\ known \subseteq 0..Services - 1
  /\ rows \in [Keys -> Nat] /\ counters \in [Blocks -> Nat]
  /\ writers \in [1..2 -> WriterType]
  /\ Shape(1) /\ Shape(2)

\* A writer goes on as r, the other stays.
Becomes(w, r) ==
  /\ writers' \in [1..2 -> WriterType] /\ writers'[w] = r /\ r \in WriterType
  /\ \A v \in 1..2 : v # w => writers'[v] = writers[v]

LEMMA SetOne ==
  ASSUME Types, NEW w \in 1..2, NEW r \in WriterType, Set(w, r)
  PROVE  Becomes(w, r)
BY DEF Types, Set, Becomes

\* The fields of a writer.
LEMMA Fields ==
  ASSUME Types, NEW w \in 1..2
  PROVE  LET r == writers[w] IN
         /\ r \in WriterType
         /\ r.pc \in Phases /\ r.left \subseteq Blocks /\ r.live \in BOOLEAN
         /\ r.block \in Blocks \cup {0} /\ r.todo \subseteq Keys /\ r.at \subseteq Keys
         /\ r.got \in Nat /\ r.found \subseteq AllRows
<1>1. writers[w] \in WriterType
  BY DEF Types
<1>2. \A r \in WriterType : r.live \in BOOLEAN
  BY Zenon DEF WriterType
<1> QED
  BY <1>1, <1>2 DEF WriterType

LEMMA ShapeOf ==
  ASSUME Types, NEW w \in 1..2
  PROVE  Shape(w)
BY DEF Types

-----------------------------------------------------------------------------
(* What each step makes of its writer.                                     *)

LEMMA InsertMoves ==
  ASSUME Types, NEW w \in 1..2, Insert(w)
  PROVE  LET r == writers[w]  n == writers'[w]  b == Least(r.left) IN
         /\ Becomes(w, n) /\ b \in r.left /\ b \in Blocks /\ r.pc = "idle"
         /\ n.pc = "inserted" /\ n.block = b /\ n.left = r.left \ {b}
         /\ n.live = r.live /\ n.todo = r.todo /\ n.at = r.at /\ n.got = r.got
         /\ n.found = r.found
         /\ raw' = IF \E e \in raw : e.block = b THEN raw ELSE raw \cup {Row(b, r.live)}
<1> DEFINE r == writers[w]
           b == Least(r.left)
           n == [r EXCEPT !.pc = "inserted", !.block = b, !.left = r.left \ {b}]
<1>f. r \in WriterType /\ r.left \subseteq Blocks
  BY Fields
<1>1. b \in r.left /\ b \in Blocks
  <2> HIDE DEF r
  <2>1. r.left # {} /\ r.left \in SUBSET Blocks
    BY <1>f DEF Insert, r
  <2>2. Least(r.left) \in r.left
    BY <2>1, LeastBlock
  <2> QED
    BY <2>1, <2>2
<1> HIDE DEF b
<1>2. n \in WriterType
  BY <1>f, <1>1 DEF WriterType, Phases
<1>3. Set(w, n)
  BY DEF Insert, b
<1>4. Becomes(w, n)
  BY <1>2, <1>3, SetOne
<1>5. /\ n.pc = "inserted" /\ n.block = b /\ n.left = r.left \ {b}
      /\ n.live = r.live /\ n.todo = r.todo /\ n.at = r.at /\ n.got = r.got
      /\ n.found = r.found
  BY <1>f DEF WriterType
<1> HIDE DEF n
<1>6. writers'[w] = n
  BY <1>4 DEF Becomes
<1>7. /\ r.pc = "idle"
      /\ raw' = IF \E e \in raw : e.block = b THEN raw ELSE raw \cup {Row(b, r.live)}
  BY DEF Insert, b
<1> QED
  BY <1>1, <1>4, <1>5, <1>6, <1>7 DEF b

\* A step that gives up before it has put anything into the raw tables, or while it
\* recalculates.
LEMMA FailMoves ==
  ASSUME Types, NEW w \in 1..2, InsertFails(w) \/ RecalculateFails(w)
  PROVE  LET r == writers[w]  n == writers'[w] IN
         /\ Becomes(w, n) /\ n.pc = "failed" /\ n.block = r.block /\ n.left = r.left
         /\ n.live = r.live /\ n.todo = {} /\ n.at = r.at
         /\ n.found \subseteq r.found
<1> DEFINE r == writers[w]
<1>f. r \in WriterType
  BY Fields
<1>1. CASE InsertFails(w)
  <2> DEFINE n == [r EXCEPT !.pc = "failed"]
  <2>1. n \in WriterType
    BY <1>f DEF WriterType, Phases
  <2>2. /\ n.pc = "failed" /\ n.block = r.block /\ n.left = r.left
        /\ n.live = r.live /\ n.todo = r.todo /\ n.at = r.at /\ n.found = r.found
    BY <1>f DEF WriterType
  <2>3. Set(w, n) /\ r.todo = {}
    BY <1>1, ShapeOf DEF InsertFails, Shape
  <2> HIDE DEF n
  <2>4. Becomes(w, n)
    BY <2>1, <2>3, SetOne
  <2>5. writers'[w] = n
    BY <2>4 DEF Becomes
  <2> QED
    BY <2>2, <2>3, <2>4, <2>5
<1>2. CASE RecalculateFails(w)
  <2> DEFINE n == [r EXCEPT !.pc = "failed", !.todo = {}, !.found = {}]
  <2>1. n \in WriterType
    BY <1>f DEF WriterType, Phases
  <2>2. /\ n.pc = "failed" /\ n.block = r.block /\ n.left = r.left
        /\ n.live = r.live /\ n.todo = {} /\ n.at = r.at /\ n.found = {}
    BY <1>f DEF WriterType
  <2>3. Set(w, n)
    BY <1>2 DEF RecalculateFails
  <2> HIDE DEF n
  <2>4. Becomes(w, n)
    BY <2>1, <2>3, SetOne
  <2>5. writers'[w] = n
    BY <2>4 DEF Becomes
  <2> QED
    BY <2>2, <2>4, <2>5
<1> QED
  BY <1>1, <1>2

LEMMA ReportMoves ==
  ASSUME Types, NEW w \in 1..2, Report(w)
  PROVE  LET r == writers[w]  n == writers'[w] IN
         /\ Becomes(w, n) /\ n.pc = "hour" /\ n.block = r.block /\ n.left = r.left
         /\ n.live = r.live /\ n.at = r.at /\ n.found = r.found
         /\ n.todo = RowsOf("hour", BlockHour(r.block, r.live), known')
         /\ known' = known \cup {Service(r.block)} /\ known' \subseteq 0..Services - 1
         /\ r.block \in Blocks /\ r.pc = "inserted"
         /\ counters' \in [Blocks -> Nat]
<1> DEFINE r == writers[w]
           todo == RowsOf("hour", BlockHour(r.block, r.live), known')
           n == [r EXCEPT !.pc = "hour", !.todo = todo]
<1>f. r \in WriterType /\ r.block \in Blocks \cup {0} /\ r.live \in BOOLEAN
  BY Fields
<1>1. r.block \in Blocks /\ r.pc = "inserted"
  BY <1>f, ShapeOf DEF Report, Shape
<1>2. known' = known \cup {Service(r.block)} /\ known' \subseteq 0..Services - 1
  BY <1>1, ServiceOf DEF Report, Types
<1>3. todo \subseteq Keys
  <2>1. known' \in SUBSET (0..Services - 1) /\ "hour" \in {"hour", "day"}
    BY <1>2
  <2> QED
    BY <1>f, <1>1, <2>1, RowsAreKeys
<1>4. Set(w, n)
  BY DEF Report
<1> HIDE DEF todo
<1>5. n \in WriterType
  BY <1>f, <1>3 DEF WriterType, Phases
<1>6. /\ n.pc = "hour" /\ n.block = r.block /\ n.left = r.left
      /\ n.live = r.live /\ n.at = r.at /\ n.found = r.found /\ n.todo = todo
  BY <1>f DEF WriterType
<1>7. counters' \in [Blocks -> Nat]
  <2> DEFINE d == IF r.live THEN 1 ELSE 0
  <2>1. counters' = [counters EXCEPT ![r.block] = @ + d] /\ d \in Nat
    BY DEF Report, DispatchMetrics
  <2> HIDE DEF d, r
  <2> QED
    BY <1>1, <2>1 DEF Types
<1> HIDE DEF n
<1>8. Becomes(w, n)
  BY <1>4, <1>5, SetOne
<1>9. writers'[w] = n
  BY <1>8 DEF Becomes
<1> QED
  BY <1>1, <1>2, <1>6, <1>7, <1>8, <1>9 DEF todo

LEMMA ReadMoves ==
  ASSUME Types, NEW w \in 1..2, NEW key, ReadRow(w, key)
  PROVE  LET r == writers[w]  n == writers'[w] IN
         /\ Becomes(w, n) /\ key \in r.todo /\ key \in Keys
         /\ r.pc \in {"hour", "day"}
         /\ n.pc = (IF r.pc = "hour" THEN "hourRead" ELSE "dayRead")
         /\ n.block = r.block /\ n.left = r.left
         /\ n.live = r.live /\ n.found = r.found
         /\ n.todo = r.todo \ {key} /\ n.at = {key} /\ n.got = rows[key]
<1> DEFINE r == writers[w]
           pc == IF r.pc = "hour" THEN "hourRead" ELSE "dayRead"
           n == [r EXCEPT !.pc = pc, !.todo = r.todo \ {key}, !.got = rows[key], !.at = {key}]
<1>f. r \in WriterType /\ r.todo \subseteq Keys
  BY Fields
<1>1. key \in r.todo /\ r.pc \in {"hour", "day"} /\ Set(w, n)
  BY DEF ReadRow, NextRows
<1>2. key \in Keys
  BY <1>f, <1>1
<1>3. rows[key] \in Nat
  BY <1>2 DEF Types
<1>4. n \in WriterType
  <2>1. pc \in Phases /\ r.todo \ {key} \subseteq Keys /\ {key} \subseteq Keys
    BY <1>f, <1>2 DEF Phases
  <2> HIDE DEF pc
  <2> QED
    BY <1>f, <1>3, <2>1 DEF WriterType
<1>5. /\ n.pc = pc /\ n.block = r.block /\ n.left = r.left
      /\ n.live = r.live /\ n.found = r.found
      /\ n.todo = r.todo \ {key} /\ n.at = {key} /\ n.got = rows[key]
  <2> HIDE DEF pc
  <2> QED
    BY <1>f DEF WriterType
<1> HIDE DEF n
<1>6. Becomes(w, n)
  BY <1>1, <1>4, SetOne
<1>7. writers'[w] = n
  BY <1>6 DEF Becomes
<1> QED
  BY <1>1, <1>2, <1>5, <1>6, <1>7

\* A row is written: on to the next one, to the daily tables, or to the next block.
LEMMA WriteMoves ==
  ASSUME Types, NEW w \in 1..2, WriteRow(w)
  PROVE  LET r == writers[w]  n == writers'[w] IN
         /\ Becomes(w, n) /\ r.pc \in {"hourRead", "dayRead"} /\ r.block \in Blocks
         /\ n.block = r.block /\ n.left = r.left /\ n.live = r.live /\ n.found = r.found
         /\ n.at = {}
         /\ \E key \in Keys :
              /\ r.at = {key}
              /\ rows' = [rows EXCEPT ![key] = r.got + Counts(key, Row(r.block, r.live))]
         /\ \/ r.todo # {} /\ n.todo = r.todo /\ n.pc = IF r.pc = "hourRead" THEN "hour" ELSE "day"
            \/ /\ r.todo = {} /\ r.pc = "hourRead" /\ n.pc = "day"
               /\ n.todo = RowsOf("day", BlockHour(r.block, r.live), known)
            \/ r.todo = {} /\ r.pc = "dayRead" /\ n.pc = "idle" /\ n.todo = {}
<1> DEFINE r == writers[w]
           n == AfterRow(r)
<1>f. /\ r \in WriterType /\ r.block \in Blocks \cup {0} /\ r.live \in BOOLEAN
      /\ r.todo \subseteq Keys
  BY Fields
<1>1. r.pc \in {"hourRead", "dayRead"} /\ r.block \in Blocks
  BY <1>f, ShapeOf DEF WriteRow, Shape
<1>2. PICK key \in r.at :
        /\ rows' = [rows EXCEPT ![key] = Accumulate(r.got, key, Row(r.block, r.live))]
        /\ Set(w, n)
  BY DEF WriteRow
<1>3. key \in Keys /\ r.at = {key}
  BY <1>1, <1>2, ShapeOf DEF Shape
<1>4. Accumulate(r.got, key, Row(r.block, r.live)) = r.got + Counts(key, Row(r.block, r.live))
  <2>1. Row(r.block, r.live) \in AllRows
    BY <1>f, <1>1 DEF AllRows
  <2> QED
    BY <2>1, AggregateOne DEF Accumulate
<1>5. /\ n \in WriterType
      /\ n.block = r.block /\ n.left = r.left /\ n.live = r.live /\ n.found = r.found
      /\ n.at = {}
      /\ \/ r.todo # {} /\ n.todo = r.todo /\ n.pc = IF r.pc = "hourRead" THEN "hour" ELSE "day"
         \/ /\ r.todo = {} /\ r.pc = "hourRead" /\ n.pc = "day"
            /\ n.todo = RowsOf("day", BlockHour(r.block, r.live), known)
         \/ r.todo = {} /\ r.pc = "dayRead" /\ n.pc = "idle" /\ n.todo = {}
  <2> DEFINE done == [r EXCEPT !.at = {}, !.got = 0]
  <2>1. /\ done \in WriterType /\ done.pc = r.pc /\ done.todo = r.todo
        /\ done.block = r.block /\ done.left = r.left /\ done.live = r.live
        /\ done.found = r.found /\ done.at = {}
    BY <1>f DEF WriterType
  <2> HIDE DEF done
  <2>2. ASSUME NEW pc \in Phases
        PROVE  LET m == [done EXCEPT !.pc = pc] IN
               /\ m \in WriterType /\ m.pc = pc /\ m.todo = done.todo
               /\ m.block = done.block /\ m.left = done.left /\ m.live = done.live
               /\ m.found = done.found /\ m.at = done.at
    BY <2>1 DEF WriterType
  <2>3. CASE r.todo # {}
    <3> DEFINE pc == IF r.pc = "hourRead" THEN "hour" ELSE "day"
    <3>1. n = [done EXCEPT !.pc = pc] /\ pc \in Phases
      BY <2>3 DEF AfterRow, done, Phases
    <3> HIDE DEF n, r
    <3> QED
      BY <2>1, <2>2, <2>3, <3>1
  <2>4. CASE r.todo = {} /\ r.pc = "hourRead"
    <3> DEFINE todo == RowsOf("day", BlockHour(r.block, r.live), known)
    <3>1. n = [done EXCEPT !.pc = "day", !.todo = todo]
      BY <2>4 DEF AfterRow, done
    <3>2. todo \subseteq Keys
      <4>1. known \in SUBSET (0..Services - 1) /\ "day" \in {"hour", "day"}
        BY DEF Types
      <4> QED
        BY <1>f, <1>1, <4>1, RowsAreKeys
    <3> HIDE DEF todo
    <3>3. /\ n \in WriterType /\ n.pc = "day" /\ n.todo = todo
          /\ n.block = done.block /\ n.left = done.left /\ n.live = done.live
          /\ n.found = done.found /\ n.at = done.at
      <4> HIDE DEF n, r
      <4> QED
        BY <2>1, <3>1, <3>2 DEF WriterType, Phases
    <3> QED
      BY <2>1, <2>4, <3>3 DEF todo
  <2>5. CASE r.todo = {} /\ r.pc = "dayRead"
    <3>1. n = [done EXCEPT !.pc = "idle"] /\ "idle" \in Phases
      BY <2>5 DEF AfterRow, done, Phases
    <3> HIDE DEF n, r
    <3> QED
      BY <2>1, <2>2, <2>5, <3>1
  <2> QED
    BY <1>1, <2>3, <2>4, <2>5
<1> HIDE DEF n
<1>6. Becomes(w, n)
  BY <1>2, <1>5, SetOne
<1>7. writers'[w] = n
  BY <1>6 DEF Becomes
<1> QED
  BY <1>1, <1>2, <1>3, <1>4, <1>5, <1>6, <1>7

LEMMA ReportFailMoves ==
  ASSUME Types, NEW w \in 1..2, ReportFails(w)
  PROVE  LET r == writers[w]  n == writers'[w] IN
         /\ Becomes(w, n) /\ r.pc \in {"hour", "hourRead", "day", "dayRead"}
         /\ r.block \in Blocks /\ missed' = missed \cup {r.block}
         /\ n.pc = "idle" /\ n.block = r.block /\ n.left = r.left
         /\ n.live = r.live /\ n.found = r.found /\ n.todo = {} /\ n.at = {}
<1> DEFINE r == writers[w]
           n == [r EXCEPT !.pc = "idle", !.todo = {}, !.at = {}, !.got = 0]
<1>f. r \in WriterType /\ r.block \in Blocks \cup {0}
  BY Fields
<1>1. r.pc \in {"hour", "hourRead", "day", "dayRead"} /\ r.block \in Blocks
  BY <1>f, ShapeOf DEF ReportFails, Shape
<1>2. Set(w, n) /\ missed' = missed \cup {r.block}
  BY DEF ReportFails
<1>3. n \in WriterType
  BY <1>f DEF WriterType, Phases
<1>4. /\ n.pc = "idle" /\ n.block = r.block /\ n.left = r.left
      /\ n.live = r.live /\ n.found = r.found /\ n.todo = {} /\ n.at = {}
  BY <1>f DEF WriterType
<1> HIDE DEF n
<1>5. Becomes(w, n)
  BY <1>2, <1>3, SetOne
<1>6. writers'[w] = n
  BY <1>5 DEF Becomes
<1> QED
  BY <1>1, <1>2, <1>4, <1>5, <1>6

\* What a recalculation finds is in the raw tables.
LEMMA AffectedRaw == \A bs : Affected(bs) \subseteq raw
BY DEF Affected, ForPeriod

LEMMA RecalculateMoves ==
  ASSUME Types, NEW w \in 1..2, Recalculate(w)
  PROVE  LET r == writers[w]  n == writers'[w]  found == Affected(BackfillBlocks) IN
         /\ Becomes(w, n) /\ w = 2 /\ r.pc = "idle" /\ r.block # 0
         /\ n.pc \in {"recalc", "done"} /\ (n.pc = "done" => n.todo = {})
         /\ n.block = r.block /\ n.left = r.left
         /\ n.live = r.live /\ n.at = r.at /\ n.found = found
         /\ known' = known \cup DistinctServiceIDs(found) /\ known' \subseteq 0..Services - 1
         /\ n.todo = UNION {RowsOf(k, e.hour, known') : k \in {"hour", "day"}, e \in found}
<1> DEFINE r == writers[w]
           found == Affected(BackfillBlocks)
           todo == UNION {RowsOf(k, e.hour, known') : k \in {"hour", "day"}, e \in found}
           pc == IF todo = {} THEN "done" ELSE "recalc"
           n == [r EXCEPT !.pc = pc, !.found = found, !.todo = todo]
<1>f. r \in WriterType
  BY Fields
<1>1. w = 2 /\ r.pc = "idle" /\ r.block # 0
  <2>1. ~r.live /\ r.pc = "idle" /\ r.block # 0
    BY DEF Recalculate
  <2>2. w = 1 => r.live = TRUE
    BY ShapeOf DEF Shape
  <2>3. w # 1
    BY <2>1, <2>2, Zenon
  <2> QED
    BY <2>1, <2>3
<1>2. found \subseteq AllRows
  BY AffectedRaw DEF Types
<1>3. known' = known \cup DistinctServiceIDs(found) /\ known' \subseteq 0..Services - 1
  <2>1. known' = known \cup DistinctServiceIDs(found)
    BY DEF Recalculate
  <2> HIDE DEF found
  <2>2. DistinctServiceIDs(found) \subseteq 0..Services - 1
    BY <1>2, RowOf, ServiceOf DEF DistinctServiceIDs
  <2> QED
    BY <2>1, <2>2 DEF Types
<1>4. todo \subseteq Keys
  <2> HIDE DEF found
  <2> SUFFICES ASSUME NEW k \in {"hour", "day"}, NEW e \in found
               PROVE  RowsOf(k, e.hour, known') \subseteq Keys
    OBVIOUS
  <2>1. e \in AllRows
    BY <1>2
  <2>2. PICK live \in BOOLEAN : e.hour = BlockHour(e.block, live)
    BY <2>1, RowOf
  <2>3. e.block \in Blocks /\ known' \in SUBSET (0..Services - 1)
    BY <1>3, <2>1, RowOf
  <2> QED
    BY <2>2, <2>3, RowsAreKeys
<1>5. Set(w, n)
  <2>1. known' = known \cup DistinctServiceIDs(found)
    BY <1>3
  <2> QED
    BY <2>1 DEF Recalculate
<1> HIDE DEF todo, found
<1>6. n \in WriterType
  <2>1. pc \in Phases
    BY DEF Phases
  <2> HIDE DEF pc
  <2> QED
    BY <1>f, <1>2, <1>4, <2>1 DEF WriterType
<1>p. pc \in {"recalc", "done"} /\ (pc = "done" => todo = {})
  OBVIOUS
<1> HIDE DEF pc
<1>7. /\ n.pc = pc /\ n.block = r.block /\ n.left = r.left
      /\ n.live = r.live /\ n.at = r.at /\ n.found = found /\ n.todo = todo
  BY <1>f DEF WriterType
<1> HIDE DEF n
<1>8. Becomes(w, n)
  BY <1>5, <1>6, SetOne
<1>9. writers'[w] = n
  BY <1>8 DEF Becomes
<1> HIDE DEF r
<1>10. /\ writers'[w].pc = pc /\ writers'[w].block = r.block /\ writers'[w].left = r.left
       /\ writers'[w].live = r.live /\ writers'[w].at = r.at /\ writers'[w].found = found
       /\ writers'[w].todo = todo /\ Becomes(w, writers'[w])
  BY <1>7, <1>8, <1>9, Zenon
<1> QED
  BY <1>1, <1>3, <1>p, <1>10 DEF todo, found, r

LEMMA ReplaceMoves ==
  ASSUME Types, NEW w \in 1..2, NEW key, ReplaceRow(w, key)
  PROVE  LET r == writers[w]  n == writers'[w] IN
         /\ Becomes(w, n) /\ w = 2 /\ r.pc = "recalc" /\ key \in r.todo /\ key \in Keys
         /\ rows' = [rows EXCEPT ![key] = Aggregate(key, r.found)]
         /\ n.block = r.block /\ n.left = r.left /\ n.live = r.live /\ n.at = r.at
         /\ n.found = r.found /\ n.todo = r.todo \ {key}
         /\ \/ n.pc = "recalc"
            \/ n.pc = "done" /\ n.todo = {}
<1> DEFINE r == writers[w]
           pc == IF r.todo = {key} THEN "done" ELSE "recalc"
           n == [r EXCEPT !.pc = pc, !.todo = r.todo \ {key}]
<1>f. r \in WriterType /\ r.todo \subseteq Keys
  BY Fields
<1>1. /\ w = 2 /\ r.pc = "recalc" /\ key \in r.todo
      /\ rows' = [rows EXCEPT ![key] = Aggregate(key, r.found)]
  BY ShapeOf DEF ReplaceRow, Shape
<1>2. Set(w, n)
  <2>1. CASE r.todo = {key}
    <3>1. r.todo \ {key} = {}
      BY <2>1
    <3>2. Set(w, [r EXCEPT !.pc = "done", !.todo = {}])
      BY <2>1 DEF ReplaceRow
    <3> QED
      BY <2>1, <3>1, <3>2
  <2>2. CASE r.todo # {key}
    <3>1. Set(w, [r EXCEPT !.todo = r.todo \ {key}])
      BY <2>2 DEF ReplaceRow
    <3>2. [r EXCEPT !.todo = r.todo \ {key}] = n
      BY <1>1, <1>f, <2>2 DEF WriterType
    <3> QED
      BY <3>1, <3>2
  <2> QED
    BY <2>1, <2>2
<1>3. n \in WriterType
  <2>1. pc \in Phases
    BY DEF Phases
  <2> HIDE DEF pc
  <2> QED
    BY <1>f, <2>1 DEF WriterType
<1>4. /\ n.pc = pc /\ n.block = r.block /\ n.left = r.left /\ n.live = r.live /\ n.at = r.at
      /\ n.found = r.found /\ n.todo = r.todo \ {key}
  <2> HIDE DEF pc
  <2> QED
    BY <1>f DEF WriterType
<1> HIDE DEF n
<1>5. Becomes(w, n)
  BY <1>2, <1>3, SetOne
<1>6. writers'[w] = n
  BY <1>5 DEF Becomes
<1> QED
  BY <1>f, <1>1, <1>4, <1>5, <1>6

-----------------------------------------------------------------------------
(* The types are kept.                                                     *)

\* One writer goes on; the other keeps its shape as long as the raw tables lose no
\* row.
LEMMA ShapeKept ==
  ASSUME Types, NEW w \in 1..2, NEW v \in 1..2, v # w,
         writers'[v] = writers[v], raw \subseteq raw'
  PROVE  Shape(v)'
<1>1. Shape(v)
  BY ShapeOf
<1> QED
  BY <1>1 DEF Shape

LEMMA TypesAfter ==
  ASSUME Types, NEW w \in 1..2, Becomes(w, writers'[w]), Shape(w)',
         raw \subseteq raw', raw' \subseteq AllRows,
         missed' \subseteq Blocks, known' \subseteq 0..Services - 1,
         rows' \in [Keys -> Nat], counters' \in [Blocks -> Nat]
  PROVE  Types'
<1>1. Shape(1)' /\ Shape(2)'
  <2>1. CASE w = 1
    <3>1. Shape(2)'
      BY <2>1, ShapeKept DEF Becomes
    <3> QED
      BY <2>1, <3>1
  <2>2. CASE w = 2
    <3>1. Shape(1)'
      BY <2>2, ShapeKept DEF Becomes
    <3> QED
      BY <2>2, <3>1
  <2> QED
    BY <2>1, <2>2
<1> QED
  BY <1>1 DEF Types, Becomes

\* A service a row begins with is one of the services.
LEMMA ServicesOf ==
  ASSUME NEW es \in SUBSET AllRows
  PROVE  DistinctServiceIDs(es) \subseteq 0..Services - 1
BY RowOf, ServiceOf DEF DistinctServiceIDs

LEMMA InitTypes == Init => Types
<1> SUFFICES ASSUME Init PROVE Types
  OBVIOUS
<1>1. InitialRows \subseteq AllRows
  <2> SUFFICES ASSUME NEW b \in InitialRaw PROVE Row(b, TRUE) \in AllRows
    BY DEF InitialRows
  <2>1. b \in Blocks /\ TRUE \in BOOLEAN
    BY DEF Blocks
  <2>2. \A live \in BOOLEAN : Row(b, live) \in AllRows
    BY <2>1 DEF AllRows
  <2> QED
    BY <2>1, <2>2, Zenon
<1>2. raw \subseteq AllRows /\ missed \subseteq Blocks
  BY <1>1 DEF Init, Blocks
<1>3. known \subseteq 0..Services - 1
  BY <1>1, ServicesOf DEF Init
<1>4. rows \in [Keys -> Nat]
  <2>1. PICK reported \in [InitialRaw -> 0..4] :
          rows = [k \in Keys |-> Aggregate(k, {e \in InitialRows : Turn(k) <= reported[e.block]})]
    BY DEF Init
  <2>2. \A k \in Keys : Aggregate(k, {e \in InitialRows : Turn(k) <= reported[e.block]}) \in Nat
    <3> TAKE k \in Keys
    <3> DEFINE es == {e \in InitialRows : Turn(k) <= reported[e.block]}
    <3>1. es \in SUBSET AllRows
      BY <1>1
    <3> HIDE DEF es
    <3>2. Aggregate(k, es) \in Nat
      BY <3>1, Aggregates
    <3> QED
      BY <3>2 DEF es
  <2> QED
    BY <2>1, <2>2
<1>5. counters \in [Blocks -> Nat]
  BY DEF Init
<1>6. Writer(LiveBlocks, TRUE) \in WriterType /\ Writer(BackfillBlocks, FALSE) \in WriterType
  BY DEF Writer, WriterType, Phases, Blocks
<1>7. writers \in [1..2 -> WriterType]
  <2> DEFINE x == Writer(LiveBlocks, TRUE)
             y == Writer(BackfillBlocks, FALSE)
  <2>1. writers = <<x, y>>
    BY DEF Init
  <2> HIDE DEF x, y
  <2>2. x \in WriterType /\ y \in WriterType
    BY <1>6 DEF x, y
  <2> QED
    BY <2>1, <2>2
<1>8. writers[1] = Writer(LiveBlocks, TRUE) /\ writers[2] = Writer(BackfillBlocks, FALSE)
  BY DEF Init
<1>9. Shape(1) /\ Shape(2)
  BY <1>8 DEF Shape, Writer
<1> QED
  BY <1>2, <1>3, <1>4, <1>5, <1>7, <1>9 DEF Types

\* What each step keeps of the tables.
LEMMA StepTypes ==
  ASSUME Types, NEW w \in 1..2, Step(w)
  PROVE  Types'
<1> USE DEF Becomes
<1>s. Shape(w)
  BY ShapeOf
<1>a. /\ raw \subseteq AllRows /\ missed \subseteq Blocks /\ known \subseteq 0..Services - 1
      /\ rows \in [Keys -> Nat] /\ counters \in [Blocks -> Nat]
  BY DEF Types
<1>1. CASE Insert(w)
  <2>1. raw \subseteq raw' /\ raw' \subseteq AllRows
    <3> DEFINE r == writers[w]
               b == Least(r.left)
    <3>1. raw' = (IF \E e \in raw : e.block = b THEN raw ELSE raw \cup {Row(b, r.live)})
      BY <1>1, InsertMoves
    <3>2. b \in Blocks /\ r.live \in BOOLEAN
      BY <1>1, InsertMoves, Fields
    <3>3. Row(b, r.live) \in AllRows
      BY <3>2 DEF AllRows
    <3> HIDE DEF b, r
    <3> QED
      BY <3>1, <3>3, <1>a
  <2>2. Shape(w)'
    BY <1>1, <1>s, <2>1, InsertMoves, Numbers DEF Shape
  <2>3. UNCHANGED <<rows, known, counters, missed>>
    BY <1>1 DEF Insert
  <2>4. Becomes(w, writers'[w])
    BY <1>1, InsertMoves
  <2> QED
    BY <1>a, <2>1, <2>2, <2>3, <2>4, TypesAfter
<1>2. CASE InsertFails(w) \/ RecalculateFails(w)
  <2>1. UNCHANGED <<raw, rows, known, counters, missed>>
    BY <1>2 DEF InsertFails, RecalculateFails
  <2>2. Shape(w)'
    BY <1>2, <1>s, <2>1, FailMoves DEF Shape, InsertFails, RecalculateFails
  <2>3. Becomes(w, writers'[w])
    BY <1>2, FailMoves
  <2> QED
    BY <1>a, <2>1, <2>2, <2>3, TypesAfter
<1>3. CASE Report(w)
  <2>1. UNCHANGED <<raw, rows, missed>>
    BY <1>3 DEF Report
  <2>2. Shape(w)'
    BY <1>3, <1>s, <2>1, ReportMoves, Numbers DEF Shape
  <2>3. Becomes(w, writers'[w]) /\ known' \subseteq 0..Services - 1 /\ counters' \in [Blocks -> Nat]
    BY <1>3, ReportMoves
  <2> QED
    BY <1>a, <2>1, <2>2, <2>3, TypesAfter
<1>4. ASSUME NEW key, ReadRow(w, key) PROVE Types'
  <2>1. UNCHANGED <<raw, rows, known, counters, missed>>
    BY <1>4 DEF ReadRow
  <2>2. Shape(w)'
    BY <1>4, <1>s, <2>1, ReadMoves DEF Shape
  <2>3. Becomes(w, writers'[w])
    BY <1>4, ReadMoves
  <2> QED
    BY <1>a, <2>1, <2>2, <2>3, TypesAfter
<1>5. CASE WriteRow(w)
  <2>1. UNCHANGED <<raw, known, counters, missed>>
    BY <1>5 DEF WriteRow
  <2>2. Shape(w)'
    BY <1>5, <1>s, <2>1, WriteMoves, Numbers DEF Shape
  <2>3. Becomes(w, writers'[w])
    BY <1>5, WriteMoves
  <2>4. rows' \in [Keys -> Nat]
    <3> DEFINE r == writers[w]
    <3>1. PICK key \in Keys :
              rows' = [rows EXCEPT ![key] = r.got + Counts(key, Row(r.block, r.live))]
      BY <1>5, WriteMoves
    <3>2. r.got + Counts(key, Row(r.block, r.live)) \in Nat
      <4>1. r.got \in Nat
        BY Fields
      <4> QED
        BY <4>1 DEF Counts
    <3> QED
      BY <3>1, <3>2, <1>a
  <2> QED
    BY <1>a, <2>1, <2>2, <2>3, <2>4, TypesAfter
<1>6. CASE ReportFails(w)
  <2>1. UNCHANGED <<raw, rows, known, counters>>
    BY <1>6 DEF ReportFails
  <2>2. Shape(w)'
    BY <1>6, <1>s, <2>1, ReportFailMoves DEF Shape
  <2>3. Becomes(w, writers'[w]) /\ missed' \subseteq Blocks
    BY <1>6, <1>a, ReportFailMoves
  <2> QED
    BY <1>a, <2>1, <2>2, <2>3, TypesAfter
<1>7. CASE Recalculate(w)
  <2>1. UNCHANGED <<raw, rows, counters, missed>>
    BY <1>7 DEF Recalculate
  <2>2. Shape(w)'
    BY <1>7, <1>s, <2>1, RecalculateMoves, AffectedRaw DEF Shape
  <2>3. Becomes(w, writers'[w]) /\ known' \subseteq 0..Services - 1
    BY <1>7, RecalculateMoves
  <2> QED
    BY <1>a, <2>1, <2>2, <2>3, TypesAfter
<1>8. ASSUME NEW key, ReplaceRow(w, key) PROVE Types'
  <2>1. UNCHANGED <<raw, known, counters, missed>>
    BY <1>8 DEF ReplaceRow
  <2>2. Shape(w)'
    BY <1>8, <1>s, <2>1, ReplaceMoves DEF Shape
  <2>3. Becomes(w, writers'[w])
    BY <1>8, ReplaceMoves
  <2>4. rows' \in [Keys -> Nat]
    <3>1. key \in Keys /\ rows' = [rows EXCEPT ![key] = Aggregate(key, writers[w].found)]
      BY <1>8, ReplaceMoves
    <3>2. writers[w].found \in SUBSET AllRows
      BY Fields
    <3>3. Aggregate(key, writers[w].found) \in Nat
      BY <3>2, Aggregates
    <3> QED
      BY <3>1, <3>3, <1>a
  <2> QED
    BY <1>a, <2>1, <2>2, <2>3, <2>4, TypesAfter
<1> QED
  BY <1>1, <1>2, <1>3, <1>4, <1>5, <1>6, <1>7, <1>8 DEF Step

\* A step of one writer leaves the other alone.
LEMMA StepOther ==
  ASSUME Types, NEW w \in 1..2, Step(w), NEW v \in 1..2, v # w
  PROVE  writers'[v] = writers[v]
<1>1. Insert(w) => Becomes(w, writers'[w])
  BY InsertMoves
<1>2. InsertFails(w) \/ RecalculateFails(w) => Becomes(w, writers'[w])
  BY FailMoves
<1>3. Report(w) => Becomes(w, writers'[w])
  BY ReportMoves
<1>4. ASSUME NEW key, ReadRow(w, key) PROVE Becomes(w, writers'[w])
  BY <1>4, ReadMoves
<1>5. WriteRow(w) => Becomes(w, writers'[w])
  BY WriteMoves
<1>6. ReportFails(w) => Becomes(w, writers'[w])
  BY ReportFailMoves
<1>7. Recalculate(w) => Becomes(w, writers'[w])
  BY RecalculateMoves
<1>8. ASSUME NEW key, ReplaceRow(w, key) PROVE Becomes(w, writers'[w])
  BY <1>8, ReplaceMoves
<1>9. Becomes(w, writers'[w])
  BY <1>1, <1>2, <1>3, <1>4, <1>5, <1>6, <1>7, <1>8 DEF Step
<1> QED
  BY <1>9 DEF Becomes

\* A step of the system is one of a writer, or nothing moves.
LEMMA NextSteps ==
  ASSUME Types, [Next]_vars
  PROVE  (\E w \in 1..2 : Step(w)) \/ UNCHANGED vars
<1>1. DOMAIN writers = 1..2
  BY DEF Types
<1> QED
  BY <1>1 DEF Next, AllFinished

LEMMA NextTypes == Types /\ [Next]_vars => Types'
<1> SUFFICES ASSUME Types, [Next]_vars PROVE Types'
  OBVIOUS
<1>1. CASE \E w \in 1..2 : Step(w)
  BY <1>1, StepTypes
<1>2. CASE UNCHANGED vars
  BY <1>2 DEF vars, Types, Shape
<1> QED
  BY <1>1, <1>2, NextSteps

\* Every variable has its type, and a report or a recalculation visits only rows of
\* the periods of the blocks, whatever fails and however the writers interleave.
THEOREM TypeCorrect == Spec => []TypeOK
<1>1. Types => TypeOK
  <2> SUFFICES ASSUME Types PROVE TypeOK
    OBVIOUS
  <2>1. \A w \in 1..2 : /\ writers[w].pc \in Phases
                        /\ writers[w].todo \cup writers[w].at \subseteq Keys
                        /\ writers[w].left \subseteq Blocks /\ writers[w].found \subseteq raw
    BY Fields, ShapeOf DEF Shape
  <2> QED
    BY <2>1 DEF Types, TypeOK, AllRows, Phases
<1> QED
  BY <1>1, InitTypes, NextTypes, PTL DEF Spec

-----------------------------------------------------------------------------
(* What a recalculation of a lone backfill leaves.                         *)

\* A summary row is touched by a recalculation that finds a raw row for it, all of
\* whose raw rows are stored under the day they are in.
Touched(k) == Found(k) /\ WrittenInDay(k)

\* All the raw rows that belong to a touched row are found: the query takes whole
\* days, and an hour or a day lies within one.
LEMMA FoundWhole ==
  ASSUME NEW k \in Keys, Touched(k)
  PROVE  Aggregate(k, Affected(BackfillBlocks)) = Aggregate(k, raw)
<1>1. PICK e \in Affected(BackfillBlocks) : InRow(k, e)
  BY DEF Touched, Found
<1>2. PICK b \in BackfillBlocks, c \in BackfillBlocks : e \in ForPeriod(Day(Hour(b)), Day(Hour(c)))
  BY <1>1 DEF Affected
<1>3. ASSUME NEW x, InRow(k, x), x \in raw PROVE x \in Affected(BackfillBlocks)
  <2>1. Day(x.hour) = Day(e.hour)
    BY <1>1, <1>3 DEF InRow, Period
  <2>2. Day(x.written) = Day(e.written)
    BY <1>1, <1>3, <2>1, AffectedRaw DEF Touched, WrittenInDay
  <2>3. x \in ForPeriod(Day(Hour(b)), Day(Hour(c)))
    BY <1>2, <1>3, <2>2 DEF ForPeriod
  <2> QED
    BY <2>3 DEF Affected
<1>4. \A x : InRow(k, x) => (x \in Affected(BackfillBlocks) <=> x \in raw)
  BY <1>3, AffectedRaw
<1> QED
  BY <1>4, AggregateSame

\* While a lone backfill replaces rows, each touched one waits or is right.
Repairing ==
  Alone(2) /\ writers[2].pc \in {"recalc", "done"} =>
    /\ writers[2].found = Affected(BackfillBlocks)
    /\ \A k \in Keys : Touched(k) => k \in writers[2].todo \/ rows[k] = Aggregate(k, raw)

LEMMA AloneBlock ==
  Types =>
    (Alone(2) <=> writers[1].block = 0) /\ (Alone(1) <=> writers[2].block = 0)
<1> SUFFICES ASSUME Types
             PROVE  (Alone(2) <=> writers[1].block = 0) /\ (Alone(1) <=> writers[2].block = 0)
  OBVIOUS
<1>1. DOMAIN writers = 1..2
  BY DEF Types
<1>2. DOMAIN writers \ {2} = {1} /\ DOMAIN writers \ {1} = {2}
  BY <1>1
<1> QED
  BY <1>2 DEF Alone

\* A writer that has begun a block has begun one for ever, and one that begins none
\* leaves the tables alone.
LEMMA Begins ==
  ASSUME Types, NEW w \in 1..2, Step(w), writers'[w].block = 0
  PROVE  /\ writers[w].block = 0 /\ writers'[w].pc = "failed"
         /\ UNCHANGED <<raw, rows, known, counters, missed>>
<1>1. CASE Insert(w)
  BY <1>1, InsertMoves, Numbers
<1>2. CASE InsertFails(w) \/ RecalculateFails(w)
  BY <1>2, FailMoves DEF InsertFails, RecalculateFails
<1>3. CASE Report(w)
  BY <1>3, ReportMoves, Numbers
<1>4. ASSUME NEW key, ReadRow(w, key) PROVE FALSE
  BY <1>4, ReadMoves, ShapeOf DEF Shape
<1>5. CASE WriteRow(w)
  BY <1>5, WriteMoves, Numbers
<1>6. CASE ReportFails(w)
  BY <1>6, ReportFailMoves, Numbers
<1>7. CASE Recalculate(w)
  BY <1>7, RecalculateMoves
<1>8. ASSUME NEW key, ReplaceRow(w, key) PROVE FALSE
  BY <1>8, ReplaceMoves, ShapeOf DEF Shape
<1> QED
  BY <1>1, <1>2, <1>3, <1>4, <1>5, <1>6, <1>7, <1>8 DEF Step

LEMMA InitRepairing == Init => Repairing
BY DEF Init, Repairing, Writer

LEMMA StepRepairing ==
  ASSUME Types, Repairing, NEW w \in 1..2, Step(w)
  PROVE  Repairing'
<1>t. Types'
  BY StepTypes
<1> SUFFICES ASSUME Alone(2)', (writers[2].pc \in {"recalc", "done"})'
             PROVE  /\ (writers[2].found = Affected(BackfillBlocks))'
                    /\ \A k \in Keys : Touched(k)' =>
                         k \in writers'[2].todo \/ rows'[k] = Aggregate(k, raw)'
  BY DEF Repairing
<1>0. writers'[1].block = 0
  <2>1. 1 \in DOMAIN writers' \ {2}
    BY <1>t DEF Types
  <2> QED
    BY <2>1 DEF Alone
<1>1. CASE w = 1
  <2>1. /\ writers[1].block = 0 /\ UNCHANGED <<raw, rows>>
    BY <1>1, <1>0, Begins
  <2>2. writers'[2] = writers[2]
    BY <1>1, <1>t, StepOther
  <2>3. Alone(2) /\ writers[2].pc \in {"recalc", "done"}
    BY <2>1, <2>2, AloneBlock
  <2>4. /\ writers[2].found = Affected(BackfillBlocks)
        /\ \A k \in Keys : Touched(k) => k \in writers[2].todo \/ rows[k] = Aggregate(k, raw)
    BY <2>3 DEF Repairing
  <2> QED
    BY <2>1, <2>2, <2>4 DEF Affected, ForPeriod, Touched, Found, WrittenInDay, Aggregate
<1>2. CASE w = 2
  <2>1. CASE Recalculate(2)
    <3>1. UNCHANGED <<raw, rows>>
      BY <2>1 DEF Recalculate
    <3>2. Affected(BackfillBlocks)' = Affected(BackfillBlocks)
      BY <3>1 DEF Affected, ForPeriod
    <3>3. /\ writers'[2].found = Affected(BackfillBlocks)
          /\ known' = known \cup DistinctServiceIDs(Affected(BackfillBlocks))
          /\ writers'[2].todo = UNION {RowsOf(k, e.hour, known') :
                                         k \in {"hour", "day"}, e \in Affected(BackfillBlocks)}
      BY <2>1, RecalculateMoves
    <3>4. ASSUME NEW k \in Keys, Touched(k)' PROVE k \in writers'[2].todo
      <4>1. PICK e \in Affected(BackfillBlocks) : InRow(k, e)
        BY <3>2, <3>4 DEF Touched, Found
      <4>2. Service(e.block) \in known'
        BY <3>3, <4>1 DEF DistinctServiceIDs
      <4>3. k \in RowsOf(k.kind, e.hour, known') /\ k.kind \in {"hour", "day"}
        BY <4>1, <4>2, RowVisited, KeyOf
      <4> DEFINE SS == {RowsOf(x, d.hour, known') :
                          x \in {"hour", "day"}, d \in Affected(BackfillBlocks)}
      <4>4. RowsOf(k.kind, e.hour, known') \in SS
        BY <4>1, <4>3
      <4>5. writers'[2].todo = UNION SS
        BY <3>3
      <4> HIDE DEF SS
      <4> QED
        BY <4>3, <4>4, <4>5
    <3> QED
      BY <3>2, <3>3, <3>4
  <2>2. ASSUME NEW key, ReplaceRow(2, key)
        PROVE  /\ (writers[2].found = Affected(BackfillBlocks))'
               /\ \A k \in Keys : Touched(k)' =>
                    k \in writers'[2].todo \/ rows'[k] = Aggregate(k, raw)'
    <3>1. raw' = raw
      BY <2>2 DEF ReplaceRow
    <3>2. /\ Affected(BackfillBlocks)' = Affected(BackfillBlocks)
          /\ \A k : (Touched(k)' <=> Touched(k)) /\ Aggregate(k, raw)' = Aggregate(k, raw)
      BY <3>1 DEF Affected, ForPeriod, Touched, Found, WrittenInDay, Aggregate
    <3>3. /\ writers[2].pc = "recalc" /\ key \in Keys
          /\ rows' = [rows EXCEPT ![key] = Aggregate(key, writers[2].found)]
          /\ writers'[2].found = writers[2].found
          /\ writers'[2].todo = writers[2].todo \ {key}
      BY <2>2, ReplaceMoves
    <3>4. Alone(2)
      BY <1>0, <1>2, <1>t, AloneBlock, StepOther
    <3>5. /\ writers[2].found = Affected(BackfillBlocks)
          /\ \A k \in Keys : Touched(k) => k \in writers[2].todo \/ rows[k] = Aggregate(k, raw)
      BY <3>3, <3>4 DEF Repairing
    <3>6. ASSUME NEW k \in Keys, Touched(k)
          PROVE  k \in writers'[2].todo \/ rows'[k] = Aggregate(k, raw)
      <4>1. CASE k = key
        <5>1. rows'[k] = Aggregate(k, Affected(BackfillBlocks))
          BY <3>3, <3>5, <4>1 DEF Types
        <5> QED
          BY <3>6, <5>1, FoundWhole
      <4>2. CASE k # key
        <5>1. rows'[k] = rows[k]
          BY <3>3, <4>2 DEF Types
        <5> QED
          BY <3>3, <3>5, <3>6, <4>2, <5>1
      <4> QED
        BY <4>1, <4>2
    <3> QED
      BY <3>2, <3>3, <3>5, <3>6
  <2>3. Recalculate(2) \/ \E key : ReplaceRow(2, key)
    <3>1. ~Insert(2)
      BY InsertMoves
    <3>2. ~InsertFails(2) /\ ~RecalculateFails(2)
      BY FailMoves
    <3>3. ~Report(2)
      BY ReportMoves
    <3>4. \A key : ~ReadRow(2, key)
      BY ReadMoves
    <3>5. ~WriteRow(2)
      BY WriteMoves
    <3>6. ~ReportFails(2)
      BY ReportFailMoves
    <3> QED
      BY <1>2, <3>1, <3>2, <3>3, <3>4, <3>5, <3>6 DEF Step
  <2> QED
    BY <2>1, <2>2, <2>3
<1> QED
  BY <1>1, <1>2

\* A completed recalculation repairs the summaries, whatever the rows held and however
\* often and at whatever time a block already stored was processed again: every row of
\* the days touched that has raw events is what the raw tables say, in whatever zone the
\* host is, provided the text stored for each of the row's events names the day the event
\* is in.  That holds of header times, of wall clocks of a host in UTC, and of those not
\* close to midnight elsewhere.
THEOREM RecalculationHolds == Spec => []RecalculationRepairs
<1>1. Types /\ Repairing /\ [Next]_vars => Repairing'
  <2> SUFFICES ASSUME Types, Repairing, [Next]_vars PROVE Repairing'
    OBVIOUS
  <2>1. CASE \E w \in 1..2 : Step(w)
    BY <2>1, StepRepairing
  <2>2. CASE UNCHANGED vars
    BY <2>2 DEF vars, Repairing, Alone, Touched, Found, WrittenInDay, Affected, ForPeriod,
                Aggregate
  <2> QED
    BY <2>1, <2>2, NextSteps
<1>2. Types /\ Repairing => RecalculationRepairs
  <2> SUFFICES ASSUME Types, Repairing PROVE RecalculationRepairs
    OBVIOUS
  <2>1. writers[2].pc = "done" => writers[2].todo = {}
    BY ShapeOf DEF Shape
  <2> QED
    BY <2>1 DEF Repairing, RecalculationRepairs, Touched
<1> QED
  BY <1>1, <1>2, InitTypes, NextTypes, InitRepairing, PTL DEF Spec

-----------------------------------------------------------------------------
(* What the collector alone leaves in the summary rows.                    *)

\* No block the collector will receive is in the raw tables at the start: a live
\* block that is there already is accumulated again, which nothing here repairs.
AllNew == LiveBlocks \cap InitialRaw = {}

\* The collector is at a block it has put into the raw tables, and reports it.
Busy == writers[1].pc \notin {"idle", "failed"}
Current == Row(writers[1].block, TRUE)

\* The raw tables hold what was there and each block the collector has begun, once;
\* only such blocks may be missing, and the one it is at is not among them yet.
Stored == InitialRows \cup {Row(b, TRUE) : b \in LiveBlocks \ writers[1].left}

InLive ==
  /\ writers[1].left \subseteq LiveBlocks /\ raw = Stored
  /\ missed \subseteq InitialRaw \cup (LiveBlocks \ writers[1].left)
  /\ Busy => writers[1].block \in (LiveBlocks \ writers[1].left) \ missed

\* A row is read once for a block, in the tables of the loop the report is in, and has
\* not changed when it is written.
Visiting ==
  LET r == writers[1] IN
  /\ r.pc \in {"hour", "hourRead", "day", "dayRead"} => Service(r.block) \in known
  /\ r.pc \in {"hour", "hourRead"} => \A k \in r.todo \cup r.at : k.kind = "hour"
  /\ r.pc \in {"hourRead", "dayRead"} => \A k \in r.at : k \notin r.todo /\ r.got = rows[k]

\* The rows the current block has yet to be counted in, and the claims it has added.
Pending(k) ==
  \/ writers[1].pc = "inserted"
  \/ writers[1].pc \in {"hour", "hourRead"} /\ k.kind = "day"
  \/ k \in writers[1].todo \cup writers[1].at
Told(k) == IF Busy /\ ~Pending(k) THEN Counts(k, Current) ELSE 0

\* Every row holds the claims of the blocks before the current one, those that may be
\* missing or not, and its own if it has been counted there.
Before == IF Busy THEN raw \ {Current} ELSE raw
Settled == {e \in Before : e.block \notin missed}

Bounds(k) ==
  /\ Aggregate(k, Settled) + Told(k) <= rows[k]
  /\ rows[k] <= Aggregate(k, Before) + Told(k)

Tallied == InLive /\ Visiting /\ \A k \in Keys : Bounds(k)

LEMMA CountsOne == \A k, e : Counts(k, e) \in {0, 1}
BY DEF Counts

\* The numbers of Bounds.
LEMMA BoundNumbers ==
  ASSUME Types, NEW k \in Keys
  PROVE  /\ Aggregate(k, Settled) \in Nat /\ Aggregate(k, Before) \in Nat
         /\ Told(k) \in Nat /\ rows[k] \in Nat
         /\ Before \in SUBSET AllRows /\ Settled \in SUBSET AllRows
<1>1. Before \in SUBSET AllRows /\ Settled \in SUBSET AllRows
  BY DEF Types, Before, Settled
<1>2. Aggregate(k, Settled) \in Nat /\ Aggregate(k, Before) \in Nat
  BY <1>1, Aggregates
<1> QED
  BY <1>1, <1>2, CountsOne DEF Types, Told

\* A block is in the raw tables once, at the time the collector has for it.
LEMMA StoredOnce ==
  ASSUME InLive, NEW e \in raw
  PROVE  e = Row(e.block, TRUE) /\ e.block \in InitialRaw \cup (LiveBlocks \ writers[1].left)
<1>1. PICK b \in InitialRaw \cup (LiveBlocks \ writers[1].left) : e = Row(b, TRUE)
  BY DEF InLive, Stored, InitialRows
<1> QED
  BY <1>1 DEF Row

LEMMA CurrentRow ==
  ASSUME Types, InLive, Busy
  PROVE  /\ writers[1].block \in Blocks /\ Current \in raw /\ Current \in AllRows
         /\ Current.block = writers[1].block
         /\ Current.hour = BlockHour(writers[1].block, TRUE)
         /\ \A e \in raw : e.block = writers[1].block => e = Current
         /\ Current \notin Before /\ raw = Before \cup {Current}
<1>1. writers[1].block \in LiveBlocks \ writers[1].left
  BY DEF InLive
<1>2. Current \in raw
  BY <1>1 DEF Current, InLive, Stored
<1>3. Current.block = writers[1].block /\ Current.hour = BlockHour(writers[1].block, TRUE)
  BY DEF Current, Row
<1>4. \A e \in raw : e.block = writers[1].block => e = Current
  BY StoredOnce DEF Current
<1> QED
  BY <1>1, <1>2, <1>3, <1>4 DEF Types, Before, Blocks

\* The service of a block is known and its rows of one kind are to be visited: it
\* adds nothing to another row of that kind.
LEMMA NotVisited ==
  ASSUME NEW k \in Keys, NEW e, NEW services, Service(e.block) \in services,
         k \notin RowsOf(k.kind, e.hour, services)
  PROVE  Counts(k, e) = 0
BY RowVisited DEF Counts

\* A step that disturbs no bound.
LEMMA BoundsKept ==
  ASSUME NEW k \in Keys, Bounds(k), Before' = Before, Settled' = Settled,
         rows' = rows, Told(k)' = Told(k)
  PROVE  Bounds(k)'
BY DEF Bounds, Aggregate

\* The first writer is the collector.
LEMMA CollectorLive == Types => writers[1].live = TRUE /\ writers[1].pc \notin {"recalc", "done"}
<1> SUFFICES ASSUME Types PROVE writers[1].live = TRUE /\ writers[1].pc \notin {"recalc", "done"}
  OBVIOUS
<1>1. Shape(1)
  BY DEF Types
<1>2. 1 = 1 => writers[1].live = TRUE /\ writers[1].pc \notin {"recalc", "done"}
  BY <1>1, Zenon DEF Shape
<1> QED
  BY <1>2, Zenon

LEMMA InitTallied == AllNew /\ Init => Tallied
<1> SUFFICES ASSUME Init PROVE Tallied
  OBVIOUS
<1>1. writers[1] = Writer(LiveBlocks, TRUE) /\ raw = InitialRows /\ missed = InitialRaw
  BY DEF Init
<1>2. writers[1].pc = "idle" /\ writers[1].left = LiveBlocks
  BY <1>1 DEF Writer
<1>3. InLive /\ Visiting
  <2>1. Stored = InitialRows
    BY <1>2 DEF Stored
  <2> QED
    BY <1>1, <1>2, <2>1 DEF InLive, Visiting, Busy
<1>4. Before = InitialRows /\ Settled = {} /\ \A k : Told(k) = 0
  <2>1. ~Busy
    BY <1>2 DEF Busy
  <2>2. ASSUME NEW e \in InitialRows PROVE e.block \in InitialRaw
    <3>1. PICK b \in InitialRaw : e = Row(b, TRUE)
      BY DEF InitialRows
    <3> QED
      BY <3>1 DEF Row
  <2> QED
    BY <1>1, <2>1, <2>2 DEF Before, Settled, Told
<1>5. ASSUME NEW k \in Keys PROVE Bounds(k)
  <2>1. PICK reported \in [InitialRaw -> 0..4] :
          rows[k] = Aggregate(k, {e \in InitialRows : Turn(k) <= reported[e.block]})
    BY DEF Init
  <2> DEFINE es == {e \in InitialRows : Turn(k) <= reported[e.block]}
  <2>2. InitialRows \in SUBSET AllRows
    BY <1>1, InitTypes DEF Types
  <2>3. es \in SUBSET InitialRows
    OBVIOUS
  <2>4. rows[k] = Aggregate(k, es)
    BY <2>1
  <2> HIDE DEF es
  <2>5. rows[k] \in Nat /\ rows[k] <= Aggregate(k, InitialRows) /\ Aggregate(k, InitialRows) \in Nat
    BY <2>2, <2>3, <2>4, Aggregates
  <2>6. Aggregate(k, {}) = 0
    BY FS_EmptySet DEF Aggregate
  <2> QED
    BY <1>4, <2>5, <2>6 DEF Bounds
<1> QED
  BY <1>3, <1>5 DEF Tallied

-----------------------------------------------------------------------------
\* A new block enters the raw tables, and no row counts it yet.
LEMMA InsertTallied ==
  ASSUME AllNew, Types, Tallied, Insert(1)
  PROVE  Tallied'
<1> DEFINE r == writers[1]
           n == writers'[1]
           b == Least(r.left)
<1>i. InLive
  BY DEF Tallied
<1>0. /\ b \in r.left /\ b \in Blocks /\ r.pc = "idle"
      /\ n.pc = "inserted" /\ n.block = b /\ n.left = r.left \ {b}
      /\ n.todo = r.todo /\ n.at = r.at
      /\ raw' = IF \E e \in raw : e.block = b THEN raw ELSE raw \cup {Row(b, r.live)}
  BY InsertMoves
<1>1. r.live = TRUE
  BY CollectorLive
<1>2. UNCHANGED <<rows, known, counters, missed>>
  BY DEF Insert
<1> HIDE DEF b
<1>3. \A e \in raw : e.block # b
  BY <1>i, <1>0, StoredOnce DEF AllNew, InLive
<1>4. raw' = raw \cup {Row(b, TRUE)} /\ Row(b, TRUE) \notin raw
  BY <1>0, <1>1, <1>3 DEF Row
<1>5. Stored' = Stored \cup {Row(b, TRUE)}
  <2>1. LiveBlocks \ n.left = (LiveBlocks \ r.left) \cup {b}
    BY <1>i, <1>0 DEF InLive
  <2>2. Stored' = InitialRows \cup {Row(c, TRUE) : c \in LiveBlocks \ n.left}
    BY DEF Stored
  <2> HIDE DEF n, r
  <2>3. {Row(c, TRUE) : c \in (LiveBlocks \ r.left) \cup {b}} =
          {Row(c, TRUE) : c \in LiveBlocks \ r.left} \cup {Row(b, TRUE)}
    OBVIOUS
  <2> QED
    BY <2>1, <2>2, <2>3 DEF Stored, r
<1>6. ~Busy /\ Busy' /\ Current' = Row(b, TRUE)
  BY <1>0 DEF Busy, Current
<1>7. InLive'
  <2>1. b \in LiveBlocks /\ b \notin missed
    BY <1>i, <1>0 DEF InLive, AllNew
  <2>2. raw' = Stored'
    BY <1>i, <1>4, <1>5 DEF InLive
  <2> QED
    BY <1>i, <1>0, <1>2, <2>1, <2>2 DEF InLive
<1>8. Visiting'
  BY <1>0 DEF Visiting
<1>9. Before' = Before /\ Settled' = Settled
  BY <1>2, <1>4, <1>6 DEF Before, Settled
<1>10. \A k : Told(k) = 0 /\ Told(k)' = 0
  BY <1>0, <1>6 DEF Told, Pending
<1>11. ASSUME NEW k \in Keys PROVE Bounds(k)'
  BY <1>2, <1>9, <1>10, BoundsKept DEF Tallied
<1> QED
  BY <1>7, <1>8, <1>11 DEF Tallied

\* A step within the report of one block moves neither the raw tables nor the block.
LEMMA SameBlock ==
  ASSUME Types, InLive, Busy, Busy', UNCHANGED <<raw, missed>>,
         writers'[1].left = writers[1].left, writers'[1].block = writers[1].block
  PROVE  InLive' /\ Current' = Current /\ Before' = Before /\ Settled' = Settled
<1>1. Current' = Current
  BY DEF Current
<1>2. Stored' = Stored
  BY DEF Stored
<1>3. InLive'
  BY <1>2 DEF InLive
<1>4. Before' = Before
  BY <1>1 DEF Before
<1> QED
  BY <1>1, <1>3, <1>4 DEF Settled

\* The report begins with the hourly rows of the services known, its own among them.
LEMMA ReportTallied ==
  ASSUME Types, Tallied, Report(1)
  PROVE  Tallied'
<1> DEFINE r == writers[1]
           n == writers'[1]
<1>i. InLive
  BY DEF Tallied
<1>0. /\ r.pc = "inserted" /\ n.pc = "hour" /\ n.block = r.block /\ n.left = r.left
      /\ n.at = r.at
      /\ n.todo = RowsOf("hour", BlockHour(r.block, r.live), known')
      /\ known' = known \cup {Service(r.block)} /\ known' \subseteq 0..Services - 1
  BY ReportMoves
<1>1. r.live = TRUE /\ r.at = {}
  <2>1. r.at = {}
    BY <1>0, ShapeOf DEF Shape
  <2> QED
    BY <2>1, CollectorLive
<1>2. UNCHANGED <<raw, rows, missed>>
  BY DEF Report
<1>3. Busy /\ Busy'
  BY <1>0 DEF Busy
<1>4. InLive' /\ Current' = Current /\ Before' = Before /\ Settled' = Settled
  BY <1>i, <1>0, <1>2, <1>3, SameBlock
<1>5. Visiting'
  <2>1. \A k \in n.todo : k.kind = "hour"
    BY <1>0, KindVisited
  <2> QED
    BY <1>0, <1>1, <2>1 DEF Visiting
<1>6. ASSUME NEW k \in Keys PROVE Told(k) = 0 /\ Told(k)' = 0
  <2>1. Told(k) = 0
    BY <1>0 DEF Told, Pending
  <2>2. CASE Pending(k)'
    BY <2>1, <2>2 DEF Told
  <2>3. CASE ~Pending(k)'
    <3>1. k.kind # "day" /\ k \notin n.todo
      BY <1>0, <2>3 DEF Pending
    <3>2. k.kind = "hour"
      BY <3>1, KeyOf
    <3>3. Current.block = r.block /\ Current.hour = BlockHour(r.block, TRUE)
      BY <1>i, <1>3, CurrentRow
    <3>4. k \notin RowsOf(k.kind, Current.hour, known') /\ Service(Current.block) \in known'
      BY <1>0, <1>1, <3>1, <3>2, <3>3
    <3>5. Counts(k, Current) = 0
      BY <3>4, NotVisited
    <3> QED
      BY <1>4, <2>1, <3>5 DEF Told
  <2> QED
    BY <2>2, <2>3
<1>7. ASSUME NEW k \in Keys PROVE Bounds(k)'
  BY <1>2, <1>4, <1>6, BoundsKept DEF Tallied
<1> QED
  BY <1>4, <1>5, <1>7 DEF Tallied

LEMMA ReadTallied ==
  ASSUME Types, Tallied, NEW key, ReadRow(1, key)
  PROVE  Tallied'
<1> DEFINE r == writers[1]
           n == writers'[1]
<1>i. InLive /\ Visiting
  BY DEF Tallied
<1>0. /\ key \in r.todo /\ r.pc \in {"hour", "day"}
      /\ n.pc = (IF r.pc = "hour" THEN "hourRead" ELSE "dayRead")
      /\ n.block = r.block /\ n.left = r.left
      /\ n.todo = r.todo \ {key} /\ n.at = {key} /\ n.got = rows[key]
  BY ReadMoves
<1>1. r.at = {}
  BY <1>0, ShapeOf DEF Shape
<1>2. UNCHANGED <<raw, rows, known, counters, missed>>
  BY DEF ReadRow
<1>3. Busy /\ Busy'
  BY <1>0 DEF Busy
<1>4. InLive' /\ Current' = Current /\ Before' = Before /\ Settled' = Settled
  BY <1>i, <1>0, <1>2, <1>3, SameBlock
<1>5. n.todo \cup n.at = r.todo \cup r.at
  BY <1>0, <1>1
<1>6. Visiting'
  BY <1>i, <1>0, <1>2, <1>5 DEF Visiting
<1>7. ASSUME NEW k \in Keys PROVE Told(k)' = Told(k)
  <2>1. Pending(k)' <=> Pending(k)
    BY <1>0, <1>5 DEF Pending
  <2> QED
    BY <1>3, <1>4, <2>1 DEF Told, Counts
<1>8. ASSUME NEW k \in Keys PROVE Bounds(k)'
  BY <1>2, <1>4, <1>7, BoundsKept DEF Tallied
<1> QED
  BY <1>4, <1>6, <1>8 DEF Tallied

\* A row is written: the block is counted in it, and in every row once the last has
\* been written.
LEMMA WriteTallied ==
  ASSUME Types, Tallied, WriteRow(1)
  PROVE  Tallied'
<1> DEFINE r == writers[1]
           n == writers'[1]
<1>i. InLive /\ Visiting
  BY DEF Tallied
<1>0. /\ r.pc \in {"hourRead", "dayRead"}
      /\ n.block = r.block /\ n.left = r.left /\ n.at = {}
      /\ \/ r.todo # {} /\ n.todo = r.todo /\ n.pc = IF r.pc = "hourRead" THEN "hour" ELSE "day"
         \/ /\ r.todo = {} /\ r.pc = "hourRead" /\ n.pc = "day"
            /\ n.todo = RowsOf("day", BlockHour(r.block, r.live), known)
         \/ r.todo = {} /\ r.pc = "dayRead" /\ n.pc = "idle" /\ n.todo = {}
  BY WriteMoves
<1>1. PICK key \in Keys :
        /\ r.at = {key}
        /\ rows' = [rows EXCEPT ![key] = r.got + Counts(key, Row(r.block, r.live))]
  BY WriteMoves
<1>2. r.live = TRUE
  BY CollectorLive
<1>3. UNCHANGED <<raw, known, counters, missed>>
  BY DEF WriteRow
<1>4. Busy
  BY <1>0 DEF Busy
<1>5. key \notin r.todo /\ r.got = rows[key]
  BY <1>i, <1>0, <1>1 DEF Visiting
<1>6. /\ rows'[key] = rows[key] + Counts(key, Current)
      /\ \A k \in Keys : k # key => rows'[k] = rows[k]
  <2>1. Row(r.block, r.live) = Current
    BY <1>2, Zenon DEF Current
  <2>2. rows' = [rows EXCEPT ![key] = rows[key] + Counts(key, Current)]
    BY <1>1, <1>5, <2>1
  <2> QED
    BY <2>2 DEF Types
<1>7. Told(key) = 0
  BY <1>1, <1>4 DEF Told, Pending
<1>8. \A k \in Keys : Bounds(k)
  BY DEF Tallied
<1>9. /\ Current.block = r.block /\ Current.hour = BlockHour(r.block, TRUE)
      /\ Current \notin Before /\ raw = Before \cup {Current} /\ Current \in AllRows
      /\ \A e \in raw : e.block = r.block => e = Current
  BY <1>i, <1>4, CurrentRow
<1>10. CASE n.pc # "idle"
  <2>1. n.pc \in {"hour", "day"} /\ Busy'
    BY <1>0, <1>10 DEF Busy
  <2>2. InLive' /\ Current' = Current /\ Before' = Before /\ Settled' = Settled
    BY <1>i, <1>0, <1>3, <1>4, <2>1, SameBlock
  <2>3. Visiting'
    BY <1>i, <1>0, <1>3, <1>10 DEF Visiting
  <2>4. ~Pending(key)'
    <3>1. key \notin n.todo
      <4>1. CASE r.todo # {}
        BY <1>0, <1>5, <4>1
      <4>2. CASE r.todo = {}
        <5>1. /\ r.pc = "hourRead"
              /\ n.todo = RowsOf("day", BlockHour(r.block, r.live), known)
          BY <1>0, <1>10, <4>2
        <5>2. key.kind = "hour"
          BY <1>i, <1>1, <5>1 DEF Visiting
        <5> QED
          BY <5>1, <5>2, KindVisited
      <4> QED
        BY <4>1, <4>2
    <3>2. n.pc = "hour" => key.kind = "hour"
      BY <1>i, <1>0, <1>1 DEF Visiting
    <3> QED
      BY <1>0, <2>1, <3>1, <3>2 DEF Pending
  <2>5. ASSUME NEW k \in Keys, k # key PROVE Told(k)' = Told(k)
    <3>1. CASE r.todo # {}
      <4>1. Pending(k)' <=> Pending(k)
        BY <1>0, <1>1, <2>1, <2>5, <3>1 DEF Pending
      <4> QED
        BY <1>4, <2>1, <2>2, <4>1 DEF Told, Counts
    <3>2. CASE r.todo = {}
      <4>1. /\ r.pc = "hourRead" /\ n.pc = "day"
            /\ n.todo = RowsOf("day", BlockHour(r.block, r.live), known)
        BY <1>0, <1>10, <3>2
      <4>2. Pending(k) <=> k.kind = "day"
        BY <1>1, <2>5, <3>2, <4>1 DEF Pending
      <4>3. Pending(k)' <=> k \in n.todo
        BY <1>0, <4>1 DEF Pending
      <4>4. CASE k.kind = "hour"
        <5>1. k \notin n.todo
          BY <4>1, <4>4, KindVisited
        <5> QED
          BY <1>4, <2>1, <2>2, <4>2, <4>3, <4>4, <5>1 DEF Told, Counts
      <4>5. CASE k.kind = "day"
        <5>1. CASE k \in n.todo
          BY <4>2, <4>3, <4>5, <5>1 DEF Told
        <5>2. CASE k \notin n.todo
          <6>1. k \notin RowsOf(k.kind, Current.hour, known)
            BY <1>2, <1>9, <4>1, <4>5, <5>2
          <6>2. Service(Current.block) \in known
            BY <1>i, <1>0, <1>9 DEF Visiting
          <6>3. Counts(k, Current) = 0
            BY <6>1, <6>2, NotVisited
          <6> QED
            BY <2>2, <6>3 DEF Told
        <5> QED
          BY <5>1, <5>2
      <4> QED
        BY <4>4, <4>5, KeyOf
    <3> QED
      BY <3>1, <3>2
  <2>6. ASSUME NEW k \in Keys PROVE Bounds(k)'
    <3>1. CASE k # key
      <4>1. rows'[k] = rows[k] /\ Told(k)' = Told(k)
        BY <1>6, <2>5, <3>1
      <4> QED
        BY <1>8, <2>2, <4>1 DEF Bounds, Aggregate
    <3>2. CASE k = key
      <4>1. Told(key)' = Counts(key, Current)
        BY <2>1, <2>2, <2>4 DEF Told, Counts
      <4>2. /\ Aggregate(key, Settled) <= rows[key]
            /\ rows[key] <= Aggregate(key, Before)
        BY <1>7, <1>8, BoundNumbers DEF Bounds
      <4>3. /\ Aggregate(key, Settled) \in Nat /\ Aggregate(key, Before) \in Nat
            /\ rows[key] \in Nat /\ Counts(key, Current) \in Nat
        BY BoundNumbers, CountsOne
      <4>4. /\ Aggregate(key, Settled)' = Aggregate(key, Settled)
            /\ Aggregate(key, Before)' = Aggregate(key, Before)
        BY <2>2 DEF Aggregate
      <4>5. /\ Aggregate(key, Settled) + Counts(key, Current) <= rows'[key]
            /\ rows'[key] <= Aggregate(key, Before) + Counts(key, Current)
        BY <1>6, <4>2, <4>3
      <4> QED
        BY <3>2, <4>1, <4>4, <4>5 DEF Bounds
    <3> QED
      BY <3>1, <3>2
  <2> QED
    BY <2>2, <2>3, <2>6 DEF Tallied
<1>11. CASE n.pc = "idle"
  <2>1. r.todo = {} /\ n.todo = {} /\ r.pc = "dayRead" /\ ~Busy'
    BY <1>0, <1>11 DEF Busy
  <2>2. Stored' = Stored
    BY <1>0 DEF Stored
  <2>3. InLive'
    BY <1>i, <1>0, <1>3, <2>1, <2>2 DEF InLive
  <2>4. Visiting'
    BY <1>11 DEF Visiting
  <2>5. r.block \notin missed
    BY <1>i, <1>4 DEF InLive
  <2>6. Before' = Before \cup {Current} /\ Settled' = Settled \cup {Current}
    <3>1. Before' = Before \cup {Current}
      BY <1>3, <1>9, <2>1 DEF Before
    <3> QED
      BY <1>3, <1>9, <2>5, <3>1 DEF Settled
  <2>7. ASSUME NEW k \in Keys PROVE Bounds(k)'
    <3>1. /\ Aggregate(k, Before \cup {Current}) = Aggregate(k, Before) + Counts(k, Current)
          /\ Aggregate(k, Settled \cup {Current}) = Aggregate(k, Settled) + Counts(k, Current)
      <4>1. Current \notin Settled
        BY <1>9 DEF Settled
      <4> QED
        BY <1>9, <4>1, BoundNumbers, AggregateMore
    <3>2. Told(k)' = 0
      BY <2>1 DEF Told
    <3>3. /\ Aggregate(k, Settled) + Counts(k, Current) <= rows'[k]
          /\ rows'[k] <= Aggregate(k, Before) + Counts(k, Current)
      <4>1. /\ Aggregate(k, Settled) \in Nat /\ Aggregate(k, Before) \in Nat
            /\ rows[k] \in Nat /\ Counts(k, Current) \in Nat
        BY BoundNumbers, CountsOne
      <4>2. CASE k = key
        <5>1. Aggregate(k, Settled) <= rows[k] /\ rows[k] <= Aggregate(k, Before)
          BY <1>7, <1>8, <4>1, <4>2 DEF Bounds
        <5> QED
          BY <1>6, <4>1, <4>2, <5>1
      <4>3. CASE k # key
        <5>1. Told(k) = Counts(k, Current)
          BY <1>1, <1>4, <2>1, <4>3 DEF Told, Pending
        <5> QED
          BY <1>6, <1>8, <4>3, <5>1 DEF Bounds
      <4> QED
        BY <4>2, <4>3
    <3>4. /\ Aggregate(k, Settled)' = Aggregate(k, Settled \cup {Current})
          /\ Aggregate(k, Before)' = Aggregate(k, Before \cup {Current})
      BY <2>6 DEF Aggregate
    <3>5. /\ Aggregate(k, Settled)' <= rows'[k] /\ rows'[k] <= Aggregate(k, Before)'
      BY <3>1, <3>3, <3>4
    <3>6. Aggregate(k, Settled)' \in Nat /\ Aggregate(k, Before)' \in Nat
      <4>1. /\ Before \cup {Current} \in SUBSET AllRows
            /\ Settled \cup {Current} \in SUBSET AllRows
        BY <1>9, BoundNumbers
      <4> QED
        BY <3>4, <4>1, Aggregates
    <3> QED
      BY <3>2, <3>5, <3>6 DEF Bounds
  <2> QED
    BY <2>3, <2>4, <2>7 DEF Tallied
<1> QED
  BY <1>10, <1>11

\* A report that fails leaves the block out of the rows it has not come to, and among
\* those that may be missing.
LEMMA ReportFailTallied ==
  ASSUME Types, Tallied, ReportFails(1)
  PROVE  Tallied'
<1> DEFINE r == writers[1]
           n == writers'[1]
<1>i. InLive
  BY DEF Tallied
<1>0. /\ r.pc \in {"hour", "hourRead", "day", "dayRead"} /\ missed' = missed \cup {r.block}
      /\ n.pc = "idle" /\ n.block = r.block /\ n.left = r.left
  BY ReportFailMoves
<1>1. UNCHANGED <<raw, rows, known, counters>>
  BY DEF ReportFails
<1>2. Busy /\ ~Busy'
  BY <1>0 DEF Busy
<1>3. /\ Current.block = r.block
      /\ Current \notin Before /\ raw = Before \cup {Current} /\ Current \in AllRows
      /\ \A e \in raw : e.block = r.block => e = Current
  BY <1>i, <1>2, CurrentRow
<1>4. InLive'
  <2>1. Stored' = Stored
    BY <1>0 DEF Stored
  <2> QED
    BY <1>i, <1>0, <1>1, <1>2, <2>1 DEF InLive
<1>5. Visiting'
  BY <1>0 DEF Visiting
<1>6. Before' = Before \cup {Current} /\ Settled' = Settled
  <2>1. Before' = Before \cup {Current}
    BY <1>1, <1>2, <1>3 DEF Before
  <2> QED
    BY <1>0, <1>3, <2>1 DEF Settled
<1>7. ASSUME NEW k \in Keys PROVE Bounds(k)'
  <2>1. Aggregate(k, Before \cup {Current}) = Aggregate(k, Before) + Counts(k, Current)
    BY <1>3, BoundNumbers, AggregateMore
  <2>2. Told(k)' = 0 /\ Told(k) <= Counts(k, Current)
    BY <1>2, CountsOne DEF Told
  <2>3. /\ Aggregate(k, Settled) \in Nat /\ Aggregate(k, Before) \in Nat
        /\ rows[k] \in Nat /\ Told(k) \in Nat /\ Counts(k, Current) \in Nat
    BY BoundNumbers, CountsOne
  <2>4. Bounds(k)
    BY DEF Tallied
  <2>5. /\ Aggregate(k, Settled) <= rows[k]
        /\ rows[k] <= Aggregate(k, Before \cup {Current})
    BY <2>1, <2>2, <2>3, <2>4 DEF Bounds
  <2>6. /\ Aggregate(k, Settled)' = Aggregate(k, Settled)
        /\ Aggregate(k, Before)' = Aggregate(k, Before \cup {Current})
    BY <1>6 DEF Aggregate
  <2> QED
    BY <1>1, <2>1, <2>2, <2>3, <2>5, <2>6 DEF Bounds
<1> QED
  BY <1>4, <1>5, <1>7 DEF Tallied

LEMMA InsertFailTallied ==
  ASSUME Types, Tallied, InsertFails(1)
  PROVE  Tallied'
<1>1. writers'[1].pc = "failed" /\ writers'[1].left = writers[1].left
  BY FailMoves
<1>2. writers[1].pc = "idle" /\ UNCHANGED <<raw, rows, known, counters, missed>>
  BY DEF InsertFails
<1>3. ~Busy /\ ~Busy'
  BY <1>1, <1>2 DEF Busy
<1>4. InLive'
  <2>1. Stored' = Stored
    BY <1>1 DEF Stored
  <2> QED
    BY <1>1, <1>2, <1>3, <2>1 DEF InLive, Tallied
<1>5. Visiting'
  BY <1>1 DEF Visiting
<1>6. Before' = Before /\ Settled' = Settled
  BY <1>2, <1>3 DEF Before, Settled
<1>7. ASSUME NEW k \in Keys PROVE Bounds(k)'
  <2>1. Told(k)' = Told(k)
    BY <1>3 DEF Told
  <2> QED
    BY <1>2, <1>6, <2>1, BoundsKept DEF Tallied
<1> QED
  BY <1>4, <1>5, <1>7 DEF Tallied

\* Nothing the summaries of the collector are about moves.
LEMMA TalliedKept ==
  ASSUME Tallied, writers'[1] = writers[1], UNCHANGED <<raw, rows, known, missed>>
  PROVE  Tallied'
<1>1. /\ Busy' <=> Busy
      /\ Current' = Current
      /\ Stored' = Stored
  BY DEF Busy, Current, Stored
<1>2. InLive' /\ Visiting'
  BY <1>1 DEF Tallied, InLive, Visiting
<1>3. Before' = Before /\ Settled' = Settled
  BY <1>1 DEF Before, Settled
<1>4. ASSUME NEW k \in Keys PROVE Bounds(k)'
  <2>1. Pending(k)' <=> Pending(k)
    BY DEF Pending
  <2>2. Told(k)' = Told(k)
    BY <1>1, <2>1 DEF Told, Counts
  <2> QED
    BY <1>3, <2>2, BoundsKept DEF Tallied
<1> QED
  BY <1>2, <1>4 DEF Tallied

\* As long as no backfill has begun.
AloneTallied == Alone(1) => Tallied

LEMMA StepTallied ==
  ASSUME AllNew, Types, AloneTallied, NEW w \in 1..2, Step(w)
  PROVE  AloneTallied'
<1>t. Types'
  BY StepTypes
<1> SUFFICES ASSUME Alone(1)' PROVE Tallied'
  BY DEF AloneTallied
<1>0. writers'[2].block = 0
  <2>1. 2 \in DOMAIN writers' \ {1}
    BY <1>t DEF Types
  <2> QED
    BY <2>1 DEF Alone
<1>1. CASE w = 1
  <2>1. Tallied
    <3>1. writers'[2] = writers[2]
      BY <1>1, StepOther
    <3> QED
      BY <1>0, <3>1, AloneBlock DEF AloneTallied
  <2>2. ~RecalculateFails(1) /\ ~Recalculate(1) /\ \A key : ~ReplaceRow(1, key)
    <3>1. ~RecalculateFails(1)
      BY CollectorLive DEF RecalculateFails
    <3>2. ~Recalculate(1)
      BY RecalculateMoves
    <3>3. \A key : ~ReplaceRow(1, key)
      BY ReplaceMoves
    <3> QED
      BY <3>1, <3>2, <3>3
  <2> QED
    BY <1>1, <2>1, <2>2, InsertTallied, InsertFailTallied, ReportTallied, ReadTallied,
       WriteTallied, ReportFailTallied DEF Step
<1>2. CASE w = 2
  <2>1. writers[2].block = 0 /\ UNCHANGED <<raw, rows, known, counters, missed>>
    BY <1>0, <1>2, Begins
  <2>2. writers'[1] = writers[1]
    BY <1>2, StepOther
  <2>3. Tallied
    BY <2>1, AloneBlock DEF AloneTallied
  <2> QED
    BY <2>1, <2>2, <2>3, TalliedKept
<1> QED
  BY <1>1, <1>2

\* The collector alone keeps the summaries, whatever statements fail: between two
\* blocks every hourly and daily row holds the claims of the blocks stored, except that
\* one whose report failed may be missing, and never a claim twice.  The blocks it
\* receives must not be stored yet.
THEOREM LiveHolds ==
  ASSUME LiveBlocks \cap InitialRaw = {}
  PROVE  Spec => []LiveSummaries
<1>1. AllNew
  BY DEF AllNew
<1>2. Types /\ AloneTallied /\ [Next]_vars => AloneTallied'
  <2> SUFFICES ASSUME Types, AloneTallied, [Next]_vars PROVE AloneTallied'
    OBVIOUS
  <2>1. CASE \E w \in 1..2 : Step(w)
    BY <1>1, <2>1, StepTallied
  <2>2. CASE UNCHANGED vars
    <3>1. writers'[1] = writers[1] /\ UNCHANGED <<raw, rows, known, missed>>
      BY <2>2 DEF vars
    <3>2. Alone(1)' <=> Alone(1)
      BY <2>2 DEF vars, Alone
    <3> QED
      BY <3>1, <3>2, TalliedKept DEF AloneTallied
  <2> QED
    BY <2>1, <2>2, NextSteps
<1>3. Init => AloneTallied
  BY <1>1, InitTallied DEF AloneTallied
<1>4. Types /\ AloneTallied => LiveSummaries
  <2> SUFFICES ASSUME Types, AloneTallied, Alone(1), writers[1].pc = "idle", NEW k \in Keys
               PROVE  /\ rows[k] <= Aggregate(k, raw)
                      /\ rows[k] >= Aggregate(k, {e \in raw : e.block \notin missed})
    BY DEF LiveSummaries
  <2>1. ~Busy
    BY DEF Busy
  <2>2. Before = raw /\ Settled = {e \in raw : e.block \notin missed} /\ Told(k) = 0
    BY <2>1 DEF Before, Settled, Told
  <2>3. Bounds(k)
    BY DEF AloneTallied, Tallied
  <2> QED
    BY <2>2, <2>3, BoundNumbers DEF Bounds
<1> QED
  BY <1>2, <1>3, <1>4, InitTypes, NextTypes, PTL DEF Spec

=============================================================================
