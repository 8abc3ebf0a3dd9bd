----------------------------- MODULE BlockEvents -----------------------------
(***************************************************************************)
(* One block on its way through ProcessBlock: the decoder's selection and  *)
(* attribute filter (subscriber/decoder.go), the supplier filter, the      *)
(* conversion into rows and the overservice correlation (processor/), the  *)
(* transaction that inserts them (InsertBlockEvents with its OR IGNOREs    *)
(* and the UNIQUE keys of schema.sql) and the counters of dispatchMetrics. *)
(*                                                                         *)
(* The block may be processed several times, by the collector and by a     *)
(* backfill in any order or at once, by processes with other supplier      *)
(* lists, with the time of its header or the wall clock in its place, and  *)
(* with its events gathered twice when a lagging node repeats it.  Amounts *)
(* are those of the overservice events; the other columns that are copied  *)
(* are left out.  An event of the block is a record, its content external. *)
(***************************************************************************)
EXTENDS Integers, Sequences, FiniteSets, SequencesExt

CONSTANTS
  Universe,         \* the events a block may hold
  MaxEvents,        \* bound: how many it holds
  SupplierLists,    \* the lists a process may be configured with; {} is all
  MaxCalls,         \* bound: calls of ProcessBlock
  MaxRestarts       \* bound: how often the process is started again

ASSUME BlockEventsAssumption ==
  /\ MaxEvents \in Nat /\ MaxCalls \in Nat /\ MaxRestarts \in Nat
  /\ IsFiniteSet(Universe)
  \* the rewards of a claim are a map from addresses to amounts
  /\ \A e \in Universe :
       /\ \A d \in e.rewards : d = [address |-> d.address, amount |-> d.amount]
       /\ \A c, d \in e.rewards : c.address = d.address => c = d

\* the collector; a gap recovery that takes recent blocks for live; any backfill
Writers == {"collector", "catchup", "backfill"}
IsLive(w) == w # "backfill"

Claims == {"settled", "expired", "slashed", "discarded"}
targetEventTypes == Claims \cup {"overserviced", "reimbursement"}
knownNonProtoAttrs == {"mode"}
Times == {"header", "clock"}

VARIABLES
  block,            \* the events of the block, as the chain has them
  suppliers,        \* the supplier list of this process
  writers,          \* what each writer is doing
  settlements, rewards, overservices, reimbursements, processed,    \* tables
  counters,         \* the claim and overservice counters of this process
  calls, restarts,  \* how often ProcessBlock was called, the process restarted
  dispatched,       \* history: copies of the block counted by this process
  committed         \* history: supplier lists of the transactions committed

tables == <<settlements, rewards, overservices, reimbursements, processed>>
bounds == <<calls, restarts>>
vars == <<block, suppliers, writers, tables, counters, bounds, dispatched, committed>>

-----------------------------------------------------------------------------
(* Decoding and filtering.                                                 *)

\* The loops that append what they keep of a slice: s at the positions in I.
SelectAt(s, I) ==
  LET kept[i \in 0..Len(s)] == IF i = 0 THEN <<>>
                               ELSE IF i \in I THEN Append(kept[i - 1], s[i])
                               ELSE kept[i - 1]
  IN  kept[Len(s)]

OfKinds(evs, kinds) == SelectAt(evs, {i \in DOMAIN evs : evs[i].kind \in kinds})

\* ParseTypedEvent needs the attributes of the message and no others
Parses(attrs) == attrs = {"proto"}

filterEventAttrs(attrs) == attrs \ knownNonProtoAttrs

decodeBlockEvents(b) ==
  SelectAt(b, {i \in DOMAIN b : /\ b[i].kind \in targetEventTypes
                               /\ Parses(filterEventAttrs(b[i].attrs))})

Match(list, supplier) == list = {} \/ supplier \in list

Filtered(evs, list) == SelectAt(evs, {i \in DOMAIN evs : Match(list, evs[i].supplier)})

-----------------------------------------------------------------------------
(* Conversion.                                                             *)

\* a coin string that does not parse counts as zero
Garbled == -1
parseCoinAmount(coin) == IF coin = Garbled THEN 0 ELSE coin

ClaimsOf(evs) == OfKinds(evs, Claims)

\* mutant: keyed by the position among all filtered events
RewardDistsByEvent(evs) ==
  [i \in {i \in DOMAIN evs : evs[i].kind = "settled"} |-> evs[i].rewards]

\* rewardDists: the rewards of each settled claim, by its index in settlements
RewardDists(evs) ==
  [i \in {i \in DOMAIN ClaimsOf(evs) : ClaimsOf(evs)[i].kind = "settled"} |->
     ClaimsOf(evs)[i].rewards]

\* the overservice events that concern a supplier and an application
OverservicesOf(evs, supplier, app) ==
  SelectAt(evs, {i \in DOMAIN evs : /\ evs[i].kind = "overserviced"
                                    /\ evs[i].supplier = supplier /\ evs[i].app = app})

\* mutant: any claim is marked
CorrelateAnyClaim(evs, e) ==
  LET os == OverservicesOf(evs, e.supplier, e.app)
  IN  IF os = <<>> THEN [marked |-> FALSE, diff |-> 0]
      ELSE [marked |-> TRUE,
            diff |-> parseCoinAmount(Last(os).expected) - parseCoinAmount(Last(os).effective)]

\* correlateOverservice, for one claim: the map keeps the last event of a key, and
\* only settled claims are marked
correlateOverservice(evs, e) ==
  LET os == OverservicesOf(evs, e.supplier, e.app)
  IN  IF e.kind # "settled" \/ os = <<>> THEN [marked |-> FALSE, diff |-> 0]
      ELSE [marked |-> TRUE,
            diff |-> parseCoinAmount(Last(os).expected) - parseCoinAmount(Last(os).effective)]

\* the settlement rows of a block, correlated over all its events, filtered or not
SettlementRows(evs, list, time) ==
  LET claims == ClaimsOf(Filtered(evs, list))
  IN  [i \in DOMAIN claims |->
         [kind |-> claims[i].kind, supplier |-> claims[i].supplier, app |-> claims[i].app,
          session |-> claims[i].session, service |-> claims[i].service,
          over |-> correlateOverservice(evs, claims[i]), time |-> time]]

OverserviceRows(evs, list, time) ==
  LET os == OfKinds(Filtered(evs, list), {"overserviced"})
  IN  [i \in DOMAIN os |->
         [supplier |-> os[i].supplier, app |-> os[i].app, time |-> time,
          diff |-> parseCoinAmount(os[i].expected) - parseCoinAmount(os[i].effective)]]

ReimbursementRows(evs, list, time) ==
  LET rs == OfKinds(Filtered(evs, list), {"reimbursement"})
  IN  [i \in DOMAIN rs |->
         [supplier |-> rs[i].supplier, app |-> rs[i].app, session |-> rs[i].session,
          time |-> time]]

-----------------------------------------------------------------------------
(* The tables.  A row is known by the columns of its UNIQUE key, the height *)
(* being that of the block; a reward row refers to its settlement.         *)

SettlementKey(r) == <<r.kind, r.supplier, r.app, r.session>>
OverserviceKey(r) == <<r.app, r.supplier>>
ReimbursementKey(r) == <<r.app, r.supplier, r.session>>

UniqueKey(name, r) ==
  CASE name = "settlements" -> SettlementKey(r)
    [] name = "overservice_events" -> OverserviceKey(r)
    [] name = "reimbursement_events" -> ReimbursementKey(r)

\* INSERT OR IGNORE, row after row: a row goes in unless the table has its key, by
\* then also from an earlier row
Inserted(name, table, rows) ==
  {i \in DOMAIN rows :
     /\ \A r \in table : UniqueKey(name, r) # UniqueKey(name, rows[i])
     /\ \A j \in DOMAIN rows : j < i => UniqueKey(name, rows[j]) # UniqueKey(name, rows[i])}

InsertRows(name, table, rows) == table \cup {rows[i] : i \in Inserted(name, table, rows)}

RewardRows(rows, dists, i) ==
  {[of |-> SettlementKey(rows[i]), address |-> d.address, amount |-> d.amount] : d \in dists[i]}

\* mutant: the rewards are inserted even when the settlement was ignored
InsertAllRewards(rows, dists) ==
  rewards \cup UNION {RewardRows(rows, dists, i) : i \in DOMAIN dists}

\* the rewards of a settlement that is ignored are skipped
InsertRewards(rows, dists) ==
  rewards \cup UNION {RewardRows(rows, dists, i) :
                      i \in DOMAIN dists \cap Inserted("settlements", settlements, rows)}

\* mutant: INSERT OR REPLACE
ReplaceProcessedBlock(row) == {row}

\* the height is the primary key of processed_blocks
InsertProcessedBlock(row) == IF processed # {} THEN processed ELSE {row}

-----------------------------------------------------------------------------
Idle == [phase |-> "idle", evs |-> <<>>, time |-> "header"]

Init ==
  /\ block \in SeqOf(Universe, MaxEvents)
  /\ suppliers \in SupplierLists
  /\ writers = [w \in Writers |-> Idle]
  /\ settlements = {} /\ rewards = {} /\ overservices = {} /\ reimbursements = {}
  /\ processed = {}
  /\ counters = [k \in Claims \cup {"overserviced"} |-> 0]
  /\ calls = 0 /\ restarts = 0
  /\ dispatched = 0 /\ committed = {}

\* The collector hands over what it has gathered, never nothing, and may have it
\* twice or with the wall clock for a time; the others hand over what BlockResults
\* and the header query returned.
CallProcessBlock(w) ==
  LET evs == decodeBlockEvents(block)
      Call(es, time) == writers' = [writers EXCEPT ![w] =
                                      [phase |-> "inserting", evs |-> es, time |-> time]]
  IN  /\ writers[w].phase = "idle" /\ calls < MaxCalls
      /\ IF w = "collector"
         THEN evs # <<>> /\ \E es \in {evs, evs \o evs}, time \in Times : Call(es, time)
         ELSE Call(evs, "header")
      /\ calls' = calls + 1
      /\ UNCHANGED <<block, suppliers, tables, counters, restarts, dispatched, committed>>

\* the transaction commits; there is one connection, so transactions take turns
InsertBlockEvents(w) ==
  LET evs == writers[w].evs
      time == writers[w].time
      filtered == Filtered(evs, suppliers)
      rows == SettlementRows(evs, suppliers, time)
  IN  /\ writers[w].phase = "inserting"
      /\ settlements' = InsertRows("settlements", settlements, rows)
      /\ rewards' = InsertRewards(rows, RewardDists(filtered))
      /\ overservices' = InsertRows("overservice_events", overservices,
                                    OverserviceRows(evs, suppliers, time))
      /\ reimbursements' = InsertRows("reimbursement_events", reimbursements,
                                      ReimbursementRows(evs, suppliers, time))
      /\ processed' =
           InsertProcessedBlock([count |-> Len(filtered), time |-> time,
                                 source |-> IF IsLive(w) THEN "live" ELSE "backfill"])
      /\ writers' = [writers EXCEPT ![w].phase = "stored"]
      /\ committed' = committed \cup {suppliers}
      /\ UNCHANGED <<block, suppliers, counters, bounds, dispatched>>

\* mutant: the error is logged and processing goes on
InsertFailsUnnoticed(w) ==
  /\ writers[w].phase = "inserting"
  /\ writers' = [writers EXCEPT ![w].phase = "stored"]
  /\ UNCHANGED <<block, suppliers, tables, counters, bounds, dispatched, committed>>

\* it is rolled back at whatever statement, and ProcessBlock returns the error
InsertFails(w) ==
  /\ writers[w].phase = "inserting"
  /\ writers' = [writers EXCEPT ![w] = Idle]
  /\ UNCHANGED <<block, suppliers, tables, counters, bounds, dispatched, committed>>

\* counters move for live blocks only
dispatchMetrics(w) ==
  LET filtered == Filtered(writers[w].evs, suppliers)
      Number(k) == Len(OfKinds(filtered, {k}))
  IN  /\ writers[w].phase = "stored"
      /\ counters' = IF IsLive(w)
                     THEN [k \in DOMAIN counters |-> counters[k] + Number(k)] ELSE counters
      /\ dispatched' = IF ~IsLive(w) THEN dispatched
                       ELSE IF writers[w].evs = decodeBlockEvents(block) THEN dispatched + 1
                       ELSE dispatched + 2
      /\ writers' = [writers EXCEPT ![w] = Idle]
      /\ UNCHANGED <<block, suppliers, tables, bounds, committed>>

\* the process ends at any point and is started again, with any supplier list
Restart ==
  /\ restarts < MaxRestarts /\ restarts' = restarts + 1
  /\ suppliers' \in SupplierLists
  /\ writers' = [w \in Writers |-> Idle]
  /\ counters' = [k \in DOMAIN counters |-> 0] /\ dispatched' = 0
  /\ UNCHANGED <<block, tables, calls, committed>>

\* nothing is left to do with the block
Finished == writers = [w \in Writers |-> Idle] /\ UNCHANGED vars

Next ==
  \/ \E w \in Writers :
       \/ CallProcessBlock(w) \/ InsertBlockEvents(w) \/ InsertFails(w)
       \/ dispatchMetrics(w)
  \/ Restart \/ Finished

Spec == Init /\ [][Next]_vars

-----------------------------------------------------------------------------
(* What the tables should hold, by quantification over the block.          *)

Decoded == ToSet(decodeBlockEvents(block))

\* no two events of the block claim the same row: what the UNIQUE keys suppose
DistinctKeys ==
  LET evs == decodeBlockEvents(block)
      Same(d, e) ==
        /\ d.kind = e.kind /\ d.supplier = e.supplier /\ d.app = e.app
        /\ d.kind # "overserviced" => d.session = e.session
  IN  \A i, j \in DOMAIN evs : i # j => ~Same(evs[i], evs[j])

\* the events some committed transaction let through its supplier filter
Due == {e \in Decoded : \E list \in committed : Match(list, e.supplier)}

Diff(o) == parseCoinAmount(o.expected) - parseCoinAmount(o.effective)

\* the claim a settlement row was made from
MadeFrom(r, e) == r.service = e.service /\ SettlementKey(r) = SettlementKey(e)

\* Whatever the order of writers, failures, restarts, repeated events and supplier
\* lists, the tables hold one row for every decoded event that passed the filter of
\* a committed transaction, and no other, provided the UNIQUE keys tell the events
\* of the block apart; and processed_blocks has one row for the block once one did.
StoredExactly ==
  /\ Cardinality(processed) = IF committed = {} THEN 0 ELSE 1
  /\ DistinctKeys =>
       /\ \A e \in Due : e.kind \in Claims => \E r \in settlements : MadeFrom(r, e)
       /\ Cardinality(settlements) = Cardinality({e \in Due : e.kind \in Claims})
       /\ {[of |-> r.of, address |-> r.address, amount |-> r.amount] : r \in rewards} =
            UNION {{[of |-> SettlementKey(e), address |-> d.address, amount |-> d.amount]
                      : d \in e.rewards} : e \in {e \in Due : e.kind = "settled"}}
       /\ {<<r.supplier, r.app, r.diff>> : r \in overservices} =
            {<<e.supplier, e.app, Diff(e)>> : e \in {e \in Due : e.kind = "overserviced"}}
       /\ {ReimbursementKey(r) : r \in reimbursements} =
            {ReimbursementKey(e) : e \in {e \in Due : e.kind = "reimbursement"}}

\* Every reward row belongs to a stored settlement, and to the very claim that row
\* was made from: also when the key does not tell two claims apart and one of them
\* was ignored, its rewards are not attached to the other.
RewardsBelong ==
  \A w \in rewards : \E r \in settlements, e \in Decoded :
    /\ SettlementKey(r) = w.of /\ MadeFrom(r, e)
    /\ [address |-> w.address, amount |-> w.amount] \in e.rewards

\* A settlement row is marked as overserviced if and only if it is a settled claim
\* whose supplier and application have a row in overservice_events, although one
\* is computed before the filter and the other after it; and the two differences
\* agree when there is one overservice event for the pair.
OverserviceAgrees ==
  \A r \in settlements :
    LET os == {o \in overservices : o.supplier = r.supplier /\ o.app = r.app}
    IN  /\ r.over.marked <=> r.kind = "settled" /\ os # {}
        /\ DistinctKeys /\ r.over.marked => \A o \in os : o.diff = r.over.diff

\* What live processing counted is in the tables: for a block counted once by this
\* process, each counter is the number of its rows that pass the supplier list.
CountersMatchRows ==
  DistinctKeys /\ dispatched = 1 =>
    /\ \A k \in Claims :
         counters[k] =
           Cardinality({r \in settlements : r.kind = k /\ Match(suppliers, r.supplier)})
    /\ counters["overserviced"] =
         Cardinality({r \in overservices : Match(suppliers, r.supplier)})

\* Processing a block again, live or backfilled, with another time, with its events
\* twice, or with a supplier list no wider than before, changes no row.
ReplayChangesNothing ==
  [][(\E list \in committed :
        \A e \in Decoded : Match(suppliers, e.supplier) => Match(list, e.supplier))
     => UNCHANGED tables]_vars

\* Not a property of the code: two events that share a UNIQUE key are both stored.
NothingIgnored == Cardinality(settlements) = Cardinality({e \in Due : e.kind \in Claims})

\* Nor is this: with a wider supplier list the count of processed_blocks stays.
EventCountCurrent ==
  \A p \in processed : p.count = Cardinality(Due)

\* Nor this: a block a lagging node repeats is gathered twice and counted twice.
CountedOncePerBlock ==
  DistinctKeys /\ calls = 1 => \A k \in Claims :
    counters[k] <= Cardinality({r \in settlements : r.kind = k})

=============================================================================
