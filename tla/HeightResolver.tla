--------------------------- MODULE HeightResolver ---------------------------
(***************************************************************************)
(* resolveFromHeight and resolveToHeight (cmd/height_resolver.go): turn    *)
(* --from or --to, a height, a date or a time, into a height by a binary   *)
(* search over block headers, on a node whose chain grows and that may     *)
(* prune old blocks while the search is under way.                         *)
(*                                                                         *)
(* Times are numbers, a date is the start of a day of DayLength.  The node *)
(* is external: it answers with a header, or with an error that names its  *)
(* lowest height.                                                          *)
(***************************************************************************)
EXTENDS Integers

CONSTANTS
  MaxHeight,        \* bound: the chain stops growing here
  MaxTime,          \* bound: the last block time, and the latest time asked for
  DayLength

ASSUME HeightResolverAssumption ==
  MaxHeight \in Nat \ {0} /\ MaxTime \in Nat /\ DayLength \in Nat \ {0}

VARIABLES
  times,            \* the time of each block
  chain,            \* latest height of the chain
  lowest,           \* lowest height the node still has
  request,          \* which flag, what kind of input, and the height or time given
  pc,               \* "parse", "status", "probe", "search", "done", "failed"
  earliest, latest, \* what getChainBounds returned
  low, high,        \* of findFirstBlockAtOrAfter
  result            \* the height returned, 0 while there is none

resolverVars == <<times, chain, lowest, request, pc, earliest, latest, low, high, result>>

Heights == 1..MaxHeight
Requests == [flag : {"from", "to"}, kind : {"height", "time", "date", "invalid"},
             value : 0..MaxTime]

\* block times increase with the height
Ascending(f) == \A g, h \in Heights : g < h => f[g] < f[h]

\* --to with a date means the end of that day
WholeDay == request.flag = "to" /\ request.kind = "date"

\* the time searched for
Target == IF WholeDay THEN request.value + DayLength ELSE request.value

-----------------------------------------------------------------------------
ResolverInit ==
  /\ times \in [Heights -> 0..MaxTime] /\ Ascending(times)
  /\ chain \in Heights /\ lowest \in 1..chain
  /\ request \in Requests /\ (request.kind = "date" => request.value % DayLength = 0)
  /\ pc = "parse"
  /\ earliest = 0 /\ latest = 0 /\ low = 0 /\ high = 0 /\ result = 0

(* The node.                                                               *)

Commit ==
  /\ chain < MaxHeight /\ chain' = chain + 1
  /\ UNCHANGED <<times, lowest, request, pc, earliest, latest, low, high, result>>

Prune ==
  /\ lowest < chain /\ lowest' = lowest + 1
  /\ UNCHANGED <<times, chain, request, pc, earliest, latest, low, high, result>>

-----------------------------------------------------------------------------
(* The resolver.                                                           *)

Return(h) ==
  /\ pc' = "done" /\ result' = h
  /\ UNCHANGED <<times, chain, lowest, request, earliest, latest, low, high>>

Fail ==
  /\ pc' = "failed"
  /\ UNCHANGED <<times, chain, lowest, request, earliest, latest, low, high, result>>

\* an integer is returned as it is; a time or a date needs the bounds of the chain
Parse ==
  /\ pc = "parse"
  /\ CASE request.kind = "height" -> Return(request.value)
       [] request.kind = "invalid" -> Fail
       [] OTHER -> /\ pc' = "status"
                   /\ UNCHANGED <<times, chain, lowest, request, earliest, latest, low, high,
                                  result>>

StartSearch(from, to) ==
  /\ pc' = "search" /\ earliest' = from /\ latest' = to /\ low' = from /\ high' = to
  /\ UNCHANGED <<times, chain, lowest, request, result>>

\* getChainBounds: the node reports its earliest height, or 0 if it does not know
Status ==
  /\ pc = "status"
  /\ \/ StartSearch(lowest, chain)
     \/ /\ pc' = "probe" /\ latest' = chain
        /\ UNCHANGED <<times, chain, lowest, request, earliest, low, high, result>>

\* then the error for height 1 names it, or there is none and it is taken for 1
Probe ==
  /\ pc = "probe"
  /\ \E from \in {lowest, 1} : StartSearch(from, latest)

\* the Status call, or the header of a height the node should have, is not answered
QueryFails == pc \in {"status", "search"} /\ Fail

Mid == (low + high) \div 2

\* one round of the binary search with a header
HalveStuck ==                           \* mutant: low = mid
  /\ pc = "search" /\ low < high /\ Mid >= lowest
  /\ IF times[Mid] < Target THEN low' = Mid /\ UNCHANGED high
                            ELSE high' = Mid /\ UNCHANGED low
  /\ UNCHANGED <<times, chain, lowest, request, pc, earliest, latest, result>>
HalvePast ==                            \* mutant: high = mid - 1
  /\ pc = "search" /\ low < high /\ Mid >= lowest
  /\ IF times[Mid] < Target THEN low' = Mid + 1 /\ UNCHANGED high
                            ELSE high' = Mid - 1 /\ UNCHANGED low
  /\ UNCHANGED <<times, chain, lowest, request, pc, earliest, latest, result>>
Halve ==
  /\ pc = "search" /\ low < high /\ Mid >= lowest
  /\ IF times[Mid] < Target THEN low' = Mid + 1 /\ UNCHANGED high
                            ELSE high' = Mid /\ UNCHANGED low
  /\ UNCHANGED <<times, chain, lowest, request, pc, earliest, latest, result>>

\* ... and with a height that is gone: go on from the lowest one there is
SkipPruned ==
  /\ pc = "search" /\ low < high /\ Mid < lowest
  /\ IF lowest > low THEN low' = lowest /\ UNCHANGED pc
                     ELSE pc' = "failed" /\ UNCHANGED low
  /\ UNCHANGED <<times, chain, lowest, request, earliest, latest, high, result>>

\* the search has ended: of a whole day the block before is wanted, and there is
\* none if the day is before the chain
Found ==
  /\ pc = "search" /\ low >= high
  /\ CASE ~WholeDay -> Return(low)
       [] WholeDay /\ low <= earliest -> Fail
       [] OTHER -> Return(low - 1)

-----------------------------------------------------------------------------
ResolverStep == Parse \/ Status \/ Probe \/ QueryFails \/ Halve \/ SkipPruned \/ Found

Returned == pc \in {"done", "failed"} /\ UNCHANGED resolverVars

ResolverNext == Commit \/ Prune \/ ResolverStep \/ Returned

ResolverSpec == ResolverInit /\ [][ResolverNext]_resolverVars

\* The resolver runs and its calls are answered: that one may fail is not what the
\* end of the search depends on.
FairSpec ==
  ResolverSpec /\ WF_resolverVars(Parse \/ Status \/ Probe \/ Halve \/ SkipPruned \/ Found)

-----------------------------------------------------------------------------
\* Every variable has its type, and the search only asks for heights of the chain.
TypeOK ==
  /\ times \in [Heights -> 0..MaxTime] /\ Ascending(times)
  /\ chain \in Heights /\ lowest \in 1..chain
  /\ request \in Requests
  /\ pc \in {"parse", "status", "probe", "search", "done", "failed"}
  /\ earliest \in 0..MaxHeight /\ latest \in 0..chain /\ result \in Nat
  /\ low \in 0..MaxHeight /\ high \in 0..latest
  /\ pc = "probe" => latest >= 1
  /\ pc = "search" => low >= 1 /\ high >= 1

\* h is the first block at or after the target, as far as the node can tell: each
\* block below is earlier or gone, and h, unless it is the head of the chain, is
\* not earlier
IsFirst(h) ==
  /\ \A g \in Heights : g < h => times[g] < Target \/ g < lowest
  /\ h < latest => times[h] >= Target

\* What findFirstBlockAtOrAfter returns is the first block at or after the target,
\* however its halving, the pruning under its feet and the growth of the chain
\* interleave; a whole day ends with the block before.
SearchCorrect ==
  pc = "done" /\ request.kind \in {"time", "date"} =>
    IsFirst(IF WholeDay THEN result + 1 ELSE result)

\* The search ends: each round narrows the range, also when it meets pruned blocks.
SearchEnds == <>(pc \in {"done", "failed"})

\* the day asked for has a block already
DayHasBlock == \E h \in 1..latest : request.value <= times[h] /\ times[h] < Target

\* "For date-only (e.g. "2026-01-15"): last block of that day", of a day that has
\* a block.
LastBlockOfDay ==
  pc = "done" /\ WholeDay /\ DayHasBlock =>
    /\ times[result] < Target
    /\ \A h \in Heights : result < h /\ h <= latest => times[h] >= Target

=============================================================================
